---------------------------- MODULE DacDirectory ----------------------------
(***************************************************************************)
(* The directory of DACs (dacdirectory): which account owns which DAC,     *)
(* with which token, which accounts serve it, and a cache of the budget    *)
(* NFTs that each DAC's owner holds, kept for those who size budgets by    *)
(* them.                                                                   *)
(*                                                                         *)
(* Who signs is left out: production builds ask for the directory's own    *)
(* account in most actions, for the owner's instead in setsocials and      *)
(* setsociallnk, and for both in regdac of a DAC that exists.  Left out    *)
(* too: the rules for the spelling of an id.  An id is a number, as        *)
(* account names are, and the byowner index finds the smallest id of an    *)
(* owner's DACs.  NFTs are those of the budget schema; the NFT contract    *)
(* moves them before it tells of it.                                       *)
(*                                                                         *)
(* Operators named Operation_Slip are variants that no step uses.          *)
(***************************************************************************)
EXTENDS Integers

CONSTANTS
  Ids,       \* ids of DACs, as numbers
  Owners,    \* accounts that own DACs and NFTs
  NoName,    \* no account
  Symbols,   \* tokens of DACs
  Types,     \* types of accounts a DAC registers
  Texts,     \* what a title, a reference or a link says
  Nfts       \* NFTs of the budget schema

VARIABLES
  dacs,      \* the dacs table
  socials,   \* the dacglobals of each id, which outlive the DAC
  caches,    \* the nftcache table of each id, which outlives it too
  holder,    \* external: who holds each NFT, or NoName
  mixed      \* history: ids whose caches are no longer those of one owner

vars == <<dacs, socials, caches, holder, mixed>>

NoDac == [row |-> FALSE, owner |-> NoName, symbol |-> NoName, text |-> NoName,
          accounts |-> [t \in Types |-> NoName], active |-> FALSE]

Registered(d) == dacs[d].row

OwnedBy(o) == {d \in Ids : Registered(d) /\ dacs[d].owner = o}

(* dac_for_owner: the set of the DAC found, or the empty set. *)
DacForOwner(o) == {d \in OwnedBy(o) : \A e \in OwnedBy(o) : d <= e}

-----------------------------------------------------------------------------
Init ==
  /\ dacs = [d \in Ids |-> NoDac]
  /\ socials = [d \in Ids |-> [active |-> FALSE, link |-> NoName]]
  /\ caches = [d \in Ids |-> {}]
  /\ holder = [n \in Nfts |-> NoName]
  /\ mixed = {}

(* regdac for a new id: the token must be new, and the owner without a DAC. *)
RegDac_AnyOwner(d, o, symbol, text, accounts) ==
  /\ ~Registered(d)
  /\ \A e \in Ids : Registered(e) => dacs[e].symbol # symbol
  /\ dacs' = [dacs EXCEPT ![d] = [row |-> TRUE, owner |-> o, symbol |-> symbol, text |-> text,
                                  accounts |-> accounts, active |-> FALSE]]
  /\ UNCHANGED <<socials, caches, holder, mixed>>

RegDac(d, o, symbol, text, accounts) ==
  /\ ~Registered(d)
  /\ \A e \in Ids : Registered(e) => dacs[e].symbol # symbol
  /\ DacForOwner(o) = {}
  /\ dacs' = [dacs EXCEPT ![d] = [row |-> TRUE, owner |-> o, symbol |-> symbol, text |-> text,
                                  accounts |-> accounts, active |-> FALSE]]
  /\ UNCHANGED <<socials, caches, holder, mixed>>

(* Title and references: regdac for an id that is there, settitle, regref   *)
(* and unregref.                                                            *)
Describe(d, text) ==
  /\ Registered(d)
  /\ dacs' = [dacs EXCEPT ![d].text = text]
  /\ UNCHANGED <<socials, caches, holder, mixed>>

RegDacAgain(d, text) == Describe(d, text)
SetTitle(d, text) == Describe(d, text)
RegRef(d, text) == Describe(d, text)
UnregRef(d) == Describe(d, NoName)

(* unregdac: neither the settings nor the cache go with the DAC. *)
UnregDac(d) ==
  /\ Registered(d)
  /\ dacs' = [dacs EXCEPT ![d] = NoDac]
  /\ mixed' = mixed \cup {d}
  /\ UNCHANGED <<socials, caches, holder>>

RegAccount(d, a, t) ==
  /\ Registered(d)
  /\ dacs' = [dacs EXCEPT ![d].accounts[t] = a]
  /\ UNCHANGED <<socials, caches, holder, mixed>>

UnregAccount(d, t) ==
  /\ Registered(d)
  /\ dacs' = [dacs EXCEPT ![d].accounts[t] = NoName]
  /\ UNCHANGED <<socials, caches, holder, mixed>>

(* setowner: the new owner may have a DAC already, and the cache stays.     *)
SetOwner(d, o) ==
  /\ Registered(d)
  /\ dacs' = [dacs EXCEPT ![d].owner = o]
  /\ mixed' = mixed \cup {d} \cup OwnedBy(o)
  /\ UNCHANGED <<socials, caches, holder>>

SetStatus(d, active) ==
  /\ Registered(d)
  /\ dacs' = [dacs EXCEPT ![d].active = active]
  /\ UNCHANGED <<socials, caches, holder, mixed>>

(* hdlegovchg: daccustodian tells of a new board; the id is not looked up.  *)
HdleGovChg(d) ==
  /\ socials' = [socials EXCEPT ![d].active = FALSE]
  /\ UNCHANGED <<dacs, caches, holder, mixed>>

SetSocials(d, active) ==
  /\ Registered(d)
  /\ socials' = [socials EXCEPT ![d].active = active]
  /\ UNCHANGED <<dacs, caches, holder, mixed>>

SetSocialLnk(d, link) ==
  /\ Registered(d)
  /\ socials' = [socials EXCEPT ![d].link = link]
  /\ UNCHANGED <<dacs, caches, holder, mixed>>

-----------------------------------------------------------------------------
(* upsert_nft: out of the cache of the old owner's DAC, into that of the    *)
(* new owner's.                                                             *)
UpsertNft_Keeps(cache, n, old, new) ==
  [d \in Ids |-> IF d \in DacForOwner(new) THEN cache[d] \cup {n} ELSE cache[d]]

UpsertNft(cache, n, old, new) ==
  [d \in Ids |-> (cache[d] \ {x \in {n} : d \in DacForOwner(old)})
                 \cup {x \in {n} : d \in DacForOwner(new)}]

LogMint(n, o) ==
  /\ holder[n] = NoName
  /\ n \notin UNION {caches[d] : d \in Ids}
  /\ holder' = [holder EXCEPT ![n] = o]
  /\ caches' = UpsertNft(caches, n, NoName, o)
  /\ UNCHANGED <<dacs, socials, mixed>>

LogTransfer(n, o) ==
  /\ holder[n] \notin {NoName, o}
  /\ holder' = [holder EXCEPT ![n] = o]
  /\ caches' = UpsertNft(caches, n, holder[n], o)
  /\ UNCHANGED <<dacs, socials, mixed>>

(* The NFT contract burns an NFT: the directory does not hear of it.        *)
BurnNft(n) ==
  /\ holder[n] # NoName
  /\ holder' = [holder EXCEPT ![n] = NoName]
  /\ UNCHANGED <<dacs, socials, caches, mixed>>

-----------------------------------------------------------------------------
Next ==
  \/ \E d \in Ids :
       \/ \E o \in Owners :
            \/ \E s \in Symbols, text \in Texts, accounts \in [Types -> Owners \cup {NoName}] :
                 RegDac(d, o, s, text, accounts)
            \/ SetOwner(d, o)
       \/ \E text \in Texts : RegDacAgain(d, text) \/ SetTitle(d, text) \/ RegRef(d, text)
                              \/ SetSocialLnk(d, text)
       \/ \E t \in Types : UnregAccount(d, t) \/ \E a \in Owners : RegAccount(d, a, t)
       \/ \E active \in BOOLEAN : SetStatus(d, active) \/ SetSocials(d, active)
       \/ UnregRef(d) \/ UnregDac(d) \/ HdleGovChg(d)
  \/ \E n \in Nfts : BurnNft(n) \/ \E o \in Owners : LogMint(n, o) \/ LogTransfer(n, o)

Spec == Init /\ [][Next]_vars

-----------------------------------------------------------------------------
(* Properties *)

Dacs == [row : BOOLEAN, owner : Owners \cup {NoName},
         symbol : Symbols \cup {NoName}, text : Texts \cup {NoName},
         accounts : [Types -> Owners \cup {NoName}], active : BOOLEAN]
Links == [active : BOOLEAN, link : Texts \cup {NoName}]

TypeOK ==
  /\ dacs \in [Ids -> Dacs]
  /\ socials \in [Ids -> Links]
  /\ caches \in [Ids -> SUBSET Nfts]
  /\ holder \in [Nfts -> Owners \cup {NoName}]
  /\ mixed \subseteq Ids

(* No budget NFT counts for two DACs or for one whose owner gave it away:   *)
(* it is cached under a DAC only if that DAC's owner holds it or it was     *)
(* burnt.  This ends for a DAC when setowner changes its owner or gives its *)
(* owner another DAC, and when it is unregistered: the cache stays.         *)
CacheFollowsOwner ==
  \A d \in Ids \ mixed : \A n \in caches[d] :
    Registered(d) /\ holder[n] \in {dacs[d].owner, NoName}

=============================================================================
