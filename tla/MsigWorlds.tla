----------------------------- MODULE MsigWorlds -----------------------------
(***************************************************************************)
(* The multisignature contract (msigworlds) for one DAC: proposals, the    *)
(* approvals given to them with their times, invalidations and the list of *)
(* blocked actions.                                                        *)
(*                                                                         *)
(* What approvals authorize is up to the chain: the permission that a      *)
(* proposal needs is held by the custodians in office, of whom Threshold   *)
(* must agree (see setMsigAuths in DacElections).  The list of requested   *)
(* approvals only says who is to be asked: no step reads it.               *)
(*                                                                         *)
(* Operators named Operation_Slip are variants that no step uses.          *)
(***************************************************************************)
EXTENDS Integers, FiniteSets

CONSTANTS
  Names,       \* names of proposals
  Accounts,    \* custodians, former and future ones
  Referendum,  \* the referendum contract, which proposes what was voted for
  Boards,      \* the sets of custodians there may be
  Threshold,   \* how many of them the permission asks for
  Actions,     \* what the transaction of a proposal does
  Delays,      \* its delay_sec
  Lifetimes,   \* seconds to its expiration
  MaxTime      \* bound: the last second of a behaviour

ASSUME MsigAssumption ==
  /\ IsFiniteSet(Accounts) /\ Referendum \notin Accounts
  /\ Boards \subseteq SUBSET Accounts
  /\ Threshold \in Nat
  /\ Delays \subseteq Nat /\ Lifetimes \subseteq Nat
  /\ MaxTime \in Nat

VARIABLES
  now,        \* the head block's time
  board,      \* the custodians table, and the holders of the permission
  proposals,  \* the proposals table
  provided,   \* provided_approvals: the time of each account's, or Never
  invals,     \* last_invalidation_time of each account, or Never
  blocked,    \* the blocked actions
  word,       \* history: each account's last word on each proposal
  ready,      \* history: when last words last came to suffice, or Never
  upset       \* history: proposals during which the board changed or someone
              \* invalidated what they had approved

history == <<word, ready, upset>>
vars == <<now, board, proposals, provided, invals, blocked, history>>

Never == -1
States == {"none", "pending", "executed", "cancelled"}

NoProposal == [state |-> "none", proposer |-> Referendum, does |-> "nothing",
               delay |-> 0, expiration |-> 0, earliest |-> Never]

Pending(p) == proposals[p].state = "pending"
Expired(p) == proposals[p].expiration < now

-----------------------------------------------------------------------------
(* get_approvals: an approval counts if it is later than the last           *)
(* invalidation by the same account.                                        *)
Counts_Inclusive(time, inval) == time # Never /\ inval <= time

Counts(time, inval) == time # Never /\ inval < time

Approvals(given) == {a \in Accounts : Counts(given[a], invals[a])}

(* trx_is_authorized: what the chain says of those approvals.               *)
Authorized(given) == Cardinality(Approvals(given) \cap board) >= Threshold

(* History: the words of the custodians, and since when they suffice.       *)
Agreed(words) == Cardinality({a \in board : words[a] = "for"}) >= Threshold
Since(p, words) ==
  IF ~Agreed(words) THEN Never ELSE IF ready[p] = Never THEN now ELSE ready[p]

Says(p, a, w) ==
  /\ word' = [word EXCEPT ![p][a] = w]
  /\ ready' = [ready EXCEPT ![p] = Since(p, [word[p] EXCEPT ![a] = w])]
  /\ upset' = upset

Forgets(p) ==
  /\ word' = [word EXCEPT ![p] = [a \in Accounts |-> "none"]]
  /\ ready' = [ready EXCEPT ![p] = Never]
  /\ upset' = upset \ {p}

-----------------------------------------------------------------------------
Init ==
  /\ now = 0
  /\ board \in Boards
  /\ proposals = [p \in Names |-> NoProposal]
  /\ provided = [p \in Names |-> [a \in Accounts |-> Never]]
  /\ invals = [a \in Accounts |-> Never]
  /\ blocked = {}
  /\ word = [p \in Names |-> [a \in Accounts |-> "none"]]
  /\ ready = [p \in Names |-> Never]
  /\ upset = {}

Tick ==
  /\ now < MaxTime
  /\ now' = now + 1
  /\ UNCHANGED <<board, proposals, provided, invals, blocked, history>>

(* newperiod and resigncust change the table and the permission together.   *)
NewBoard(b) ==
  /\ b # board
  /\ board' = b
  /\ upset' = {p \in Names : Pending(p)}
  /\ UNCHANGED <<now, proposals, provided, invals, blocked, word, ready>>

(* propose: by a custodian or by the referendum contract; those who were    *)
(* asked must be able to authorize it.                                      *)
Propose(p, who, does, delay, life) ==
  /\ who \in board \cup {Referendum}
  /\ does \notin blocked
  /\ proposals[p].state = "none"
  /\ Cardinality(board) >= Threshold
  /\ proposals' = [proposals EXCEPT ![p] =
       [state |-> "pending", proposer |-> who, does |-> does, delay |-> delay,
        expiration |-> now + life, earliest |-> Never]]
  /\ provided' = [provided EXCEPT ![p] = [a \in Accounts |-> Never]]
  /\ Forgets(p)
  /\ UNCHANGED <<now, board, invals, blocked>>

(* approve: the delay starts with the approval that suffices. *)
Approve(p, a) ==
  LET given == [provided[p] EXCEPT ![a] = now] IN
  /\ a \in board
  /\ Pending(p)
  /\ provided[p][a] = Never
  /\ provided' = [provided EXCEPT ![p] = given]
  /\ proposals' = [proposals EXCEPT ![p].earliest =
       IF @ = Never /\ Authorized(given) THEN now + proposals[p].delay ELSE @]
  /\ Says(p, a, "for")
  /\ UNCHANGED <<now, board, invals, blocked>>

(* _unapprove: unapprove needs an approval to take back, deny does not; the *)
(* delay starts anew if the others do not suffice.                          *)
TakeBack_KeepsDelay(p, a) ==
  /\ Pending(p)
  /\ provided' = [provided EXCEPT ![p][a] = Never]
  /\ proposals' = proposals
  /\ Says(p, a, "against")
  /\ UNCHANGED <<now, board, invals, blocked>>

TakeBack(p, a) ==
  LET given == [provided[p] EXCEPT ![a] = Never] IN
  /\ Pending(p)
  /\ provided' = [provided EXCEPT ![p] = given]
  /\ proposals' = [proposals EXCEPT ![p].earliest =
       IF Authorized(given) THEN @ ELSE Never]
  /\ Says(p, a, "against")
  /\ UNCHANGED <<now, board, invals, blocked>>

Unapprove(p, a) == provided[p][a] # Never /\ TakeBack(p, a)

Deny(p, a) == TakeBack(p, a)

Cancel(p, who) ==
  /\ Pending(p)
  /\ who = proposals[p].proposer \/ Expired(p)
  /\ proposals' = [proposals EXCEPT ![p].state = "cancelled"]
  /\ Forgets(p)
  /\ UNCHANGED <<now, board, provided, invals, blocked>>

(* exec: without an earliest time there is no delay to wait for. *)
Exec(p) ==
  /\ Pending(p)
  /\ ~Expired(p)
  /\ Authorized(provided[p])
  /\ proposals[p].earliest = Never \/ proposals[p].earliest <= now
  /\ proposals' = [proposals EXCEPT ![p].state = "executed"]
  /\ Forgets(p)
  /\ UNCHANGED <<now, board, provided, invals, blocked>>

Cleanup(p) ==
  /\ proposals[p].state # "none"
  /\ Pending(p) => Expired(p)
  /\ proposals' = [proposals EXCEPT ![p] = NoProposal]
  /\ provided' = [provided EXCEPT ![p] = [a \in Accounts |-> Never]]
  /\ Forgets(p)
  /\ UNCHANGED <<now, board, invals, blocked>>

(* invalidate: whatever the account approved before. *)
Invalidate(a) ==
  /\ invals' = [invals EXCEPT ![a] = now]
  /\ word' = [p \in Names |-> [word[p] EXCEPT ![a] = IF Pending(p) THEN "against" ELSE @]]
  /\ upset' = {p \in Names : Pending(p)}
  /\ UNCHANGED <<now, board, proposals, provided, blocked, ready>>

BlockAction(does) ==
  /\ does \notin blocked
  /\ blocked' = blocked \cup {does}
  /\ UNCHANGED <<now, board, proposals, provided, invals, history>>

-----------------------------------------------------------------------------
Next ==
  \/ Tick
  \/ \E b \in Boards : NewBoard(b)
  \/ \E p \in Names, who \in Accounts \cup {Referendum} :
       \/ \E x \in Actions, d \in Delays, l \in Lifetimes : Propose(p, who, x, d, l)
       \/ Cancel(p, who)
  \/ \E p \in Names, a \in Accounts : Approve(p, a) \/ Unapprove(p, a) \/ Deny(p, a)
  \/ \E p \in Names : Exec(p) \/ Cleanup(p)
  \/ \E a \in Accounts : Invalidate(a)
  \/ \E x \in Actions : BlockAction(x)

Spec == Init /\ [][Next]_vars

-----------------------------------------------------------------------------
(* Properties *)

Rows == [state : States, proposer : Accounts \cup {Referendum},
         does : Actions \cup {"nothing"}, delay : Nat, expiration : Nat,
         earliest : Nat \cup {Never}]

TypeOK ==
  /\ now \in Nat
  /\ board \in Boards
  /\ proposals \in [Names -> Rows]
  /\ provided \in [Names -> [Accounts -> Nat \cup {Never}]]
  /\ \A p \in Names : proposals[p].state = "none" => proposals[p] = NoProposal
  /\ invals \in [Accounts -> Nat \cup {Never}]
  /\ blocked \subseteq Actions
  /\ word \in [Names -> [Accounts -> {"none", "for", "against"}]]
  /\ ready \in [Names -> Nat \cup {Never}]
  /\ upset \subseteq Names

Executes(p) == Pending(p) /\ proposals'[p].state = "executed"

(* A proposal is executed only if enough of the custodians in office said   *)
(* yes to it last: no approval survives an unapprove, a deny or an          *)
(* invalidate, a cleanup of the proposal under the same name, or its        *)
(* giver's time in office, whatever the order within one second.            *)
LastWordCounts == [][\A p \in Names : Executes(p) => Agreed(word[p])]_vars

(* Unless the board changed or someone invalidated meanwhile, a proposal is *)
(* executed only when enough custodians have agreed for all of its delay.   *)
DelayKept ==
  [][\A p \in Names \ upset :
       Executes(p) => ready[p] # Never /\ ready[p] + proposals[p].delay <= now]_vars

=============================================================================
