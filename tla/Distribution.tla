---------------------------- MODULE Distribution ----------------------------
(***************************************************************************)
(* The distribution contract (distribution): airdrops that an owner sets   *)
(* up, an approver approves and someone funds, and whose receivers are     *)
(* paid in batches (send) or claim their part one by one.                  *)
(*                                                                         *)
(* All distributions share the contract's one balance of the token that    *)
(* eosio.token keeps: receive hears of no other token, so distributions of *)
(* others are never funded and are left out.  Owner and approver are named *)
(* in the row of a distribution and are left out too: each step is taken   *)
(* by the one who may take it.  Receivers are numbers, as account names    *)
(* are: a batch takes the smallest ones first.                             *)
(*                                                                         *)
(* Operators named Operation_Slip are variants that no step uses.          *)
(***************************************************************************)
EXTENDS Totals

CONSTANTS
  Ids,        \* ids of distributions
  Receivers,  \* account names, as numbers
  Amounts,    \* what one receiver may be promised
  Sums,       \* total_amount of a distribution
  Supply      \* bound: what all who fund distributions hold together

VARIABLES
  confs,      \* the districonfs table
  lists,      \* the distris tables: the amount of each receiver, 0 without a row
  held,       \* the contract's balance of the token
  promised,   \* history: the list that was approved
  paid,       \* history: what each receiver was paid since
  left        \* history: what unregistered distributions left behind

vars == <<confs, lists, held, promised, paid, left>>

Nothing == [r \in Receivers |-> 0]

NoConf == [stage |-> "none", type |-> "sendable", total |-> 0, received |-> 0, sent |-> 0]

Listed(d) == {r \in Receivers : lists[d][r] > 0}

Owed(list) == Total(list, Receivers)

(* The next n rows of a table, by primary key. *)
FirstOf(rows, n) == {r \in rows : Cardinality({q \in rows : q <= r}) <= n}

Without(list, rows) == [r \in Receivers |-> IF r \in rows THEN 0 ELSE list[r]]

Funded(d) == confs[d].received = confs[d].total

-----------------------------------------------------------------------------
Init ==
  /\ confs = [d \in Ids |-> NoConf]
  /\ lists = [d \in Ids |-> Nothing]
  /\ held = 0
  /\ promised = [d \in Ids |-> Nothing]
  /\ paid = [d \in Ids |-> Nothing]
  /\ left = 0

RegDistri(d, type, total) ==
  /\ confs[d].stage = "none"
  /\ confs' = [confs EXCEPT ![d] =
       [stage |-> "open", type |-> type, total |-> total, received |-> 0, sent |-> 0]]
  /\ UNCHANGED <<lists, held, promised, paid, left>>

(* unregdistri: money that came in and was not sent stays behind. *)
UnregDistri(d) ==
  /\ confs[d].stage # "none"
  /\ Listed(d) = {}
  /\ left' = left + confs[d].received - confs[d].sent
  /\ confs' = [confs EXCEPT ![d] = NoConf]
  /\ promised' = [promised EXCEPT ![d] = Nothing]
  /\ paid' = [paid EXCEPT ![d] = Nothing]
  /\ UNCHANGED <<lists, held>>

(* receive: the notice of a transfer whose memo names the distribution.     *)
Receive(d, amount) ==
  /\ held + amount <= Supply
  /\ confs[d].stage # "none"
  /\ confs[d].received + amount <= confs[d].total
  /\ held' = held + amount
  /\ confs' = [confs EXCEPT ![d].received = @ + amount]
  /\ UNCHANGED <<lists, promised, paid, left>>

(* approve: the list as it is, whatever it adds up to. *)
Approve(d) ==
  /\ confs[d].stage = "open"
  /\ Listed(d) # {}
  /\ confs' = [confs EXCEPT ![d].stage = "approved"]
  /\ promised' = [promised EXCEPT ![d] = lists[d]]
  /\ UNCHANGED <<lists, held, paid, left>>

(* populate: drops holds 0 for who is not named; a row there is already     *)
(* changes only if the owner says so.                                       *)
Populated(list, drops, allowModify) ==
  [r \in Receivers |->
     IF drops[r] > 0 /\ (list[r] = 0 \/ allowModify) THEN drops[r] ELSE list[r]]

Populate_Approved(d, drops, allowModify) ==
  /\ confs[d].stage # "none"
  /\ lists' = [lists EXCEPT ![d] = Populated(@, drops, allowModify)]
  /\ UNCHANGED <<confs, held, promised, paid, left>>

Populate(d, drops, allowModify) ==
  /\ confs[d].stage = "open"
  /\ lists' = [lists EXCEPT ![d] = Populated(@, drops, allowModify)]
  /\ UNCHANGED <<confs, held, promised, paid, left>>

Empty(d, batch) ==
  /\ confs[d].stage = "open"
  /\ Listed(d) # {}
  /\ lists' = [lists EXCEPT ![d] = Without(@, FirstOf(Listed(d), batch))]
  /\ UNCHANGED <<confs, held, promised, paid, left>>

(* The transfers, one to each of the rows, and the rows' end: all of it     *)
(* fails if the balance does not cover one of them.                         *)
Pay(d, rows) ==
  LET out == [r \in Receivers |-> IF r \in rows THEN lists[d][r] ELSE 0]
  IN /\ held >= Owed(out)
     /\ held' = held - Owed(out)
     /\ confs' = [confs EXCEPT ![d].sent = @ + Owed(out)]
     /\ lists' = [lists EXCEPT ![d] = Without(@, rows)]
     /\ paid' = [paid EXCEPT ![d] = [r \in Receivers |-> @[r] + out[r]]]
     /\ UNCHANGED <<promised, left>>

Send_Unfunded(d, batch) ==
  /\ confs[d].stage = "approved"
  /\ confs[d].type = "sendable"
  /\ Listed(d) # {}
  /\ Pay(d, FirstOf(Listed(d), batch))

Send(d, batch) ==
  /\ confs[d].stage = "approved"
  /\ confs[d].type = "sendable"
  /\ Funded(d)
  /\ Listed(d) # {}
  /\ Pay(d, FirstOf(Listed(d), batch))

Claim(d, r) ==
  /\ confs[d].stage = "approved"
  /\ confs[d].type = "claimable"
  /\ Funded(d)
  /\ r \in Listed(d)
  /\ Pay(d, {r})

-----------------------------------------------------------------------------
Next == \E d \in Ids :
  \/ \E type \in {"sendable", "claimable"}, total \in Sums : RegDistri(d, type, total)
  \/ UnregDistri(d)
  \/ \E amount \in 1..Supply : Receive(d, amount)
  \/ Approve(d)
  \/ \E drops \in [Receivers -> Amounts \cup {0}], allowModify \in BOOLEAN :
       Populate(d, drops, allowModify)
  \/ \E batch \in 1..Cardinality(Receivers) : Empty(d, batch) \/ Send(d, batch)
  \/ \E r \in Receivers : Claim(d, r)

Spec == Init /\ [][Next]_vars

-----------------------------------------------------------------------------
(* Properties *)

TypeOK ==
  /\ confs \in [Ids -> [stage : {"none", "open", "approved"}, type : {"sendable", "claimable"},
                        total : Sums \cup {0}, received : Nat, sent : Nat]]
  /\ {lists, promised, paid} \subseteq [Ids -> [Receivers -> Nat]]
  /\ held \in Nat /\ left \in Int

(* Once a list is approved, every receiver on it gets the approved amount   *)
(* exactly once, and nobody else gets anything: neither batches and claims  *)
(* in any order nor a late populate or a second registration under the same *)
(* id change that.                                                          *)
PaidAsApproved ==
  \A d \in Ids :
    IF confs[d].stage = "approved"
    THEN \A r \in Receivers : paid[d][r] + lists[d][r] = promised[d][r]
    ELSE paid[d] = Nothing

Received == [d \in Ids |-> confs[d].received]
Sent == [d \in Ids |-> confs[d].sent]

(* The contract holds what came in for every distribution and was not yet   *)
(* sent, with what unregistered ones left; so if no approved list exceeds   *)
(* its total, all of the funded ones can be paid out together, and no       *)
(* distribution is paid with another one's money.                           *)
Payable ==
  /\ held + Total(Sent, Ids) = left + Total(Received, Ids)
  /\ \A d \in Ids :
       confs[d].stage = "approved" /\ Owed(promised[d]) <= confs[d].total =>
         /\ confs[d].sent <= confs[d].received
         /\ Funded(d) => Owed(lists[d]) <= confs[d].received - confs[d].sent

=============================================================================
