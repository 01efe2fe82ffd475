------------------------------ MODULE DacEscrow ------------------------------
(***************************************************************************)
(* The escrow contract (dacescrow): a sender, a receiver and an arbiter    *)
(* agree; transfers into the contract fund the two sums; the escrow ends   *)
(* by approve, disapprove, refund or cancel.                               *)
(*                                                                         *)
(* One token stands for the tokens that may be paid in: nothing relates    *)
(* them.  A token pays out only what the contract holds and refuses        *)
(* transfers of zero.  Of the time only matters how long an escrow still   *)
(* has to its expiry: that is what a row keeps here, down to 0.            *)
(*                                                                         *)
(* Operators named Operation_Slip are variants that no step uses.          *)
(***************************************************************************)
EXTENDS Totals

CONSTANTS
  Keys,       \* ext_reference
  Accounts,
  Nobody,     \* stands for the parties of no escrow
  Wealth,     \* what each account owns at first
  Lifetimes   \* seconds from init to expiry

ASSUME EscrowAssumption ==
  /\ IsFiniteSet(Keys) /\ IsFiniteSet(Accounts)
  /\ Nobody \notin Accounts
  /\ Wealth \in [Accounts -> Nat]
  /\ Lifetimes \subseteq Nat

VARIABLES
  escrows,   \* the escrows table
  funds,     \* the token balance of each account
  held,      \* the token balance of the contract
  stranded   \* history: arbiter pay whose escrow ended without paying it

vars == <<escrows, funds, held, stranded>>

NoEscrow == [row |-> FALSE, sender |-> Nobody, receiver |-> Nobody,
             arb |-> Nobody, receiver_pay |-> 0, arbiter_pay |-> 0,
             left |-> 0, disputed |-> FALSE]

NewEscrow(s, r, a, left) ==
  [row |-> TRUE, sender |-> s, receiver |-> r, arb |-> a, receiver_pay |-> 0,
   arbiter_pay |-> 0, left |-> left, disputed |-> FALSE]

Sooner(left) == IF left > 0 THEN left - 1 ELSE 0

Funded(k) == escrows[k].receiver_pay > 0

-----------------------------------------------------------------------------
Init ==
  /\ escrows = [k \in Keys |-> NoEscrow]
  /\ funds = Wealth
  /\ held = 0
  /\ stranded = 0

Tick ==
  /\ escrows' = [k \in Keys |-> [escrows[k] EXCEPT !.left = Sooner(@)]]
  /\ UNCHANGED <<funds, held, stranded>>

(* init: anyone opens an escrow as its sender. *)
InitEscrow(k, s, r, a, left) ==
  /\ ~escrows[k].row
  /\ a \notin {s, r}
  /\ left > 0
  /\ escrows' = [escrows EXCEPT ![k] = NewEscrow(s, r, a, left)]
  /\ UNCHANGED <<funds, held, stranded>>

-----------------------------------------------------------------------------
(* transfer: whoever pays names the escrow and the sum, each paid once. *)

TakeFrom(payer, n) ==
  /\ n > 0 /\ funds[payer] >= n
  /\ funds' = [funds EXCEPT ![payer] = @ - n]
  /\ held' = held + n

PayReceiver(k, payer, n) ==
  /\ escrows[k].row /\ escrows[k].receiver_pay = 0
  /\ TakeFrom(payer, n)
  /\ escrows' = [escrows EXCEPT ![k].receiver_pay = n]
  /\ stranded' = stranded

PayArbiter_Again(k, payer, n) ==
  /\ escrows[k].row
  /\ TakeFrom(payer, n)
  /\ escrows' = [escrows EXCEPT ![k].arbiter_pay = n]
  /\ stranded' = stranded

PayArbiter(k, payer, n) ==
  /\ escrows[k].row /\ escrows[k].arbiter_pay = 0
  /\ TakeFrom(payer, n)
  /\ escrows' = [escrows EXCEPT ![k].arbiter_pay = n]
  /\ stranded' = stranded

-----------------------------------------------------------------------------
(* The ends of an escrow.  approve and disapprove pay the arbiter too, ...  *)

Ruled(k, winner) ==
  /\ funds' = [funds EXCEPT ![winner] = @ + escrows[k].receiver_pay,
                            ![escrows[k].arb] = @ + escrows[k].arbiter_pay]
  /\ held' = held - escrows[k].receiver_pay - escrows[k].arbiter_pay
  /\ escrows' = [escrows EXCEPT ![k] = NoEscrow]
  /\ stranded' = stranded

(* ... refund pays the sender only. *)
Returned(k) ==
  /\ funds' = [funds EXCEPT ![escrows[k].sender] = @ + escrows[k].receiver_pay]
  /\ held' = held - escrows[k].receiver_pay
  /\ escrows' = [escrows EXCEPT ![k] = NoEscrow]
  /\ stranded' = stranded + escrows[k].arbiter_pay

(* The arbiter has a say only once there is a dispute, and from then on it  *)
(* is the only one that has.                                                *)
MayApprove(k, approver) ==
  \/ approver = escrows[k].arb /\ escrows[k].disputed
  \/ approver = escrows[k].sender /\ ~escrows[k].disputed

Approve(k, approver) ==
  /\ Funded(k)
  /\ MayApprove(k, approver)
  /\ Ruled(k, escrows[k].receiver)

Disapprove(k, disapprover) ==
  /\ Funded(k)
  /\ disapprover = escrows[k].arb
  /\ escrows[k].disputed
  /\ Ruled(k, escrows[k].sender)

(* The receiver at any time, the sender after the expiry. *)
MayRefund_ReceiverOnly(k, caller) == caller = escrows[k].receiver

MayRefund(k, caller) ==
  \/ caller = escrows[k].receiver
  \/ caller = escrows[k].sender /\ escrows[k].left = 0

Refund_Disputed(k, caller) ==
  /\ Funded(k)
  /\ MayRefund(k, caller)
  /\ Returned(k)

Refund(k, caller) ==
  /\ Funded(k)
  /\ MayRefund(k, caller)
  /\ ~escrows[k].disputed
  /\ Returned(k)

Cancel_KeepsPay(k, caller) ==
  /\ escrows[k].row /\ ~Funded(k)
  /\ caller = escrows[k].sender
  /\ escrows' = [escrows EXCEPT ![k] = [NoEscrow EXCEPT !.arbiter_pay =
                                          escrows[k].arbiter_pay]]
  /\ UNCHANGED <<funds, held, stranded>>

(* cancel: only before the receiver's pay came in; the arbiter's may have.  *)
Cancel(k, caller) ==
  /\ escrows[k].row /\ ~Funded(k)
  /\ caller = escrows[k].sender
  /\ escrows' = [escrows EXCEPT ![k] = NoEscrow]
  /\ stranded' = stranded + escrows[k].arbiter_pay
  /\ UNCHANGED <<funds, held>>

(* dispute: by the receiver; it may be repeated. *)
Dispute(k, caller) ==
  /\ Funded(k)
  /\ caller = escrows[k].receiver
  /\ escrows' = [escrows EXCEPT ![k].disputed = TRUE]
  /\ UNCHANGED <<funds, held, stranded>>

-----------------------------------------------------------------------------
Deposit ==
  \E k \in Keys, payer \in Accounts :
    \E n \in 1 .. funds[payer] : PayReceiver(k, payer, n) \/ PayArbiter(k, payer, n)

Close ==
  \E k \in Keys, caller \in Accounts :
    \/ Approve(k, caller) \/ Disapprove(k, caller)
    \/ Refund(k, caller) \/ Cancel(k, caller)

Next ==
  \/ Tick
  \/ \E k \in Keys, s, r, a \in Accounts, l \in Lifetimes :
       InitEscrow(k, s, r, a, l)
  \/ Deposit
  \/ Close
  \/ \E k \in Keys, caller \in Accounts : Dispute(k, caller)

Spec == Init /\ [][Next]_vars

(* Those whose interest it is act in the end: a sender whose escrow has     *)
(* expired asks for its refund, an arbiter rules.                           *)
FairSpec ==
  /\ Spec
  /\ WF_vars(Tick)
  /\ \A k \in Keys :
       /\ WF_vars(Refund(k, escrows[k].sender))
       /\ WF_vars(\/ Approve(k, escrows[k].arb)
                  \/ Disapprove(k, escrows[k].arb))

-----------------------------------------------------------------------------
(* Properties *)

EscrowRows ==
  [row : BOOLEAN, sender : Accounts \cup {Nobody},
   receiver : Accounts \cup {Nobody}, arb : Accounts \cup {Nobody},
   receiver_pay : Nat, arbiter_pay : Nat, left : Nat, disputed : BOOLEAN]

WellFormed(e) ==
  IF e.row
  THEN /\ e.sender \in Accounts /\ e.receiver \in Accounts /\ e.arb \in Accounts
       /\ e.arb \notin {e.sender, e.receiver}
       /\ e.disputed => e.receiver_pay > 0
  ELSE e = NoEscrow

TypeOK ==
  /\ escrows \in [Keys -> EscrowRows]
  /\ \A k \in Keys : WellFormed(escrows[k])
  /\ funds \in [Accounts -> Nat]
  /\ held \in Nat
  /\ stranded \in Nat

(* The contract holds exactly what its open escrows promise, and the        *)
(* arbiter pay that refund and cancel leave behind: whatever the order of   *)
(* deposits and endings, the last escrow can still be paid.                 *)
Owed(e) == e.receiver_pay + e.arbiter_pay
Promised == [k \in Keys |-> Owed(escrows[k])]

Solvent == held = Total(Promised, Keys) + stranded

(* An escrow is a settlement: its money leaves once and whole, to its       *)
(* sender or its receiver, and a disputed one pays its arbiter.             *)
DealOf(e) ==
  [payer |-> e.sender, payee |-> e.receiver, judge |-> e.arb,
   due |-> e.receiver_pay, fee |-> e.arbiter_pay,
   stage |-> IF e.disputed THEN "locked" ELSE "open"]
Deals == [k \in Keys |-> DealOf(escrows[k])]

Promise == INSTANCE Settlement
             WITH deal <- Deals, purse <- funds, lost <- stranded

ImplementsSettlement == Promise!Spec

(* Money never stays in an escrow for ever, whoever funded, disputed or     *)
(* ignored it, if senders ask for refunds and arbiters rule.                *)
FundsReleased == \A k \in Keys : Funded(k) ~> ~Funded(k)

=============================================================================
