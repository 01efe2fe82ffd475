----------------------------- MODULE Settlement -----------------------------
(***************************************************************************)
(* What an escrow promises, without times, tables or who may call what:    *)
(* money that was put into a deal leaves it once, whole, to one of its two *)
(* ends; a deal that is locked has a judge, who is paid when it ends.      *)
(***************************************************************************)
EXTENDS Naturals

CONSTANTS Keys, Accounts, Nobody

VARIABLES
  deal,   \* for each key its ends, its judge, what is due and the fee
  purse,  \* the money of each account
  lost    \* fees that stayed behind when their deal ended without a judge

vars == <<deal, purse, lost>>

NoDeal == [payer |-> Nobody, payee |-> Nobody, judge |-> Nobody,
           due |-> 0, fee |-> 0, stage |-> "open"]

Init ==
  /\ deal = [k \in Keys |-> NoDeal]
  /\ purse \in [Accounts -> Nat]
  /\ lost = 0

(* Two ends and a judge that is neither. *)
Agree(k, s, r, j) ==
  /\ deal[k] = NoDeal
  /\ j \notin {s, r}
  /\ deal' = [deal EXCEPT ![k] =
                [payer |-> s, payee |-> r, judge |-> j,
                 due |-> 0, fee |-> 0, stage |-> "open"]]
  /\ UNCHANGED <<purse, lost>>

(* Anybody may pay for it, once for each of the two sums. *)
Fund(k, a, n) ==
  /\ deal[k].payer # Nobody /\ deal[k].due = 0
  /\ n > 0 /\ purse[a] >= n
  /\ deal' = [deal EXCEPT ![k].due = n]
  /\ purse' = [purse EXCEPT ![a] = @ - n]
  /\ lost' = lost

AddFee(k, a, n) ==
  /\ deal[k].payer # Nobody /\ deal[k].fee = 0
  /\ n > 0 /\ purse[a] >= n
  /\ deal' = [deal EXCEPT ![k].fee = n]
  /\ purse' = [purse EXCEPT ![a] = @ - n]
  /\ lost' = lost

Lock(k) ==
  /\ deal[k].due > 0
  /\ deal' = [deal EXCEPT ![k].stage = "locked"]
  /\ UNCHANGED <<purse, lost>>

(* All of what is due goes to one end; the fee goes to the judge, as it     *)
(* must if the deal was locked, or is lost.                                 *)
Settle(k, winner) ==
  /\ deal[k].due > 0
  /\ winner \in {deal[k].payer, deal[k].payee}
  /\ \/ /\ purse' = [purse EXCEPT ![winner] = @ + deal[k].due,
                                  ![deal[k].judge] = @ + deal[k].fee]
        /\ lost' = lost
     \/ /\ deal[k].stage = "open"
        /\ purse' = [purse EXCEPT ![winner] = @ + deal[k].due]
        /\ lost' = lost + deal[k].fee
  /\ deal' = [deal EXCEPT ![k] = NoDeal]

(* A deal that nothing is due of may be dropped. *)
Drop(k) ==
  /\ deal[k].payer # Nobody /\ deal[k].due = 0
  /\ deal' = [deal EXCEPT ![k] = NoDeal]
  /\ lost' = lost + deal[k].fee
  /\ purse' = purse

Next ==
  \E k \in Keys :
    \/ Lock(k) \/ Drop(k)
    \/ \E a, b, c \in Accounts : Agree(k, a, b, c)
    \/ \E a \in Accounts :
         \/ Settle(k, a)
         \/ \E n \in 1 .. purse[a] : Fund(k, a, n) \/ AddFee(k, a, n)

Spec == Init /\ [][Next]_vars

=============================================================================
