--------------------------- MODULE DacEscrowProofs ---------------------------
(* Theorems about DacEscrow, for any accounts, wealth and lifetimes. *)
EXTENDS DacEscrow, TotalsTheorems

-----------------------------------------------------------------------------
(* Lemmas: every operation but the clock changes the row of one escrow.     *)

LEMMA RowType ==
  ASSUME TypeOK, NEW k \in Keys
  PROVE  /\ escrows[k] \in EscrowRows
         /\ WellFormed(escrows[k])
         /\ escrows[k].receiver_pay \in Nat
         /\ escrows[k].arbiter_pay \in Nat
         /\ Owed(escrows[k]) \in Nat
<1>1. escrows[k] \in EscrowRows /\ WellFormed(escrows[k])
  BY DEF TypeOK
<1>2. escrows[k].receiver_pay \in Nat /\ escrows[k].arbiter_pay \in Nat
  BY <1>1 DEF EscrowRows
<1> QED
  BY <1>1, <1>2 DEF Owed

(* What the contract owes changes by what this escrow is owed. *)
LEMMA PromisedStep ==
  ASSUME TypeOK, NEW k \in Keys, NEW e \in EscrowRows,
         escrows' = [escrows EXCEPT ![k] = e]
  PROVE  /\ Total(Promised, Keys) \in Nat
         /\ Total(Promised', Keys) \in Nat
         /\ Owed(e) \in Nat
         /\ Total(Promised', Keys) =
              Total(Promised, Keys) - Owed(escrows[k]) + Owed(e)
<1>1. IsFiniteSet(Keys)
  BY EscrowAssumption DEF EscrowAssumption
<1>2. Owed(e) \in Nat
  BY DEF EscrowRows, Owed
<1>3. \A x \in Keys : escrows'[x] = IF x = k THEN e ELSE escrows[x]
  BY DEF TypeOK
<1>4. \A x \in Keys : Promised[x] = Owed(escrows[x]) /\ Promised[x] \in Nat
  BY RowType DEF Promised
<1>5. \A x \in Keys : Promised'[x] = IF x = k THEN Owed(e) ELSE Promised[x]
  BY <1>3, <1>4 DEF Promised, Owed
<1>6. \A x \in Keys : Promised'[x] \in Nat
  BY <1>2, <1>4, <1>5
<1>7. /\ Total(Promised, Keys \ {k}) \in Nat
      /\ Total(Promised, Keys) = Total(Promised, Keys \ {k}) + Promised[k]
  BY <1>1, <1>4, TotalRemove
<1>8. /\ Total(Promised', Keys \ {k}) \in Nat
      /\ Total(Promised', Keys) = Total(Promised', Keys \ {k}) + Promised'[k]
  <2> DEFINE f == Promised'
  <2>1. \A x \in Keys : f[x] \in Nat
    BY <1>6
  <2> HIDE DEF f
  <2>2. /\ Total(f, Keys \ {k}) \in Nat
        /\ Total(f, Keys) = Total(f, Keys \ {k}) + f[k]
    BY <1>1, <2>1, TotalRemove
  <2> QED
    BY <2>2 DEF f
<1>9. Total(Promised', Keys \ {k}) = Total(Promised, Keys \ {k})
  <2> DEFINE f == Promised'
             g == Promised
             S == Keys \ {k}
  <2>1. \A x \in S : f[x] = g[x]
    BY <1>5
  <2> HIDE DEF f, g, S
  <2>2. Total(f, S) = Total(g, S)
    BY <2>1, TotalSame
  <2> QED
    BY <2>2 DEF f, g, S
<1>10. Promised[k] = Owed(escrows[k]) /\ Promised'[k] = Owed(e)
  BY <1>4, <1>5
<1>11. Promised[k] \in Nat /\ Promised'[k] \in Nat
  BY <1>4, <1>6
<1> QED
  BY <1>2, <1>7, <1>8, <1>9, <1>10, <1>11

(* An operation keeps the books if the contract's balance, but for what is  *)
(* left behind, changes by what the escrow is owed.                         *)
LEMMA BooksStep ==
  ASSUME TypeOK, Solvent,
         NEW k \in Keys, NEW e \in EscrowRows, WellFormed(e),
         escrows' = [escrows EXCEPT ![k] = e],
         funds' \in [Accounts -> Nat], stranded' \in Nat,
         held' = held - Owed(escrows[k]) + Owed(e) + (stranded' - stranded)
  PROVE  TypeOK' /\ Solvent'
<1>1. /\ Total(Promised, Keys) \in Nat
      /\ Total(Promised', Keys) \in Nat
      /\ Owed(e) \in Nat
      /\ Total(Promised', Keys) =
           Total(Promised, Keys) - Owed(escrows[k]) + Owed(e)
  BY PromisedStep
<1>2. Owed(escrows[k]) \in Nat /\ stranded \in Nat /\ held \in Nat
  BY RowType DEF TypeOK
<1>3. held' = Total(Promised', Keys) + stranded'
  BY <1>1, <1>2 DEF Solvent
<1>4. held' \in Nat
  BY <1>1, <1>3
<1>5. escrows' \in [Keys -> EscrowRows]
  BY DEF TypeOK
<1>6. \A x \in Keys : WellFormed(escrows'[x])
  BY DEF TypeOK
<1>7. (\A x \in Keys : WellFormed(escrows[x]))'
  BY <1>6 DEF WellFormed
<1> QED
  BY <1>3, <1>4, <1>5, <1>7 DEF TypeOK, Solvent

LEMMA NoEscrowType ==
  /\ NoEscrow \in EscrowRows /\ WellFormed(NoEscrow) /\ Owed(NoEscrow) = 0
  BY DEF NoEscrow, EscrowRows, WellFormed, Owed

(* Payments keep balances natural. *)
LEMMA PaidType ==
  ASSUME NEW f \in [Accounts -> Nat], NEW a \in Accounts, NEW b \in Accounts,
         NEW m \in Nat, NEW n \in Nat
  PROVE  /\ [f EXCEPT ![a] = @ + m] \in [Accounts -> Nat]
         /\ [f EXCEPT ![a] = @ + m, ![b] = @ + n] \in [Accounts -> Nat]
<1> DEFINE once == [f EXCEPT ![a] = @ + m]
<1>1. once \in [Accounts -> Nat]
  <2>1. f[a] + m \in Nat
    OBVIOUS
  <2> QED
    BY <2>1
<1> HIDE DEF once
<1>2. [once EXCEPT ![b] = @ + n] \in [Accounts -> Nat]
  <2>1. once[b] + n \in Nat
    BY <1>1
  <2> QED
    BY <1>1, <2>1
<1> QED
  BY <1>1, <1>2 DEF once

-----------------------------------------------------------------------------
(* Each operation: the row it leaves and what it does to the books. *)

LEMMA InitEscrowBooks ==
  ASSUME TypeOK, Solvent, NEW k \in Keys,
         NEW s \in Accounts, NEW r \in Accounts, NEW a \in Accounts,
         NEW l \in Lifetimes, InitEscrow(k, s, r, a, l)
  PROVE  TypeOK' /\ Solvent'
<1> DEFINE e == NewEscrow(s, r, a, l)
<1>1. e \in EscrowRows /\ WellFormed(e) /\ Owed(e) = 0
  BY EscrowAssumption
  DEF EscrowAssumption, NewEscrow, EscrowRows, WellFormed, Owed, InitEscrow
<1>2. escrows[k] = NoEscrow
  BY RowType DEF InitEscrow, WellFormed
<1>3. Owed(escrows[k]) = 0
  BY <1>2, NoEscrowType
<1>4. escrows' = [escrows EXCEPT ![k] = e]
  BY DEF InitEscrow
<1>5. /\ funds' \in [Accounts -> Nat] /\ stranded' \in Nat
      /\ held' = held - Owed(escrows[k]) + Owed(e) + (stranded' - stranded)
  BY <1>1, <1>3 DEF InitEscrow, TypeOK
<1> HIDE DEF e
<1> QED
  BY <1>1, <1>4, <1>5, BooksStep

LEMMA TakenFrom ==
  ASSUME TypeOK, NEW payer \in Accounts, NEW n \in Nat, TakeFrom(payer, n)
  PROVE  funds' \in [Accounts -> Nat] /\ held' = held + n /\ n > 0
<1>1. funds \in [Accounts -> Nat] /\ funds[payer] - n \in Nat
  BY DEF TypeOK, TakeFrom
<1> QED
  BY <1>1 DEF TakeFrom

LEMMA PayReceiverBooks ==
  ASSUME TypeOK, Solvent, NEW k \in Keys, NEW payer \in Accounts, NEW n \in Nat,
         PayReceiver(k, payer, n)
  PROVE  TypeOK' /\ Solvent'
<1> DEFINE e == [escrows[k] EXCEPT !.receiver_pay = n]
<1>1. /\ escrows[k] \in EscrowRows /\ WellFormed(escrows[k])
      /\ escrows[k].row /\ escrows[k].receiver_pay = 0
  BY RowType DEF PayReceiver
<1>2. funds' \in [Accounts -> Nat] /\ held' = held + n /\ n > 0
  BY TakenFrom DEF PayReceiver
<1>3. e \in EscrowRows /\ WellFormed(e)
  BY <1>1, <1>2 DEF EscrowRows, WellFormed
<1>4. escrows' = [escrows EXCEPT ![k] = e]
  BY DEF PayReceiver, TypeOK
<1>5. Owed(e) = Owed(escrows[k]) + n /\ Owed(escrows[k]) \in Nat
  BY <1>1 DEF Owed, EscrowRows
<1>6. /\ stranded' \in Nat
      /\ held' = held - Owed(escrows[k]) + Owed(e) + (stranded' - stranded)
  BY <1>2, <1>5 DEF PayReceiver, TypeOK
<1> HIDE DEF e
<1> QED
  BY <1>2, <1>3, <1>4, <1>6, BooksStep

LEMMA PayArbiterBooks ==
  ASSUME TypeOK, Solvent, NEW k \in Keys, NEW payer \in Accounts, NEW n \in Nat,
         PayArbiter(k, payer, n)
  PROVE  TypeOK' /\ Solvent'
<1> DEFINE e == [escrows[k] EXCEPT !.arbiter_pay = n]
<1>1. /\ escrows[k] \in EscrowRows /\ WellFormed(escrows[k])
      /\ escrows[k].row /\ escrows[k].arbiter_pay = 0
  BY RowType DEF PayArbiter
<1>2. funds' \in [Accounts -> Nat] /\ held' = held + n /\ n > 0
  BY TakenFrom DEF PayArbiter
<1>3. e \in EscrowRows /\ WellFormed(e)
  BY <1>1, <1>2 DEF EscrowRows, WellFormed
<1>4. escrows' = [escrows EXCEPT ![k] = e]
  BY DEF PayArbiter, TypeOK
<1>5. Owed(e) = Owed(escrows[k]) + n /\ Owed(escrows[k]) \in Nat
  BY <1>1 DEF Owed, EscrowRows
<1>6. /\ stranded' \in Nat
      /\ held' = held - Owed(escrows[k]) + Owed(e) + (stranded' - stranded)
  BY <1>2, <1>5 DEF PayArbiter, TypeOK
<1> HIDE DEF e
<1> QED
  BY <1>2, <1>3, <1>4, <1>6, BooksStep

(* Only an escrow that exists is funded. *)
LEMMA FundedRow ==
  ASSUME TypeOK, NEW k \in Keys, Funded(k)
  PROVE  /\ escrows[k].row
         /\ escrows[k].sender \in Accounts /\ escrows[k].receiver \in Accounts
         /\ escrows[k].arb \in Accounts
         /\ escrows[k].arb # escrows[k].sender
         /\ escrows[k].arb # escrows[k].receiver
         /\ escrows[k].receiver_pay \in Nat /\ escrows[k].arbiter_pay \in Nat
<1>1. WellFormed(escrows[k])
  BY RowType
<1>2. escrows[k].row
  BY <1>1 DEF WellFormed, Funded, NoEscrow
<1> QED
  BY <1>1, <1>2, RowType DEF WellFormed

LEMMA RuledBooks ==
  ASSUME TypeOK, Solvent, NEW k \in Keys, NEW winner \in Accounts,
         Funded(k), Ruled(k, winner)
  PROVE  TypeOK' /\ Solvent'
<1>1. /\ escrows[k].arb \in Accounts /\ funds \in [Accounts -> Nat]
      /\ escrows[k].receiver_pay \in Nat /\ escrows[k].arbiter_pay \in Nat
  BY FundedRow DEF TypeOK
<1>2. funds' \in [Accounts -> Nat]
  BY <1>1, PaidType DEF Ruled
<1>3. escrows' = [escrows EXCEPT ![k] = NoEscrow]
  BY DEF Ruled
<1>4. /\ stranded' \in Nat
      /\ held' = held - Owed(escrows[k]) + 0 + (stranded' - stranded)
  BY <1>1 DEF Ruled, TypeOK, Owed
<1> QED
  BY <1>2, <1>3, <1>4, NoEscrowType, BooksStep

LEMMA ReturnedBooks ==
  ASSUME TypeOK, Solvent, NEW k \in Keys, Funded(k), Returned(k)
  PROVE  TypeOK' /\ Solvent'
<1>1. /\ escrows[k].sender \in Accounts /\ funds \in [Accounts -> Nat]
      /\ escrows[k].receiver_pay \in Nat /\ escrows[k].arbiter_pay \in Nat
  BY FundedRow DEF TypeOK
<1>2. funds' \in [Accounts -> Nat]
  BY <1>1, PaidType DEF Returned
<1>3. escrows' = [escrows EXCEPT ![k] = NoEscrow]
  BY DEF Returned
<1>4. /\ stranded' \in Nat
      /\ held' = held - Owed(escrows[k]) + 0 + (stranded' - stranded)
  BY <1>1 DEF Returned, TypeOK, Owed
<1> QED
  BY <1>2, <1>3, <1>4, NoEscrowType, BooksStep

LEMMA CancelBooks ==
  ASSUME TypeOK, Solvent, NEW k \in Keys, NEW caller \in Accounts, Cancel(k, caller)
  PROVE  TypeOK' /\ Solvent'
<1>1. escrows[k].receiver_pay = 0 /\ escrows[k].arbiter_pay \in Nat
  BY RowType DEF Cancel, Funded
<1>2. escrows' = [escrows EXCEPT ![k] = NoEscrow]
  BY DEF Cancel
<1>3. /\ funds' \in [Accounts -> Nat] /\ stranded' \in Nat
      /\ held' = held - Owed(escrows[k]) + 0 + (stranded' - stranded)
  BY <1>1 DEF Cancel, TypeOK, Owed
<1> QED
  BY <1>2, <1>3, NoEscrowType, BooksStep

LEMMA DisputeBooks ==
  ASSUME TypeOK, Solvent, NEW k \in Keys, NEW caller \in Accounts, Dispute(k, caller)
  PROVE  TypeOK' /\ Solvent'
<1> DEFINE e == [escrows[k] EXCEPT !.disputed = TRUE]
<1>1. /\ escrows[k] \in EscrowRows /\ WellFormed(escrows[k]) /\ escrows[k].row
      /\ escrows[k].receiver_pay > 0
  BY RowType, FundedRow DEF Dispute, Funded
<1>2. e \in EscrowRows /\ WellFormed(e)
  BY <1>1 DEF EscrowRows, WellFormed
<1>3. escrows' = [escrows EXCEPT ![k] = e]
  BY DEF Dispute, TypeOK
<1>4. Owed(e) = Owed(escrows[k]) /\ Owed(escrows[k]) \in Nat
  BY <1>1 DEF Owed, EscrowRows
<1>5. /\ funds' \in [Accounts -> Nat] /\ stranded' \in Nat
      /\ held' = held - Owed(escrows[k]) + Owed(e) + (stranded' - stranded)
  BY <1>4 DEF Dispute, TypeOK
<1> HIDE DEF e
<1> QED
  BY <1>2, <1>3, <1>5, BooksStep

(* The clock takes nothing but time. *)
LEMMA TickRows ==
  ASSUME TypeOK, Tick, NEW x \in Keys
  PROVE  /\ escrows'[x] \in EscrowRows /\ WellFormed(escrows'[x])
         /\ DealOf(escrows'[x]) = DealOf(escrows[x])
         /\ Owed(escrows'[x]) = Owed(escrows[x])
<1>1. escrows[x] \in EscrowRows /\ WellFormed(escrows[x])
  BY RowType
<1>2. escrows'[x] = [escrows[x] EXCEPT !.left = Sooner(escrows[x].left)]
  BY DEF Tick
<1>3. Sooner(escrows[x].left) \in Nat
  BY <1>1 DEF EscrowRows, Sooner
<1>4. escrows'[x] \in EscrowRows
  BY <1>1, <1>2, <1>3 DEF EscrowRows
<1>5. DealOf(escrows'[x]) = DealOf(escrows[x]) /\ Owed(escrows'[x]) = Owed(escrows[x])
  BY <1>1, <1>2 DEF EscrowRows, DealOf, Owed
<1>6. WellFormed(escrows'[x])
  <2>1. CASE escrows[x].row
    BY <1>1, <1>2, <2>1 DEF EscrowRows, WellFormed
  <2>2. CASE ~escrows[x].row
    <3>1. escrows[x] = NoEscrow
      BY <1>1, <2>2 DEF WellFormed
    <3>2. escrows'[x] = [NoEscrow EXCEPT !.left = 0]
      BY <1>2, <3>1 DEF Sooner, NoEscrow
    <3>3. escrows'[x] = NoEscrow
      BY <3>2 DEF NoEscrow
    <3> QED
      BY <3>3, NoEscrowType
  <2> QED
    BY <2>1, <2>2
<1> QED
  BY <1>4, <1>5, <1>6

LEMMA TickBooks ==
  ASSUME TypeOK, Solvent, Tick
  PROVE  TypeOK' /\ Solvent'
<1>1. escrows' \in [Keys -> EscrowRows]
  BY TickRows DEF Tick
<1>2. (\A x \in Keys : WellFormed(escrows[x]))'
  BY TickRows DEF WellFormed
<1>3. Total(Promised', Keys) = Total(Promised, Keys)
  <2> DEFINE f == Promised'
             g == Promised
  <2>1. \A x \in Keys : f[x] = g[x]
    BY TickRows DEF Promised, Owed
  <2> HIDE DEF f, g
  <2>2. Total(f, Keys) = Total(g, Keys)
    BY <2>1, TotalSame
  <2> QED
    BY <2>2 DEF f, g
<1> QED
  BY <1>1, <1>2, <1>3 DEF Tick, TypeOK, Solvent

-----------------------------------------------------------------------------
(* Theorems *)

Books == TypeOK /\ Solvent

LEMMA BooksInit == Init => Books
<1> SUFFICES ASSUME Init PROVE Books
  OBVIOUS
<1>1. TypeOK
  BY NoEscrowType, EscrowAssumption DEF EscrowAssumption, Init, TypeOK
<1>2. \A x \in Keys : Promised[x] = 0
  BY NoEscrowType DEF Init, Promised
<1>3. Total(Promised, Keys) = 0
  <2> DEFINE f == Promised
  <2>1. \A x \in Keys : f[x] \in Nat /\ f[x] = 0
    BY <1>2
  <2> HIDE DEF f
  <2>2. Total(f, Keys) = 0
    BY <2>1, TotalZero, EscrowAssumption DEF EscrowAssumption
  <2> QED
    BY <2>2 DEF f
<1> QED
  BY <1>1, <1>3 DEF Init, Books, Solvent

LEMMA BooksNext == Books /\ [Next]_vars => Books'
<1> SUFFICES ASSUME TypeOK, Solvent, [Next]_vars PROVE TypeOK' /\ Solvent'
  BY DEF Books
<1>1. CASE Tick
  BY <1>1, TickBooks
<1>2. CASE \E k \in Keys, s, r, a \in Accounts, l \in Lifetimes :
             InitEscrow(k, s, r, a, l)
  BY <1>2, InitEscrowBooks
<1>3. CASE Deposit
  <2>1. PICK k \in Keys, payer \in Accounts :
          \E n \in 1 .. funds[payer] :
            PayReceiver(k, payer, n) \/ PayArbiter(k, payer, n)
    BY <1>3 DEF Deposit
  <2>2. PICK n \in Nat : PayReceiver(k, payer, n) \/ PayArbiter(k, payer, n)
    BY <2>1 DEF TypeOK
  <2> QED
    BY <2>2, PayReceiverBooks, PayArbiterBooks
<1>4. CASE Close
  <2>1. PICK k \in Keys, caller \in Accounts :
          \/ Approve(k, caller) \/ Disapprove(k, caller)
          \/ Refund(k, caller) \/ Cancel(k, caller)
    BY <1>4 DEF Close
  <2>2. CASE Approve(k, caller)
    BY <2>2, FundedRow, RuledBooks DEF Approve
  <2>3. CASE Disapprove(k, caller)
    BY <2>3, FundedRow, RuledBooks DEF Disapprove
  <2>4. CASE Refund(k, caller)
    BY <2>4, ReturnedBooks DEF Refund
  <2>5. CASE Cancel(k, caller)
    BY <2>5, CancelBooks
  <2> QED
    BY <2>1, <2>2, <2>3, <2>4, <2>5
<1>5. CASE \E k \in Keys, caller \in Accounts : Dispute(k, caller)
  BY <1>5, DisputeBooks
<1>6. CASE UNCHANGED vars
  BY <1>6 DEF vars, TypeOK, Solvent, Promised, WellFormed
<1> QED
  BY <1>1, <1>2, <1>3, <1>4, <1>5, <1>6 DEF Next

(* Rows stay well formed: only an escrow that is funded is disputed, its    *)
(* arbiter is none of its ends, and the contract's balance is never short   *)
(* of what an ending pays.                                                  *)
THEOREM TypeCorrect == Spec => []TypeOK
<1>1. Books => TypeOK
  BY DEF Books
<1> QED
  BY <1>1, BooksInit, BooksNext, PTL DEF Spec

(* The contract holds what its open escrows promise and what was left       *)
(* behind, for any number of escrows, sums, orders and parties.             *)
THEOREM SolventCorrect == Spec => []Solvent
<1>1. Books => Solvent
  BY DEF Books
<1> QED
  BY <1>1, BooksInit, BooksNext, PTL DEF Spec

-----------------------------------------------------------------------------
(* The settlement: each operation is one of its steps. *)

LEMMA DealStep ==
  ASSUME TypeOK, NEW k \in Keys, NEW e, escrows' = [escrows EXCEPT ![k] = e]
  PROVE  Deals' = [Deals EXCEPT ![k] = DealOf(e)]
<1>1. \A x \in Keys : escrows'[x] = IF x = k THEN e ELSE escrows[x]
  BY DEF TypeOK
<1>2. \A x \in Keys : Deals'[x] = IF x = k THEN DealOf(e) ELSE Deals[x]
  BY <1>1 DEF Deals, DealOf
<1>3. Deals = [x \in Keys |-> Deals[x]] /\ Deals' = [x \in Keys |-> Deals'[x]]
  BY DEF Deals
<1> QED
  BY <1>2, <1>3

LEMMA DealParts ==
  ASSUME TypeOK, NEW k \in Keys
  PROVE  /\ Deals[k] = DealOf(escrows[k])
         /\ Deals[k].payer = escrows[k].sender
         /\ Deals[k].payee = escrows[k].receiver
         /\ Deals[k].judge = escrows[k].arb
         /\ Deals[k].due = escrows[k].receiver_pay
         /\ Deals[k].fee = escrows[k].arbiter_pay
         /\ Deals[k].stage = IF escrows[k].disputed THEN "locked" ELSE "open"
         /\ escrows[k].row => Deals[k].payer # Nobody
  BY RowType, EscrowAssumption
  DEF Deals, DealOf, EscrowAssumption, WellFormed

LEMMA NoDealIs == DealOf(NoEscrow) = Promise!NoDeal
  BY DEF DealOf, NoEscrow, Promise!NoDeal

(* A change of one column of a row is one of the same part of the deal. *)
LEMMA DealColumns ==
  ASSUME NEW x \in EscrowRows, NEW n
  PROVE  /\ DealOf([x EXCEPT !.receiver_pay = n]) = [DealOf(x) EXCEPT !.due = n]
         /\ DealOf([x EXCEPT !.arbiter_pay = n]) = [DealOf(x) EXCEPT !.fee = n]
         /\ DealOf([x EXCEPT !.disputed = TRUE]) = [DealOf(x) EXCEPT !.stage = "locked"]
<1>1. DealOf([x EXCEPT !.receiver_pay = n]) = [DealOf(x) EXCEPT !.due = n]
  BY DEF DealOf, EscrowRows
<1>2. DealOf([x EXCEPT !.arbiter_pay = n]) = [DealOf(x) EXCEPT !.fee = n]
  BY DEF DealOf, EscrowRows
<1>3. DealOf([x EXCEPT !.disputed = TRUE]) = [DealOf(x) EXCEPT !.stage = "locked"]
  <2> DEFINE y == [x EXCEPT !.disputed = TRUE]
             d == [payer |-> x.sender, payee |-> x.receiver, judge |-> x.arb,
                   due |-> x.receiver_pay, fee |-> x.arbiter_pay,
                   stage |-> "locked"]
  <2>1. /\ y.sender = x.sender /\ y.receiver = x.receiver /\ y.arb = x.arb
        /\ y.receiver_pay = x.receiver_pay /\ y.arbiter_pay = x.arbiter_pay
    BY DEF EscrowRows
  <2>2. y.disputed = TRUE
    BY Zenon DEF EscrowRows
  <2> HIDE DEF y
  <2>3. DealOf(y) = d
    BY <2>1, <2>2, Zenon DEF DealOf
  <2>4. [DealOf(x) EXCEPT !.stage = "locked"] = d
    <3> DEFINE z == DealOf(x)
               w == IF x.disputed THEN "locked" ELSE "open"
    <3>1. z = [payer |-> x.sender, payee |-> x.receiver, judge |-> x.arb,
               due |-> x.receiver_pay, fee |-> x.arbiter_pay, stage |-> w]
      BY Zenon DEF DealOf
    <3> HIDE DEF z, w
    <3>2. [z EXCEPT !.stage = "locked"] = d
      BY <3>1
    <3> QED
      BY <3>2 DEF z
  <2> QED
    BY <2>3, <2>4 DEF y
<1> QED
  BY <1>1, <1>2, <1>3

LEMMA AgreeStep ==
  ASSUME TypeOK, NEW k \in Keys, NEW s, NEW r, NEW a, NEW l,
         InitEscrow(k, s, r, a, l)
  PROVE  Promise!Agree(k, s, r, a)
<1>1. Deals[k] = Promise!NoDeal
  BY RowType, DealParts, NoDealIs DEF InitEscrow, WellFormed
<1>2. Deals' = [Deals EXCEPT ![k] = DealOf(NewEscrow(s, r, a, l))]
  BY DealStep DEF InitEscrow
<1>3. DealOf(NewEscrow(s, r, a, l)) =
        [payer |-> s, payee |-> r, judge |-> a,
         due |-> 0, fee |-> 0, stage |-> "open"]
  BY DEF DealOf, NewEscrow
<1> QED
  BY <1>1, <1>2, <1>3 DEF InitEscrow, Promise!Agree

LEMMA FundStep ==
  ASSUME TypeOK, NEW k \in Keys, NEW payer \in Accounts, NEW n \in Nat,
         PayReceiver(k, payer, n)
  PROVE  Promise!Fund(k, payer, n)
<1> DEFINE e == [escrows[k] EXCEPT !.receiver_pay = n]
<1>1. escrows' = [escrows EXCEPT ![k] = e]
  BY DEF PayReceiver, TypeOK
<1>2. Deals' = [Deals EXCEPT ![k] = DealOf(e)]
  <2> HIDE DEF e
  <2> QED
    BY <1>1, DealStep
<1>3. DealOf(e) = [Deals[k] EXCEPT !.due = n]
  <2>1. escrows[k] \in EscrowRows /\ Deals[k] = DealOf(escrows[k])
    BY RowType, DealParts
  <2>2. DealOf(e) = [DealOf(escrows[k]) EXCEPT !.due = n]
    BY <2>1, DealColumns
  <2> QED
    BY <2>1, <2>2
<1>4. Deals[k].payer # Nobody /\ Deals[k].due = 0
  BY DealParts DEF PayReceiver
<1>5. Deals' = [Deals EXCEPT ![k].due = n]
  BY <1>2, <1>3 DEF Deals
<1> QED
  BY <1>4, <1>5 DEF PayReceiver, TakeFrom, Promise!Fund

LEMMA FeeStep ==
  ASSUME TypeOK, NEW k \in Keys, NEW payer \in Accounts, NEW n \in Nat,
         PayArbiter(k, payer, n)
  PROVE  Promise!AddFee(k, payer, n)
<1> DEFINE e == [escrows[k] EXCEPT !.arbiter_pay = n]
<1>1. escrows' = [escrows EXCEPT ![k] = e]
  BY DEF PayArbiter, TypeOK
<1>2. Deals' = [Deals EXCEPT ![k] = DealOf(e)]
  <2> HIDE DEF e
  <2> QED
    BY <1>1, DealStep
<1>3. DealOf(e) = [Deals[k] EXCEPT !.fee = n]
  <2>1. escrows[k] \in EscrowRows /\ Deals[k] = DealOf(escrows[k])
    BY RowType, DealParts
  <2>2. DealOf(e) = [DealOf(escrows[k]) EXCEPT !.fee = n]
    BY <2>1, DealColumns
  <2> QED
    BY <2>1, <2>2
<1>4. Deals[k].payer # Nobody /\ Deals[k].fee = 0
  BY DealParts DEF PayArbiter
<1>5. Deals' = [Deals EXCEPT ![k].fee = n]
  BY <1>2, <1>3 DEF Deals
<1> QED
  BY <1>4, <1>5 DEF PayArbiter, TakeFrom, Promise!AddFee

LEMMA LockStep ==
  ASSUME TypeOK, NEW k \in Keys, NEW caller, Dispute(k, caller)
  PROVE  Promise!Lock(k)
<1> DEFINE e == [escrows[k] EXCEPT !.disputed = TRUE]
<1>1. escrows' = [escrows EXCEPT ![k] = e]
  BY DEF Dispute, TypeOK
<1>2. Deals' = [Deals EXCEPT ![k] = DealOf(e)]
  <2> HIDE DEF e
  <2> QED
    BY <1>1, DealStep
<1>3. DealOf(e) = [Deals[k] EXCEPT !.stage = "locked"]
  <2>1. escrows[k] \in EscrowRows /\ Deals[k] = DealOf(escrows[k])
    BY RowType, DealParts
  <2>2. DealOf(e) = [DealOf(escrows[k]) EXCEPT !.stage = "locked"]
    BY <2>1, DealColumns
  <2> QED
    BY <2>1, <2>2
<1>4. Deals[k].due > 0
  BY DealParts DEF Dispute, Funded
<1>5. Deals' = [Deals EXCEPT ![k].stage = "locked"]
  BY <1>2, <1>3 DEF Deals
<1> QED
  BY <1>4, <1>5 DEF Dispute, Promise!Lock

LEMMA RuledStep ==
  ASSUME TypeOK, NEW k \in Keys, NEW winner, Funded(k), Ruled(k, winner),
         winner \in {escrows[k].sender, escrows[k].receiver}
  PROVE  Promise!Settle(k, winner)
<1>1. Deals' = [Deals EXCEPT ![k] = Promise!NoDeal]
  BY DealStep, NoDealIs DEF Ruled
<1>2. Deals[k].due > 0 /\ winner \in {Deals[k].payer, Deals[k].payee}
  BY DealParts DEF Funded
<1>3. /\ funds' = [funds EXCEPT ![winner] = @ + Deals[k].due,
                               ![Deals[k].judge] = @ + Deals[k].fee]
      /\ stranded' = stranded
  BY DealParts DEF Ruled
<1> QED
  BY <1>1, <1>2, <1>3 DEF Promise!Settle

LEMMA ReturnedStep ==
  ASSUME TypeOK, NEW k \in Keys, Funded(k), ~escrows[k].disputed, Returned(k)
  PROVE  Promise!Settle(k, escrows[k].sender)
<1>1. Deals' = [Deals EXCEPT ![k] = Promise!NoDeal]
  BY DealStep, NoDealIs DEF Returned
<1>2. Deals[k].due > 0 /\ escrows[k].sender \in {Deals[k].payer, Deals[k].payee}
  BY DealParts DEF Funded
<1>3. /\ Deals[k].stage = "open"
      /\ funds' = [funds EXCEPT ![escrows[k].sender] = @ + Deals[k].due]
      /\ stranded' = stranded + Deals[k].fee
  BY DealParts DEF Returned
<1> QED
  BY <1>1, <1>2, <1>3 DEF Promise!Settle

LEMMA DropStep ==
  ASSUME TypeOK, NEW k \in Keys, NEW caller, Cancel(k, caller)
  PROVE  Promise!Drop(k)
<1>1. Deals' = [Deals EXCEPT ![k] = Promise!NoDeal]
  BY DealStep, NoDealIs DEF Cancel
<1>2. Deals[k].payer # Nobody /\ Deals[k].due = 0
  BY RowType, DealParts DEF Cancel, Funded
<1>3. stranded' = stranded + Deals[k].fee /\ funds' = funds
  BY DealParts DEF Cancel
<1> QED
  BY <1>1, <1>2, <1>3 DEF Promise!Drop

LEMMA SettlementStep ==
  ASSUME TypeOK, Next
  PROVE  Promise!Next \/ UNCHANGED Promise!vars
<1>1. CASE Tick
  <2>1. Deals' = Deals
    BY <1>1, TickRows DEF Deals, DealOf
  <2> QED
    BY <1>1, <2>1 DEF Tick, Promise!vars
<1>2. CASE \E k \in Keys, s, r, a \in Accounts, l \in Lifetimes :
             InitEscrow(k, s, r, a, l)
  BY <1>2, AgreeStep DEF Promise!Next
<1>3. CASE Deposit
  <2>1. PICK k \in Keys, payer \in Accounts :
          \E n \in 1 .. funds[payer] :
            PayReceiver(k, payer, n) \/ PayArbiter(k, payer, n)
    BY <1>3 DEF Deposit
  <2>2. PICK n \in 1 .. funds[payer] :
          PayReceiver(k, payer, n) \/ PayArbiter(k, payer, n)
    BY <2>1
  <2>3. n \in Nat
    BY DEF TypeOK
  <2>4. Promise!Fund(k, payer, n) \/ Promise!AddFee(k, payer, n)
    BY <2>2, <2>3, FundStep, FeeStep
  <2> QED
    BY <2>4 DEF Promise!Next
<1>4. CASE Close
  <2>1. PICK k \in Keys, caller \in Accounts :
          \/ Approve(k, caller) \/ Disapprove(k, caller)
          \/ Refund(k, caller) \/ Cancel(k, caller)
    BY <1>4 DEF Close
  <2>2. CASE Approve(k, caller)
    <3>1. Promise!Settle(k, escrows[k].receiver)
      BY <2>2, RuledStep DEF Approve
    <3> QED
      BY <2>2, <3>1, FundedRow DEF Approve, Promise!Next
  <2>3. CASE Disapprove(k, caller)
    <3>1. Promise!Settle(k, escrows[k].sender)
      BY <2>3, RuledStep DEF Disapprove
    <3> QED
      BY <2>3, <3>1, FundedRow DEF Disapprove, Promise!Next
  <2>4. CASE Refund(k, caller)
    <3>1. Promise!Settle(k, escrows[k].sender)
      BY <2>4, ReturnedStep DEF Refund
    <3> QED
      BY <2>4, <3>1, FundedRow DEF Refund, Promise!Next
  <2>5. CASE Cancel(k, caller)
    BY <2>5, DropStep DEF Promise!Next
  <2> QED
    BY <2>1, <2>2, <2>3, <2>4, <2>5
<1>5. CASE \E k \in Keys, caller \in Accounts : Dispute(k, caller)
  BY <1>5, LockStep DEF Promise!Next
<1> QED
  BY <1>1, <1>2, <1>3, <1>4, <1>5 DEF Next

(* The escrow implements the settlement: money leaves once and whole, to    *)
(* one of the two ends, and with a fee for the judge of a locked deal.      *)
THEOREM SettlementCorrect == Spec => ImplementsSettlement
<1>1. Init => Promise!Init
  <2> SUFFICES ASSUME Init PROVE Promise!Init
    OBVIOUS
  <2>1. Deals = [k \in Keys |-> Promise!NoDeal]
    BY NoDealIs DEF Init, Deals
  <2> QED
    BY <2>1, EscrowAssumption DEF EscrowAssumption, Init, Promise!Init
<1>2. TypeOK /\ [Next]_vars => [Promise!Next]_Promise!vars
  <2>1. CASE UNCHANGED vars
    BY <2>1 DEF vars, Promise!vars, Deals
  <2> QED
    BY <2>1, SettlementStep
<1> QED
  BY <1>1, <1>2, TypeCorrect, PTL DEF Spec, ImplementsSettlement, Promise!Spec

=============================================================================
