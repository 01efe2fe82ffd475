------------------------------- MODULE Totals -------------------------------
(***************************************************************************)
(* The sum of a function with natural values over a finite set.  The       *)
(* contracts keep running totals (a candidate's vote power, the escrowed   *)
(* tokens of an account, ...) that must equal such a sum.                  *)
(*                                                                         *)
(* The sum is the number of elements of a disjoint union in which v stands *)
(* f[v] times: the facts about it follow from those about Cardinality, with*)
(* no induction (TotalsTheorems).                                          *)
(***************************************************************************)
EXTENDS Integers, FiniteSets

Copies(f, v) == {v} \X (1 .. f[v])

Units(f, S) == UNION {Copies(f, v) : v \in S}

Total(f, S) == Cardinality(Units(f, S))

=============================================================================
