---------------------------- MODULE MCReferendum ----------------------------
(* Referendum on small instances *)
EXTENDS Referendum

CONSTANTS a, b, x, y

Free == [t \in Types |-> [token |-> x, amount |-> 0]]
Paid == [t \in Types |-> [token |-> x, amount |-> 1]]

(* A referendum needs two units or accounts, and half of them.              *)
Rules ==
  [duration |-> 1, fee |-> Free,
   pass |-> [t \in Types |-> 50],
   quorum |-> [c \in Countings |-> [t \in Types |-> 2]],
   allow_per_account_voting |-> [t \in Types |-> t = "opinion"],
   allow_vote_type |-> [t \in Types |-> TRUE]]

WithFee == {[Rules EXCEPT !.fee = Paid]}

=============================================================================
