---------------------------- MODULE MCDacProposals ----------------------------
(* DacProposals on small instances *)
EXTENDS DacProposals

CONSTANTS t, w, j, c, d

OneJob == {[pay |-> 1, arbiter_pay |-> 1, duration |-> 1, category |-> 5]}

TreasuryPays == [x \in Accounts |-> IF x = t THEN 3 ELSE 0]

(* The treasury opens an escrow for the proposer, who pays into it.         *)
Aside == {[sender |-> t, receiver |-> w, arb |-> d]}

BothOrOne == {{c, d}, {c}}

TwoThresholds ==
  {[proposal_threshold |-> i, finalize_threshold |-> 2,
    approval_duration |-> 1, min_proposal_duration |-> 2 - i] : i \in {1, 2}}

=============================================================================
