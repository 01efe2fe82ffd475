---------------------------- MODULE MCDacElections ----------------------------
(* DacElections on small instances *)
EXTENDS DacElections

Boards == {[numelected |-> 3, threshold |-> 2], [numelected |-> 2, threshold |-> 1]}
=============================================================================
