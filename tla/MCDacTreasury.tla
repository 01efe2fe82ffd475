---------------------------- MODULE MCDacTreasury ----------------------------
(* DacTreasury on small instances *)
EXTENDS DacTreasury, TLC

Trilium == [symbol |-> "TLM", contract |-> "alien.worlds"]
Elsewhere == [symbol |-> "TLM", contract |-> "token.worlds"]

Swaps == Permutations(Accounts)

Board == {[numelected |-> 2, threshold |-> 1]}
Maxima == {[token |-> Trilium, amount |-> 2], [token |-> Elsewhere, amount |-> 1]}

=============================================================================
