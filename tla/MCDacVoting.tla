----------------------------- MODULE MCDacVoting -----------------------------
(* TLC instances of DacVoting: two accounts that hold, vote and stand. *)
EXTENDS DacVoting, TLC

CONSTANTS a1, a2, issuer

Symmetry == Permutations({a1, a2})

=============================================================================
