---------------------------- MODULE MCTokenStakes ----------------------------
(* TokenStakes on small instances *)
EXTENDS TokenStakes

CONSTANTS a, b

(* Staking is off at first; it may be enabled and disabled again. *)
Off == [enabled |-> FALSE, min_stake_time |-> 0, max_stake_time |-> 1]
On == [Off EXCEPT !.enabled = TRUE]
OffOrOn == {Off, On}

=============================================================================
