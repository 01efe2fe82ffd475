-------------------------- MODULE MCDacVotingRebuild --------------------------
(* DacVotingRebuild for TLC: accounts in the order of their names. *)
EXTENDS DacVotingRebuild

CONSTANTS a1, a2

MCOrder == <<a1, a2>>

=============================================================================
