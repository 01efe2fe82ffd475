------------------------------ MODULE Services ------------------------------
(* Three contracts that share no state: multisignature proposals, airdrops  *)
(* and the directory of DACs.                                               *)
EXTENDS MsigWorlds

CONSTANTS
  Ids, Receivers, Amounts, Sums, Supply,        \* of Distribution; Ids of both
  Owners, NoName, Symbols, Types, Texts, Nfts   \* of DacDirectory

ASSUME AirdropsAssumption ==
  /\ IsFiniteSet(Ids) /\ IsFiniteSet(Receivers)
  /\ Receivers \subseteq Nat
  /\ Amounts \subseteq Nat /\ Sums \subseteq Nat
  /\ Supply \in Nat

ASSUME DirectoryAssumption ==
  /\ Ids \subseteq Nat
  /\ NoName \notin Owners

VARIABLES
  confs, lists, held, promised, paid, left,   \* of Distribution
  dacs, socials, caches, holder, mixed        \* of DacDirectory

Airdrops == INSTANCE Distribution
Directory == INSTANCE DacDirectory

PaidAsApproved == Airdrops!PaidAsApproved
Payable == Airdrops!Payable
CacheFollowsOwner == Directory!CacheFollowsOwner

=============================================================================
