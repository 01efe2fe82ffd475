----------------------------- MODULE MCServices -----------------------------
(* Services on small instances: a behaviour takes the steps of one of the   *)
(* three contracts, chosen at its start, while the other two stay as they   *)
(* began.                                                                   *)
EXTENDS Services, TLC

VARIABLE focus   \* the contract that takes steps

airdropVars == <<confs, lists, held, promised, paid, left>>
directoryVars == <<dacs, socials, caches, holder, mixed>>
servicesVars == <<vars, airdropVars, directoryVars, focus>>

Swaps ==
  Permutations(Accounts) \cup Permutations(Owners) \cup Permutations(Symbols)

TwoBoards == {{b} : b \in Accounts} \cup {Accounts}

ServicesInit ==
  /\ Init /\ Airdrops!Init /\ Directory!Init
  /\ focus \in {"msigworlds", "distribution", "dacdirectory"}
  /\ focus # "msigworlds" => board = Accounts

ServicesNext ==
  \/ /\ focus = "msigworlds"
     /\ Next
     /\ UNCHANGED <<airdropVars, directoryVars, focus>>
  \/ /\ focus = "distribution"
     /\ Airdrops!Next
     /\ UNCHANGED <<vars, directoryVars, focus>>
  \/ /\ focus = "dacdirectory"
     /\ Directory!Next
     /\ UNCHANGED <<vars, airdropVars, focus>>

ServicesSpec ==
  ServicesInit /\ [][ServicesNext]_servicesVars

=============================================================================
