\* A DAC with stakevote: stakes of 0..2, two stake times, three seconds.
CONSTANTS
  a1 = a1
  a2 = a2
  issuer = issuer
  Accounts = {a1, a2}
  Joiners = {a1, a2}
  Issuer = a1
  StakeWeighted = TRUE
  MaxVotes = 2
  LockupStake = 1
  LockupDelay = 2
  MinStakeTime = 1
  MaxStakeTime = 2
  Multiplier0 = 1
  Supply0 = 0
  MaxStake = 2
  MaxBalance = 0
  MaxMultiplier = 2
  MaxTime = 3
SPECIFICATION Spec
SYMMETRY Symmetry
INVARIANTS TypeOK PowerIsSum AgeIsSum VotesTotalIsSum QuorumTotalIsSum WeightsCovered ActiveKeepsStake
