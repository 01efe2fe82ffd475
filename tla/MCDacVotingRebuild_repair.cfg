\* A repair with the script's half-open batches, after the multiplier was raised.
CONSTANTS
  a1 = a1
  a2 = a2
  Accounts = {a1, a2}
  Joiners = {a1, a2}
  Issuer = a1
  StakeWeighted = TRUE
  MaxVotes = 1
  LockupStake = 0
  LockupDelay = 1
  MinStakeTime = 1
  MaxStakeTime = 1
  Multiplier0 = 1
  Supply0 = 0
  MaxStake = 2
  MaxBalance = 0
  MaxMultiplier = 2
  MaxTime = 2
  Order <- MCOrder
  BatchSize = 1
SPECIFICATION RebuildSpec
INVARIANTS RebuildExact
PROPERTY WindowFreezes
