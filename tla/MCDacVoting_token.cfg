\* A DAC without stakevote, weights are balances; the issuer is no member.
CONSTANTS
  a1 = a1
  a2 = a2
  issuer = issuer
  Accounts = {a1, a2, issuer}
  Joiners = {a1, a2}
  Issuer = issuer
  StakeWeighted = FALSE
  MaxVotes = 2
  LockupStake = 0
  LockupDelay = 2
  MinStakeTime = 2
  MaxStakeTime = 2
  Multiplier0 = 1
  Supply0 = 1
  MaxStake = 0
  MaxBalance = 2
  MaxMultiplier = 1
  MaxTime = 3
SPECIFICATION Spec
SYMMETRY Symmetry
INVARIANTS PowerIsSum
