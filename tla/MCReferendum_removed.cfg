\* Two voters, one referendum
CONSTANTS
  a = a
  b = b
  x = x
  y = y
  Accounts = {a, b}
  Proposers = {a}
  Types = {"semibinding"}
  Tokens = {x, y}
  NoToken = NoToken
  NoConfig = NoConfig
  Configs <- WithFee
  MaxVotes = 2
  Word = 3
  MaxStake = 1
  MaxDeposit = 2
  FollowStale = FALSE
  MaxId = 1
SPECIFICATION Spec
INVARIANT QuorumOfVotes
