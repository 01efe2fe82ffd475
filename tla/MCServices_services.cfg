\* msigworlds: two custodians, one proposal, four seconds
\* distribution: two distributions to two receivers
\* dacdirectory: two DACs, two owners, one NFT
CONSTANTS
  Names = {p}
  Accounts = {a, b}
  Referendum = referendum
  Boards <- TwoBoards
  Threshold = 1
  Actions = {x}
  Delays = {1}
  Lifetimes = {2}
  MaxTime = 3
  Ids = {1, 2}
  Receivers = {1, 2}
  Amounts = {1, 2}
  Sums = {2}
  Supply = 3
  Owners = {o, q}
  NoName = NoName
  Symbols = {s, t}
  Types = {treasury}
  Texts = {w}
  Nfts = {n}
SYMMETRY Swaps
SPECIFICATION ServicesSpec
INVARIANTS PaidAsApproved Payable CacheFollowsOwner
PROPERTIES LastWordCounts DelayKept
CHECK_DEADLOCK FALSE
