\* Two accounts on one board, two maxima with one symbol in two contracts, a share of 1/4
CONSTANTS
  Accounts = {a, b}
  MsigOwned = FALSE
  Activation = TRUE
  Governances <- Board
  ShortestPeriod = 0
  LongestPeriod = 0
  InitialQuorum = 0
  VoteQuorum = 0
  Turnouts = {0}
  PayMaxes <- Maxima
  Requests = {1, 2}
  BudgetToken <- Trilium
  Budgets = {2}
  Percentages = {1}
  Whole = 4
  HasSpendings = TRUE
  Unset = Unset
  MaxPay = 2
  MaxTreasury = 5
SYMMETRY Swaps
SPECIFICATION TreasurySpec
INVARIANT OneRowEach
PROPERTIES PaidForService BudgetLeavesUnit
