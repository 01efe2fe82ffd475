\* Three candidates, boards of 2 and 3, periods of 1 or 2 seconds
CONSTANTS
  Accounts = {a, b, c}
  MsigOwned = FALSE
  Activation = FALSE
  Governances <- Boards
  ShortestPeriod = 1
  LongestPeriod = 2
  InitialQuorum = 10
  VoteQuorum = 5
  Turnouts = {4, 8, 12}
SPECIFICATION FairSpec
INVARIANTS TypeOK AuthorityHeld PendingCanBeSeated ResignedStayOut
PROPERTIES TermsLast PendingResolved
