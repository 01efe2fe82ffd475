\* One proposal id, two custodians of which one may lose its seat; an escrow
\* that dacproposals did not open may lie under the id
CONSTANTS
  t = t
  w = w
  j = j
  c = c
  d = d
  Ids = {p}
  Accounts = {t, w, j, c, d}
  Nobody = Nobody
  Treasury = t
  Proposers = {w}
  Arbiters = {j, d}
  Delegatees = {d}
  Leavers = {w}
  Payers = {w}
  OldAge = 1
  Wealth <- TreasuryPays
  OtherDeals <- Aside
  Jobs <- OneJob
  Boards <- BothOrOne
  Configs <- TwoThresholds
SPECIFICATION Spec
INVARIANTS EachCountsOnce WorkFunded DisputeLocked CompletedSettled
PROPERTY PaidForWork
