-------------------------- MODULE DacTreasuryProofs --------------------------
(* Theorems about DacElections, for any accounts, settings and turnouts, and *)
(* about DacTreasury, for any requests, maxima and budgets besides.          *)
EXTENDS DacTreasury, TotalsTheorems

-----------------------------------------------------------------------------
(* Lemmas *)

(* Only active candidates are elected (prepareCustodians). *)
LEMMA ElectedStand ==
  ASSUME NEW ranking
  PROVE  Elected(ranking) \subseteq standing
  BY DEF Elected

(* Boards are finite, and one that loses a member is one smaller. *)
LEMMA BoardSize ==
  ASSUME NEW board \in SUBSET Accounts
  PROVE  /\ IsFiniteSet(board)
         /\ Cardinality(board) \in Nat
         /\ Cardinality(board) = 0 <=> board = {}
         /\ \A c \in board : Cardinality(board \ {c}) = Cardinality(board) - 1
         /\ \A c : c \notin board => board \ {c} = board
<1>1. IsFiniteSet(board)
  BY FS_Subset, ElectionsAssumption DEF ElectionsAssumption
<1>2. Cardinality(board) \in Nat
  BY <1>1, FS_CardinalityType
<1>3. Cardinality(board) = 0 <=> board = {}
  BY <1>1, FS_EmptySet
<1>4. \A c \in board : Cardinality(board \ {c}) = Cardinality(board) - 1
  BY <1>1, FS_RemoveElement
<1> QED
  BY <1>1, <1>2, <1>3, <1>4

(* The settings that setdaogov lets through. *)
LEMMA GovernanceType ==
  ASSUME NEW g \in Governances
  PROVE  /\ g.numelected \in Nat
         /\ g.threshold \in Nat
         /\ g.threshold > 0
         /\ g.threshold < g.numelected
  BY ElectionsAssumption DEF ElectionsAssumption

-----------------------------------------------------------------------------
(* Types *)

(* The tables and settings stay well formed: the two checks of setperiodlen *)
(* and setpenddelay together keep a pending delay within a period.          *)
THEOREM TypeCorrect == Spec => []TypeOK
<1>1. Init => TypeOK
  <2> SUFFICES ASSUME Init PROVE TypeOK
    OBVIOUS
  <2>1. auth \in [holders : SUBSET Accounts, threshold : Nat]
    BY DEF Init
  <2>2. sincePeriod \in 0 .. OldPeriod /\ sincePending \in 0 .. OldPending
    BY ElectionsAssumption DEF Init, ElectionsAssumption, OldPeriod, OldPending
  <2> QED
    BY <2>1, <2>2 DEF Init, TypeOK
<1>2. TypeOK /\ [Next]_vars => TypeOK'
  <2> SUFFICES ASSUME TypeOK, [Next]_vars PROVE TypeOK'
    OBVIOUS
  <2> USE DEF TypeOK, electionVars, configVars, ageVars, historyVars
  <2>1. CASE Tick
    BY <2>1, ElectionsAssumption
    DEF Tick, OneOlder, OldPeriod, OldPending, ElectionsAssumption
  <2>2. ASSUME NEW r, NEW t, Prepare(r, t) PROVE TypeOK'
    <3>1. pending' \subseteq Accounts
      BY <2>2, ElectedStand DEF Prepare
    <3>2. sincePending' \in 0 .. OldPending
      BY <2>2, ElectionsAssumption DEF Prepare, OldPending, ElectionsAssumption
    <3> QED
      BY <2>2, <3>1, <3>2 DEF Prepare, OldPeriod
  <2>3. ASSUME NEW t, Seat(t) PROVE TypeOK'
    <3>1. auth' \in [holders : SUBSET Accounts, threshold : Nat]
      BY <2>3, GovernanceType DEF Seat, AuthFor
    <3> QED
      BY <2>3, <3>1, ElectionsAssumption DEF Seat, OldPeriod, ElectionsAssumption
  <2>4. ASSUME NEW c \in Accounts, Nominate(c) PROVE TypeOK'
    BY <2>4 DEF Nominate
  <2>5. ASSUME NEW c \in Accounts, Withdraw(c) PROVE TypeOK'
    BY <2>5 DEF Withdraw
  <2>6. ASSUME NEW c \in Accounts, Resign(c) PROVE TypeOK'
    <3>1. auth' \in [holders : SUBSET Accounts, threshold : Nat]
      BY <2>6, GovernanceType DEF Resign, AuthFor
    <3> QED
      BY <2>6, <3>1 DEF Resign
  <2>7. ASSUME NEW g \in Governances, SetDaoGov(g) PROVE TypeOK'
    BY <2>7 DEF SetDaoGov
  <2>8. ASSUME NEW p \in ShortestPeriod .. LongestPeriod, SetPeriodLen(p)
        PROVE  TypeOK'
    BY <2>8, ElectionsAssumption DEF SetPeriodLen, ElectionsAssumption
  <2>9. ASSUME NEW d \in 0 .. LongestPeriod, SetPendDelay(d) PROVE TypeOK'
    BY <2>9, ElectionsAssumption DEF SetPendDelay, ElectionsAssumption
  <2>10. ASSUME NEW on \in BOOLEAN, SetSocials(on) PROVE TypeOK'
    BY <2>10 DEF SetSocials
  <2>11. CASE UNCHANGED vars
    BY <2>11 DEF vars
  <2> QED
    BY <2>1, <2>2, <2>3, <2>4, <2>5, <2>6, <2>7, <2>8, <2>9, <2>10, <2>11
    DEF Next, NewPeriod
<1> QED
  BY <1>1, <1>2, PTL DEF Spec

-----------------------------------------------------------------------------
(* Who holds the permissions *)

(* Whoever is in office holds the permissions of the DAC's account, and     *)
(* they are enough to use them (setMsigAuths).                              *)
THEOREM AuthorityCorrect == Spec => []AuthorityHeld
<1>1. Init => AuthorityHeld
  BY DEF Init, AuthorityHeld
<1>2. AuthorityHeld /\ [Next]_vars => AuthorityHeld'
  <2> SUFFICES ASSUME AuthorityHeld, [Next]_vars PROVE AuthorityHeld'
    OBVIOUS
  <2> USE DEF AuthorityHeld
  <2>1. ASSUME NEW t, Seat(t) PROVE AuthorityHeld'
    BY <2>1 DEF Seat, AuthFor, AuthAccepted
  <2>2. ASSUME NEW c, Resign(c) PROVE AuthorityHeld'
    BY <2>2 DEF Resign, AuthFor, AuthAccepted
  <2>3. CASE UNCHANGED <<custodians, auth>>
    BY <2>3
  <2> QED
    BY <2>1, <2>2, <2>3
    DEF Next, NewPeriod, Tick, Prepare, Nominate, Withdraw, SetDaoGov,
        SetPeriodLen, SetPendDelay, SetSocials, vars, electionVars
<1> QED
  BY <1>1, <1>2, PTL DEF Spec

-----------------------------------------------------------------------------
(* Who resigned *)

(* No order of elections, seatings and resignations brings back who         *)
(* resigned, until it stands again. Elections draw from the candidates, so  *)
(* the induction needs that who resigned is none either.                    *)
OutOfAll == resigned \cap (standing \cup custodians \cup pending) = {}

THEOREM ResignedCorrect == Spec => []ResignedStayOut
<1>1. Init => OutOfAll
  BY DEF Init, OutOfAll
<1>2. OutOfAll /\ [Next]_vars => OutOfAll'
  <2> SUFFICES ASSUME OutOfAll, [Next]_vars PROVE OutOfAll'
    OBVIOUS
  <2> USE DEF OutOfAll
  <2>1. ASSUME NEW r, NEW t, Prepare(r, t) PROVE OutOfAll'
    BY <2>1, ElectedStand DEF Prepare
  <2>2. ASSUME NEW t, Seat(t) PROVE OutOfAll'
    BY <2>2 DEF Seat
  <2>3. ASSUME NEW c, Nominate(c) PROVE OutOfAll'
    BY <2>3 DEF Nominate
  <2>4. ASSUME NEW c, Withdraw(c) PROVE OutOfAll'
    BY <2>4 DEF Withdraw, historyVars
  <2>5. ASSUME NEW c, Resign(c) PROVE OutOfAll'
    BY <2>5 DEF Resign
  <2>6. CASE UNCHANGED <<standing, custodians, pending, resigned>>
    BY <2>6
  <2> QED
    BY <2>1, <2>2, <2>3, <2>4, <2>5, <2>6
    DEF Next, NewPeriod, Tick, SetDaoGov, SetPeriodLen, SetPendDelay,
        SetSocials, vars, electionVars, historyVars
<1>3. OutOfAll => ResignedStayOut
  BY DEF OutOfAll, ResignedStayOut
<1> QED
  BY <1>1, <1>2, <1>3, PTL DEF Spec

-----------------------------------------------------------------------------
(* Terms *)

(* Between an election and its seating the two ages run together. *)
Elapsed == pending # {} => sincePeriod > ShortestPeriod + sincePending

LEMMA ElapsedStep == TypeOK /\ Elapsed /\ [Next]_vars => Elapsed'
<1> SUFFICES ASSUME TypeOK, Elapsed, [Next]_vars PROVE Elapsed'
  OBVIOUS
<1> USE DEF Elapsed
<1>1. CASE Tick
  BY <1>1, ElectionsAssumption
  DEF Tick, TypeOK, OneOlder, OldPeriod, OldPending, ElectionsAssumption,
      electionVars
<1>2. ASSUME NEW r, NEW t, Prepare(r, t) PROVE Elapsed'
  BY <1>2, ElectionsAssumption DEF Prepare, TypeOK, ElectionsAssumption, OldPeriod
<1>3. ASSUME NEW t, Seat(t) PROVE Elapsed'
  BY <1>3 DEF Seat
<1>4. ASSUME NEW c, Resign(c) PROVE Elapsed'
  BY <1>4 DEF Resign, ageVars
<1>5. CASE UNCHANGED <<pending, sincePeriod, sincePending>>
  BY <1>5
<1> QED
  BY <1>1, <1>2, <1>3, <1>4, <1>5
  DEF Next, NewPeriod, Nominate, Withdraw, SetDaoGov, SetPeriodLen,
      SetPendDelay, SetSocials, vars, electionVars, ageVars

(* Nobody comes into office before the shortest period and the pending      *)
(* delay have passed since the last board was seated.                       *)
THEOREM TermsCorrect == Spec => TermsLast
<1>1. Init => Elapsed
  BY DEF Init, Elapsed
<1>2. TypeOK /\ Elapsed /\ [Next]_vars =>
        [\/ custodians' \subseteq custodians
         \/ sincePeriod > ShortestPeriod + pendingDelay]_vars
  <2> SUFFICES ASSUME TypeOK, Elapsed, Next
               PROVE  \/ custodians' \subseteq custodians
                      \/ sincePeriod > ShortestPeriod + pendingDelay
    OBVIOUS
  <2>1. ASSUME NEW t, Seat(t) PROVE sincePeriod > ShortestPeriod + pendingDelay
    BY <2>1, ElectionsAssumption
    DEF Seat, Elapsed, TypeOK, ElectionsAssumption, OldPeriod, OldPending
  <2>2. CASE custodians' \subseteq custodians
    BY <2>2
  <2> QED
    BY <2>1, <2>2
    DEF Next, NewPeriod, Tick, Prepare, Nominate, Withdraw, Resign, SetDaoGov,
        SetPeriodLen, SetPendDelay, SetSocials, electionVars
<1> QED
  BY <1>1, <1>2, ElapsedStep, TypeCorrect, PTL DEF Spec, TermsLast

-----------------------------------------------------------------------------
(* A board that waits can be seated *)

(* What resignations leave. Whoever leaves the waiting board leaves the one *)
(* in office too, which updateauth keeps at the threshold: so the one that  *)
(* waits, elected under the same settings, is never smaller than it.        *)
ElectedFit ==
  /\ ~pendingAmended => Cardinality(pending) <= gov.numelected
  /\ ~boardAmended => Cardinality(custodians) <= gov.numelected

BoardStrong ==
  ~MsigOwned /\ ~boardAmended /\ custodians # {} =>
    Cardinality(custodians) >= gov.threshold

PendingStrong ==
  ~MsigOwned /\ ~boardAmended /\ ~pendingAmended /\ pending # {} =>
    /\ Cardinality(pending) >= gov.threshold
    /\ Cardinality(pending) >= Cardinality(custodians)

Sizes == ElectedFit /\ BoardStrong /\ PendingStrong

LEMMA SizesInit == Init => Sizes
<1> SUFFICES ASSUME Init PROVE Sizes
  OBVIOUS
<1>1. gov \in Governances /\ pending = {} /\ custodians = {}
  BY DEF Init
<1>2. Cardinality({}) = 0
  BY FS_EmptySet
<1> QED
  BY <1>1, <1>2, GovernanceType DEF Sizes, ElectedFit, BoardStrong, PendingStrong

LEMMA SizesStep == TypeOK /\ Sizes /\ [Next]_vars => Sizes'
<1> SUFFICES ASSUME TypeOK, Sizes, [Next]_vars PROVE Sizes'
  OBVIOUS
<1> DEFINE P == Cardinality(pending)
           C == Cardinality(custodians)
<1>1. /\ gov.numelected \in Nat /\ gov.threshold \in Nat
      /\ gov.threshold > 0 /\ gov.threshold < gov.numelected
  BY GovernanceType DEF TypeOK
<1>2. P \in Nat /\ (P = 0 <=> pending = {})
  BY BoardSize DEF TypeOK
<1>3. C \in Nat /\ (C = 0 <=> custodians = {})
  BY BoardSize DEF TypeOK
<1>4. Cardinality({}) = 0
  BY FS_EmptySet
<1>5. ASSUME NEW r, NEW t, Prepare(r, t) PROVE Sizes'
  <2>1. /\ Cardinality(pending') = gov.numelected
        /\ UNCHANGED <<custodians, gov, boardAmended>>
    BY <1>5 DEF Prepare, configVars
  <2> QED
    BY <2>1, <1>1, <1>3 DEF Sizes, ElectedFit, BoardStrong, PendingStrong
<1>6. ASSUME NEW t, Seat(t) PROVE Sizes'
  <2>1. /\ custodians' = pending /\ pending' = {} /\ boardAmended' = pendingAmended
        /\ UNCHANGED <<gov, pendingAmended>> /\ pending # {} /\ AuthAccepted(pending)
    BY <1>6 DEF Seat, configVars
  <2> QED
    BY <2>1, <1>1, <1>2, <1>4
    DEF Sizes, ElectedFit, BoardStrong, PendingStrong, AuthAccepted
<1>7. ASSUME NEW c \in Accounts, Resign(c) PROVE Sizes'
  <2>1. /\ custodians' = custodians \ {c} /\ pending' = pending \ {c}
        /\ c \in custodians /\ AuthAccepted(custodians')
        /\ UNCHANGED <<gov, boardAmended, pendingAmended>>
    BY <1>7 DEF Resign, configVars
  <2>2. Cardinality(custodians') = C - 1
    BY <2>1, BoardSize DEF TypeOK
  <2>3. /\ Cardinality(pending') \in {P, P - 1}
        /\ c \notin pending => pending' = pending
    BY <2>1, BoardSize DEF TypeOK
  <2>4. /\ Cardinality(pending') = 0 <=> pending' = {}
        /\ Cardinality(custodians') = 0 <=> custodians' = {}
    BY <2>1, BoardSize DEF TypeOK
  <2>5. pending' # {} => pending # {}
    BY <2>1
  <2>6. ElectedFit'
    BY <2>1, <2>2, <2>3, <1>1, <1>2, <1>3 DEF Sizes, ElectedFit
  <2>7. BoardStrong'
    BY <2>1 DEF BoardStrong, AuthAccepted
  <2>8. PendingStrong'
    <3> SUFFICES ASSUME ~MsigOwned, ~boardAmended, ~pendingAmended, pending' # {}
                 PROVE  /\ Cardinality(pending') >= gov.threshold
                        /\ Cardinality(pending') >= Cardinality(custodians')
      BY <2>1 DEF PendingStrong
    <3>1. P >= C /\ P >= gov.threshold /\ C >= gov.threshold
      BY <2>1, <2>5 DEF Sizes, PendingStrong, BoardStrong
    <3>2. Cardinality(pending') >= Cardinality(custodians')
      BY <3>1, <2>2, <2>3, <1>2, <1>3
    <3>3. CASE custodians' = {}
      BY <3>3, <3>1, <2>2, <2>3, <2>4, <1>1, <1>2, <1>3
    <3>4. CASE custodians' # {}
      BY <3>4, <3>2, <2>1, <2>2, <2>3, <1>1, <1>2, <1>3 DEF AuthAccepted
    <3> QED
      BY <3>2, <3>3, <3>4
  <2> QED
    BY <2>6, <2>7, <2>8 DEF Sizes
<1>8. ASSUME NEW g \in Governances, SetDaoGov(g) PROVE Sizes'
  <2>1. /\ gov' = g /\ UNCHANGED <<custodians, pending>>
        /\ boardAmended' = (boardAmended \/ custodians # {})
        /\ pendingAmended' = (pending # {})
    BY <1>8 DEF SetDaoGov, electionVars
  <2>2. g.numelected \in Nat
    BY GovernanceType
  <2>3. boardAmended' \in BOOLEAN /\ pendingAmended' \in BOOLEAN
    BY <2>1 DEF TypeOK
  <2>4. ~boardAmended' => custodians' = {} /\ C = 0
    BY <2>1, <1>3 DEF TypeOK
  <2>5. ~pendingAmended' => pending' = {} /\ P = 0
    BY <2>1, <1>2
  <2>6. ElectedFit'
    BY <2>1, <2>2, <2>4, <2>5 DEF ElectedFit
  <2> QED
    BY <2>4, <2>5, <2>6 DEF Sizes, BoardStrong, PendingStrong
<1>9. CASE UNCHANGED <<custodians, pending, gov, boardAmended, pendingAmended>>
  BY <1>9 DEF Sizes, ElectedFit, BoardStrong, PendingStrong
<1> QED
  BY <1>5, <1>6, <1>7, <1>8, <1>9
  DEF Next, NewPeriod, Tick, Nominate, Withdraw, SetPeriodLen, SetPendDelay,
      SetSocials, vars, electionVars, configVars, historyVars

(* However many custodians resign, a board that waits can be seated, unless *)
(* setdaogov came in between (newperiod, resigncust).                       *)
THEOREM SeatableCorrect == Spec => []PendingCanBeSeated
<1>1. TypeOK /\ Sizes => PendingCanBeSeated
  BY DEF Sizes, PendingStrong, PendingCanBeSeated
<1> QED
  BY <1>1, SizesInit, SizesStep, TypeCorrect, PTL DEF Spec

-----------------------------------------------------------------------------
-----------------------------------------------------------------------------
(* The treasury: elections that also move money are elections *)

Rows == [receiver : Accounts, token : {m.token : m \in PayMaxes}, amount : Nat, copy : {0}]

(* Who is elected or in office has a request, as whoever stands has; what   *)
(* is pending is one row for each receiver and token; and claimbudget is    *)
(* closed in the second in which it was called.                             *)
Kept ==
  /\ requested \in [Accounts -> AllRequests \cup {Unset}]
  /\ \A c \in standing : requested[c] \in AllRequests
  /\ custReq \in [custodians -> AllRequests]
  /\ pendReq \in [pending -> AllRequests]
  /\ pendingPay \subseteq Rows
  /\ OneRowEach
  /\ payMax \in PayMaxes
  /\ treasury \in Nat
  /\ propPercent \in Percentages /\ propAmount \in Budgets /\ spendAmount \in Budgets
  /\ budgetOpen => ~claimedNow

(* Every step of the treasury is one of the elections, or leaves them be.   *)
LEMMA TreasuryStep == [TreasuryNext]_<<vars, treasuryVars>> => [Next]_vars
<1> SUFFICES ASSUME TreasuryNext PROVE [Next]_vars
  BY DEF vars
<1>1. CASE Second
  BY <1>1 DEF Second, Next
<1>2. ASSUME NEW c \in Accounts, NEW request \in AllRequests,
             NominateFor(c, request) \/ UpdateReqPay(c, request)
      PROVE  [Next]_vars
  BY <1>2 DEF NominateFor, UpdateReqPay, Next
<1>3. ASSUME NEW c \in Accounts, Leave(c) \/ ResignUnpaid(c) PROVE [Next]_vars
  BY <1>3 DEF Leave, ResignUnpaid, Next
<1>4. ASSUME NEW turnout \in Turnouts, NEW ranking \in Rankings, Elect(ranking, turnout)
      PROVE  [Next]_vars
  BY <1>4 DEF Elect, Next, NewPeriod
<1>5. ASSUME NEW turnout \in Turnouts, SeatAndPay(turnout) PROVE [Next]_vars
  BY <1>5 DEF SeatAndPay, Next, NewPeriod
<1>6. ASSUME NEW max \in PayMaxes, SetPayMax(max) PROVE [Next]_vars
  BY <1>6 DEF SetPayMax
<1>7. ASSUME NEW r \in pendingPay, ClaimPay(r) \/ DropPay(r) PROVE [Next]_vars
  BY <1>7 DEF ClaimPay, DropPay
<1>8. ASSUME NEW p \in Percentages, SetPrpBudget(p) PROVE [Next]_vars
  BY <1>8 DEF SetPrpBudget
<1>9. ASSUME NEW n \in Budgets, SetPrpBudgA(n) \/ SetSpendBudg(n) PROVE [Next]_vars
  BY <1>9 DEF SetPrpBudgA, SetSpendBudg
<1>10. CASE Income \/ ClaimBudget
  BY <1>10 DEF Income, ClaimBudget
<1> QED
  BY <1>1, <1>2, <1>3, <1>4, <1>5, <1>6, <1>7, <1>8, <1>9, <1>10 DEF TreasuryNext

(* Paying boards and budgets does not get in the way of elections: what is  *)
(* proved of them above holds with the treasury too (newperiod pays in the  *)
(* same transaction in which it seats).                                     *)
THEOREM TreasuryElects == TreasurySpec => Spec
<1>1. TreasuryInit => Init
  BY DEF TreasuryInit
<1> QED
  BY <1>1, TreasuryStep, PTL DEF TreasurySpec, Spec

(* The choice of who is paid and what is elected, as election steps see it. *)
LEMMA ElectionTypes == TreasurySpec => []TypeOK
BY TreasuryElects, TypeCorrect, PTL

-----------------------------------------------------------------------------
(* The mean *)

(* A mean is at most the bound of what it is taken over. *)
LEMMA MeanAtMost ==
  ASSUME NEW s \in Nat, NEW n \in Nat \ {0}, NEW m \in Nat, s <= n * m
  PROVE  s \div n \in Nat /\ s \div n <= m
<1> DEFINE q == s \div n
<1>1. q \in Nat /\ q * n <= s
  OBVIOUS
<1> HIDE DEF q
<1>2. ASSUME q > m PROVE FALSE
  <2>1. q - m - 1 \in Nat /\ (q - m - 1) * n \in Nat
    BY <1>1, <1>2
  <2>2. q * n = m * n + n + (q - m - 1) * n
    BY <1>1
  <2>3. q * n \in Int /\ m * n \in Int /\ n * m = m * n
    BY <1>1
  <2> QED
    BY <1>1, <2>1, <2>2, <2>3
<1>3. q <= m
  BY <1>1, <1>2
<1> QED
  BY <1>1, <1>3 DEF q

(* Nobody who asks for more than the maximum raises the mean above it.      *)
LEMMA MeanWithinMaximum ==
  ASSUME TypeOK, Kept
  PROVE  MeanPay \in Nat /\ MeanPay <= payMax.amount
<1> DEFINE Within == {c \in Counted : Asked[c] <= payMax.amount}
<1>1. payMax.amount \in Nat
  BY TreasuryAssumption DEF TreasuryAssumption, Kept
<1>2. CASE Counted = {}
  BY <1>1, <1>2 DEF MeanPay
<1>3. CASE Counted # {}
  <2>1. IsFiniteSet(Counted) /\ Cardinality(Counted) \in Nat \ {0}
    <3>1. Counted \in SUBSET Accounts
      BY DEF Counted, TypeOK
    <3> QED
      BY <1>3, <3>1, BoardSize
  <2>2. /\ Within \in SUBSET Counted
        /\ IsFiniteSet(Within)
        /\ Cardinality(Within) \in Nat
        /\ Cardinality(Within) <= Cardinality(Counted)
    BY <2>1, FS_Subset, FS_CardinalityType
  <2>3. \A c \in Within : Asked[c] \in Nat /\ Asked[c] <= payMax.amount
    BY TreasuryAssumption DEF TreasuryAssumption, Kept, AllRequests, Asked, Counted
  <2>4. Total(Asked, Within) \in Nat
    <3> HIDE DEF Within
    <3> QED
      BY <2>2, <2>3, TotalNat
  <2>5. Total(Asked, Within) <= Cardinality(Within) * payMax.amount
    <3> HIDE DEF Within
    <3> QED
      BY <1>1, <2>2, <2>3, TotalAtMost
  <2>6. RequestTotal = Total(Asked, Within)
    BY DEF RequestTotal
  <2>7. Cardinality(Within) * payMax.amount <= Cardinality(Counted) * payMax.amount
    <3> HIDE DEF Within
    <3> DEFINE w == Cardinality(Within)
               n == Cardinality(Counted)
               m == payMax.amount
    <3>1. w \in Nat /\ n \in Nat /\ m \in Nat /\ w <= n
      BY <1>1, <2>1, <2>2
    <3> HIDE DEF w, n, m
    <3>2. (n - w) * m \in Nat /\ n * m = w * m + (n - w) * m /\ w * m \in Int
      BY <3>1
    <3>3. w * m <= n * m
      BY <3>1, <3>2
    <3> QED
      BY <3>3 DEF w, n, m
  <2>8. RequestTotal \in Nat /\ RequestTotal <= Cardinality(Counted) * payMax.amount
    <3> HIDE DEF Within
    <3>1. Cardinality(Within) * payMax.amount \in Int
          /\ Cardinality(Counted) * payMax.amount \in Int
      BY <1>1, <2>1, <2>2
    <3> QED
      BY <2>4, <2>5, <2>6, <2>7, <3>1
  <2>9. /\ RequestTotal \div Cardinality(Counted) \in Nat
        /\ RequestTotal \div Cardinality(Counted) <= payMax.amount
    BY <1>1, <2>1, <2>8, MeanAtMost
  <2> QED
    BY <1>3, <2>9 DEF MeanPay
<1> QED
  BY <1>2, <1>3

-----------------------------------------------------------------------------
(* The rows of pending pay *)

RowsOf(rows, c, token) == {r \in rows : r.receiver = c /\ r.token = token}

OneRow(rows) ==
  \A r, s \in rows : r.receiver = s.receiver /\ r.token = s.token => r = s

(* What an account is due is in the one row it has. *)
LEMMA DueOfRow ==
  ASSUME NEW rows \in SUBSET Rows, OneRow(rows), NEW c, NEW token
  PROVE  /\ (\A r \in rows : ~(r.receiver = c /\ r.token = token)) => Due(rows, c, token) = 0
         /\ \A r \in rows : r.receiver = c /\ r.token = token =>
              Due(rows, c, token) = r.amount
<1>1. Due(rows, c, token) = Total(AmountsOf(rows), RowsOf(rows, c, token))
  BY DEF Due, RowsOf
<1>2. ASSUME \A r \in rows : ~(r.receiver = c /\ r.token = token)
      PROVE  Due(rows, c, token) = 0
  <2>1. RowsOf(rows, c, token) = {}
    BY <1>2 DEF RowsOf
  <2> QED
    BY <1>1, <2>1, TotalEmpty
<1>3. ASSUME NEW r \in rows, r.receiver = c, r.token = token
      PROVE  Due(rows, c, token) = r.amount
  <2>1. RowsOf(rows, c, token) = {r}
    BY <1>3 DEF RowsOf, OneRow
  <2>2. IsFiniteSet({r}) /\ {r} \ {r} = {} /\ r \in {r}
    BY FS_Singleton
  <2>3. AmountsOf(rows)[r] = r.amount /\ r.amount \in Nat
    BY DEF AmountsOf, Rows
  <2>4. \A v \in {r} : AmountsOf(rows)[v] \in Nat
    BY <2>3
  <2>5. Total(AmountsOf(rows), {r}) = Total(AmountsOf(rows), {r} \ {r}) + AmountsOf(rows)[r]
    BY <2>2, <2>4, TotalRemove
  <2>6. Total(AmountsOf(rows), {r}) = 0 + r.amount
    BY <2>2, <2>3, <2>5, TotalEmpty
  <2> QED
    BY <1>1, <2>1, <2>3, <2>6
<1> QED
  BY <1>2, <1>3

(* A raised row is that of the same receiver and token. *)
LEMMA RaisedRow ==
  ASSUME MeanPay \in Nat, NEW r \in Rows
  PROVE  /\ Raised(r) \in Rows
         /\ Raised(r).receiver = r.receiver
         /\ Raised(r).token = r.token
         /\ Raised(r).amount = r.amount + MeanPay
BY DEF Raised, Rows

(* A row is made for who has none. *)
LEMMA RowMade ==
  ASSUME Kept, MeanPay \in Nat, NEW c \in Accounts, RowOf(c, payMax.token) = {}
  PROVE  /\ NewRow(c) \in Rows
         /\ NewRow(c).receiver = c
         /\ NewRow(c).token = payMax.token
         /\ NewRow(c).amount = MeanPay
<1>1. Cardinality({r \in pendingPay : r.receiver = c /\ r.token = payMax.token}) = 0
  BY FS_EmptySet DEF RowOf
<1>2. payMax.token \in {m.token : m \in PayMaxes}
  BY DEF Kept
<1> QED
  BY <1>1, <1>2 DEF NewRow, Rows

(* The board that leaves *)
Served(r) == r.receiver \in custodians /\ r.token = payMax.token

(* A row after the pay: one that was there and is not of the board and the  *)
(* token paid in, one raised, or a new one.                                 *)
LEMMA RowPaid ==
  ASSUME TypeOK, Kept, MeanPay # 0, NEW s
  PROVE  s \in DistributeMeanPay(custodians) <=>
           \/ s \in pendingPay /\ ~Served(s)
           \/ \E r \in pendingPay : Served(r) /\ s = Raised(r)
           \/ \E c \in custodians : RowOf(c, payMax.token) = {} /\ s = NewRow(c)
BY DEF DistributeMeanPay, Served, RowOf

LEMMA RowsPaid ==
  ASSUME TypeOK, Kept
  PROVE  /\ DistributeMeanPay(custodians) \subseteq Rows
         /\ OneRow(DistributeMeanPay(custodians))
<1>1. CASE MeanPay = 0
  BY <1>1 DEF DistributeMeanPay, Kept, OneRowEach, OneRow
<1>2. CASE MeanPay # 0
  <2>1. MeanPay \in Nat
    BY MeanWithinMaximum
  <2>2. \A c \in custodians : c \in Accounts
    BY DEF TypeOK
  <2>3. \A r \in pendingPay : r \in Rows
    BY DEF Kept
  <2> DEFINE New == DistributeMeanPay(custodians)
             Before(s) == s \in pendingPay /\ ~Served(s)
             Up(s) == \E r \in pendingPay : Served(r) /\ s = Raised(r)
             Made(s) == \E c \in custodians : RowOf(c, payMax.token) = {} /\ s = NewRow(c)
  <2>4. ASSUME NEW s \in New PROVE Before(s) \/ Up(s) \/ Made(s)
    BY <1>2, RowPaid
  <2>5. ASSUME NEW s, Up(s)
        PROVE  /\ s \in Rows /\ Served(s)
               /\ \E r \in pendingPay : /\ s = Raised(r)
                                        /\ r.receiver = s.receiver /\ r.token = s.token
    <3>1. PICK r \in pendingPay : Served(r) /\ s = Raised(r)
      BY <2>5
    <3>2. s \in Rows /\ s.receiver = r.receiver /\ s.token = r.token
      BY <2>1, <2>3, <3>1, RaisedRow
    <3> QED
      BY <3>1, <3>2 DEF Served
  <2>6. ASSUME NEW s, Made(s)
        PROVE  /\ s \in Rows /\ Served(s) /\ s = NewRow(s.receiver)
               /\ RowOf(s.receiver, payMax.token) = {}
    <3>1. PICK c \in custodians : RowOf(c, payMax.token) = {} /\ s = NewRow(c)
      BY <2>6
    <3>2. s \in Rows /\ s.receiver = c /\ s.token = payMax.token
      BY <2>1, <2>2, <3>1, RowMade
    <3> QED
      BY <3>1, <3>2 DEF Served
  <2> HIDE DEF New, Up, Made
  <2>7. New \subseteq Rows
    BY <2>3, <2>4, <2>5, <2>6
  <2>8. ASSUME NEW r \in New, NEW s \in New, r.receiver = s.receiver, r.token = s.token
        PROVE  r = s
    <3>1. CASE Before(r)
      <4>1. Before(s)
        BY <2>4, <2>5, <2>6, <2>8, <3>1 DEF Served
      <4> QED
        BY <2>8, <3>1, <4>1 DEF Kept, OneRowEach
    <3>2. CASE Up(r)
      <4>1. PICK q \in pendingPay : r = Raised(q) /\ q.receiver = r.receiver /\ q.token = r.token
        BY <2>5, <3>2
      <4>2. Served(r) /\ Served(s)
        BY <2>5, <2>8, <3>2 DEF Served
      <4>3. ~Made(s)
        BY <2>6, <2>8, <4>1, <4>2 DEF RowOf, Served
      <4>4. PICK p \in pendingPay : s = Raised(p) /\ p.receiver = s.receiver /\ p.token = s.token
        BY <2>4, <2>5, <4>2, <4>3
      <4> QED
        BY <2>8, <4>1, <4>4 DEF Kept, OneRowEach
    <3>3. CASE Made(r)
      <4>1. Served(r) /\ Served(s) /\ RowOf(r.receiver, payMax.token) = {}
        BY <2>6, <2>8, <3>3 DEF Served
      <4>2. ~Up(s)
        BY <2>5, <2>8, <4>1 DEF RowOf, Served
      <4>3. Made(s)
        BY <2>4, <4>1, <4>2
      <4> QED
        BY <2>6, <2>8, <3>3, <4>3
    <3> QED
      BY <2>4, <3>1, <3>2, <3>3
  <2> QED
    BY <2>7, <2>8 DEF OneRow, New
<1> QED
  BY <1>1, <1>2

(* Who does not leave the board gets nothing, and who does gets the mean.   *)
LEMMA DuePaid ==
  ASSUME TypeOK, Kept, NEW c, NEW token,
         Due(DistributeMeanPay(custodians), c, token) > Due(pendingPay, c, token)
  PROVE  /\ c \in custodians
         /\ Due(DistributeMeanPay(custodians), c, token) - Due(pendingPay, c, token)
              <= payMax.amount
<1> DEFINE New == DistributeMeanPay(custodians)
           Of(r) == r.receiver = c /\ r.token = token
<1>1. MeanPay \in Nat /\ MeanPay <= payMax.amount
  BY MeanWithinMaximum
<1>2. New \in SUBSET Rows /\ OneRow(New) /\ pendingPay \in SUBSET Rows /\ OneRow(pendingPay)
  BY RowsPaid DEF Kept, OneRowEach, OneRow
<1>3. MeanPay # 0
  <2>1. ASSUME MeanPay = 0 PROVE New = pendingPay
    BY <2>1 DEF DistributeMeanPay
  <2>2. CASE New = pendingPay
    <3>1. Due(New, c, token) = Due(pendingPay, c, token)
      BY <2>2
    <3>2. Due(pendingPay, c, token) \in Int
      <4> HIDE DEF New
      <4>1. CASE \E r \in pendingPay : Of(r)
        BY <1>2, <4>1, DueOfRow DEF Rows
      <4>2. CASE ~\E r \in pendingPay : Of(r)
        BY <1>2, <4>2, DueOfRow
      <4> QED
        BY <4>1, <4>2
    <3> QED
      BY <3>1, <3>2
  <2> QED
    BY <2>1, <2>2
<1>4. \A s : s \in New <=>
           \/ s \in pendingPay /\ ~Served(s)
           \/ \E r \in pendingPay : Served(r) /\ s = Raised(r)
           \/ \E b \in custodians : RowOf(b, payMax.token) = {} /\ s = NewRow(b)
  BY <1>3, RowPaid
<1>5. \A r \in pendingPay :
        /\ Raised(r).receiver = r.receiver
        /\ Raised(r).token = r.token
        /\ Raised(r).amount = r.amount + MeanPay
  BY <1>1, <1>2, RaisedRow
<1>6. \A b \in custodians : RowOf(b, payMax.token) = {} =>
        /\ NewRow(b).receiver = b
        /\ NewRow(b).token = payMax.token
        /\ NewRow(b).amount = MeanPay
  BY <1>1, RowMade DEF TypeOK
<1> HIDE DEF New
<1>7. /\ (\A r \in New : ~Of(r)) => Due(New, c, token) = 0
      /\ \A r \in New : Of(r) => Due(New, c, token) = r.amount
  BY <1>2, DueOfRow
<1>8. /\ (\A r \in pendingPay : ~Of(r)) => Due(pendingPay, c, token) = 0
      /\ \A r \in pendingPay : Of(r) => Due(pendingPay, c, token) = r.amount
  BY <1>2, DueOfRow
<1>9. \A r \in pendingPay : r.amount \in Nat
  BY <1>2 DEF Rows
<1>10. Due(pendingPay, c, token) \in Nat
  BY <1>8, <1>9
<1>11. Due(New, c, token) > Due(pendingPay, c, token)
  BY DEF New
<1>12. PICK s \in New : Of(s)
  BY <1>7, <1>10, <1>11
<1>13. Due(New, c, token) = s.amount
  BY <1>7, <1>12
<1>14. ~(s \in pendingPay)
  <2>1. ASSUME s \in pendingPay PROVE FALSE
    <3>1. Due(pendingPay, c, token) = s.amount
      BY <1>8, <1>12, <2>1
    <3> QED
      BY <1>10, <1>11, <1>13, <3>1
  <2> QED
    BY <2>1
<1>15. CASE \E r \in pendingPay : Served(r) /\ s = Raised(r)
  <2>1. PICK r \in pendingPay : Served(r) /\ s = Raised(r)
    BY <1>15
  <2>2. Of(r) /\ s.amount = r.amount + MeanPay /\ c \in custodians
    BY <1>5, <1>12, <2>1 DEF Served
  <2>3. Due(pendingPay, c, token) = r.amount /\ r.amount \in Nat
    BY <1>8, <1>9, <2>2
  <2>4. payMax.amount \in Nat
    BY TreasuryAssumption DEF TreasuryAssumption, Kept
  <2> QED
    BY <1>1, <1>13, <2>2, <2>3, <2>4 DEF New
<1>16. CASE \E b \in custodians : RowOf(b, payMax.token) = {} /\ s = NewRow(b)
  <2>1. s.amount = MeanPay /\ c \in custodians
    BY <1>6, <1>12, <1>16
  <2>2. payMax.amount \in Nat
    BY TreasuryAssumption DEF TreasuryAssumption, Kept
  <2> QED
    BY <1>1, <1>10, <1>13, <2>1, <2>2 DEF New
<1> QED
  BY <1>4, <1>14, <1>15, <1>16

-----------------------------------------------------------------------------
(* Each step keeps the books *)

LEMMA KeptInit == TreasuryInit => Kept
<1> SUFFICES ASSUME TreasuryInit PROVE Kept
  OBVIOUS
<1>1. custReq \in [custodians -> AllRequests] /\ pendReq \in [pending -> AllRequests]
  BY DEF TreasuryInit, Init, NoRequests
<1> QED
  BY <1>1 DEF TreasuryInit, Init, Kept, OneRowEach

LEMMA SecondKept ==
  ASSUME Kept, Second
  PROVE  Kept'
BY DEF Kept, OneRowEach, Second, Tick, electionVars, requestVars, budgetVars

LEMMA RequestKept ==
  ASSUME Kept, NEW c \in Accounts, NEW request \in AllRequests,
         NominateFor(c, request) \/ UpdateReqPay(c, request)
  PROVE  Kept'
<1>1. /\ requested' \in [Accounts -> AllRequests \cup {Unset}]
      /\ requested' = [requested EXCEPT ![c] = request]
      /\ standing' \subseteq standing \cup {c}
  BY DEF Kept, NominateFor, UpdateReqPay, Nominate, vars, electionVars
<1>2. \A b \in standing' : requested'[b] \in AllRequests
  BY <1>1 DEF Kept
<1>3. UNCHANGED <<custodians, pending, custReq, pendReq, pendingPay, payMax, treasury,
                  propPercent, propAmount, spendAmount, budgetOpen, claimedNow>>
  BY DEF NominateFor, UpdateReqPay, Nominate, vars, electionVars, budgetVars
<1> QED
  BY <1>1, <1>2, <1>3 DEF Kept, OneRowEach

LEMMA LeaveKept ==
  ASSUME Kept, NEW c, Leave(c)
  PROVE  Kept'
BY DEF Kept, OneRowEach, Leave, Withdraw, treasuryVars, requestVars, budgetVars

LEMMA ElectKept ==
  ASSUME Kept, NEW ranking, NEW turnout, Elect(ranking, turnout)
  PROVE  Kept'
<1>1. pending' \subseteq standing
  BY ElectedStand DEF Elect, Prepare
<1>2. pendReq' \in [pending' -> AllRequests]
  BY <1>1 DEF Kept, Elect
<1> QED
  BY <1>2 DEF Kept, OneRowEach, Elect, Prepare, budgetVars

LEMMA SeatKept ==
  ASSUME TypeOK, Kept, NEW turnout, SeatAndPay(turnout)
  PROVE  Kept'
<1>1. /\ pendingPay' \subseteq Rows
      /\ \A r, s \in pendingPay' : r.receiver = s.receiver /\ r.token = s.token => r = s
  BY RowsPaid DEF SeatAndPay, OneRow
<1>2. custReq' \in [custodians' -> AllRequests] /\ pendReq' \in [pending' -> AllRequests]
  BY DEF Kept, SeatAndPay, Seat, NoRequests
<1>3. budgetOpen' => ~claimedNow'
  BY DEF SeatAndPay
<1> QED
  BY <1>1, <1>2, <1>3 DEF Kept, OneRowEach, SeatAndPay, Seat, budgetVars

LEMMA ResignKept ==
  ASSUME Kept, NEW c, ResignUnpaid(c)
  PROVE  Kept'
<1>1. /\ custodians' \subseteq custodians
      /\ pending' \subseteq pending
      /\ standing' \subseteq standing
  BY DEF ResignUnpaid, Resign
<1>2. custReq' \in [custodians' -> AllRequests] /\ pendReq' \in [pending' -> AllRequests]
  BY <1>1 DEF Kept, ResignUnpaid
<1> QED
  BY <1>1, <1>2 DEF Kept, OneRowEach, ResignUnpaid, budgetVars

LEMMA SettingKept ==
  ASSUME Kept,
         \/ \E max \in PayMaxes : SetPayMax(max)
         \/ \E p \in Percentages : SetPrpBudget(p)
         \/ \E n \in Budgets : SetPrpBudgA(n) \/ SetSpendBudg(n)
  PROVE  Kept'
BY DEF Kept, OneRowEach, SetPayMax, SetPrpBudget, SetPrpBudgA, SetSpendBudg, vars, electionVars,
       requestVars, budgetVars

LEMMA PayKept ==
  ASSUME Kept, NEW r \in pendingPay, ClaimPay(r) \/ DropPay(r)
  PROVE  Kept'
<1>1. treasury' \in Nat
  BY DEF Kept, Rows, ClaimPay, DropPay, budgetVars
<1>2. pendingPay' = pendingPay \ {r}
  BY DEF ClaimPay, DropPay
<1>3. UNCHANGED <<vars, requestVars, payMax, propPercent, propAmount, spendAmount, budgetOpen,
                  claimedNow>>
  BY DEF ClaimPay, DropPay, budgetVars
<1> QED
  BY <1>1, <1>2, <1>3 DEF Kept, OneRowEach, vars, electionVars, requestVars

LEMMA IncomeKept ==
  ASSUME Kept, Income
  PROVE  Kept'
BY DEF Kept, OneRowEach, Income, vars, electionVars, requestVars

-----------------------------------------------------------------------------
(* The budget *)

(* A share below one hundred percent leaves something, rounded down. *)
LEMMA ShareBelow ==
  ASSUME NEW t \in Nat \ {0}, NEW w \in Nat \ {0}, NEW p \in Nat, p < w
  PROVE  (t * p) \div w \in Nat /\ (t * p) \div w < t
<1> DEFINE x == t * p
           q == x \div w
<1>1. x \in Nat
  OBVIOUS
<1> HIDE DEF x
<1>2. q \in Nat /\ q * w <= x
  BY <1>1
<1> HIDE DEF q
<1>3. x < t * w
  <2>1. w - p - 1 \in Nat /\ t * (w - p - 1) \in Nat
    OBVIOUS
  <2>2. t * w = t * p + t + t * (w - p - 1)
    OBVIOUS
  <2>3. t * w \in Int /\ t * p \in Int
    OBVIOUS
  <2> QED
    BY <2>1, <2>2, <2>3 DEF x
<1>4. ASSUME q >= t PROVE FALSE
  <2>1. q - t \in Nat /\ (q - t) * w \in Nat
    BY <1>2, <1>4
  <2>2. q * w = t * w + (q - t) * w
    BY <1>2
  <2>3. q * w \in Int /\ t * w \in Int
    BY <1>2
  <2> QED
    BY <1>1, <1>2, <1>3, <2>1, <2>2, <2>3
<1>5. q < t
  BY <1>2, <1>4
<1> QED
  BY <1>2, <1>5 DEF q, x

(* A share is an amount of the token. *)
LEMMA ShareType ==
  ASSUME Kept, propPercent # Unset
  PROVE  Share \in Nat
<1>1. treasury \in Nat /\ propPercent \in Nat /\ Whole \in Nat \ {0}
  BY TreasuryAssumption DEF TreasuryAssumption, Kept
<1>2. treasury * propPercent \in Nat
  BY <1>1
<1> QED
  BY <1>1, <1>2 DEF Share

LEMMA AmountsTaken ==
  ASSUME Kept, Covered \/ propPercent # Unset
  PROVE  ToProposals \in Nat /\ ToSpendings \in Nat
<1>1. CASE Covered
  BY <1>1, TreasuryAssumption
  DEF TreasuryAssumption, Kept, Covered, ToProposals, ToSpendings
<1>2. CASE ~Covered
  <2>1. Share \in Nat /\ treasury \in Nat
    BY <1>2, ShareType DEF Kept
  <2>2. ToProposals = Share
    BY <1>2 DEF ToProposals
  <2>3. Rest \in Int
    BY <2>1 DEF Rest
  <2>4. ToSpendings = 0 \/ (Rest > 1 /\ ToSpendings = Rest)
    BY <1>2 DEF ToSpendings
  <2> QED
    BY <2>1, <2>2, <2>3, <2>4
<1> QED
  BY <1>1, <1>2

LEMMA ClaimKept ==
  ASSUME Kept, ClaimBudget
  PROVE  Kept'
<1>1. treasury' \in Nat
  BY AmountsTaken DEF Kept, ClaimBudget
<1> QED
  BY <1>1 DEF Kept, OneRowEach, ClaimBudget, vars, electionVars, requestVars

LEMMA BudgetStep ==
  ASSUME Kept, ClaimBudget, treasury > 0, propPercent = Unset \/ propPercent < Whole
  PROVE  treasury' > 0
<1>1. /\ treasury \in Nat \ {0}
      /\ ToProposals \in Nat /\ ToSpendings \in Nat
      /\ treasury' = treasury - ToProposals - ToSpendings
  BY AmountsTaken DEF Kept, ClaimBudget
<1>2. CASE Covered
  <2>1. propAmount \in Nat /\ spendAmount \in Nat /\ propAmount + spendAmount < treasury
    BY <1>2, TreasuryAssumption DEF TreasuryAssumption, Kept, Covered
  <2>2. ToProposals = propAmount /\ ToSpendings \in {0, spendAmount}
    BY <1>2 DEF ToProposals, ToSpendings
  <2> QED
    BY <1>1, <2>1, <2>2
<1>3. CASE ~Covered
  <2>1. propPercent # Unset /\ propPercent \in Nat /\ propPercent < Whole /\ Whole \in Nat \ {0}
    BY <1>3, TreasuryAssumption DEF TreasuryAssumption, Kept, ClaimBudget
  <2>2. Share \in Nat /\ Share < treasury
    BY <1>1, <2>1, ShareBelow DEF Share
  <2>3. ToProposals = Share
    BY <1>3 DEF ToProposals
  <2>4. ToSpendings = 0 \/ ToSpendings = treasury - Share - 1
    BY <1>3 DEF ToSpendings, Rest
  <2> QED
    BY <1>1, <2>2, <2>3, <2>4
<1> QED
  BY <1>2, <1>3

-----------------------------------------------------------------------------
LEMMA KeptNext ==
  ASSUME TypeOK, Kept, [TreasuryNext]_<<vars, treasuryVars>>
  PROVE  Kept'
<1>1. CASE UNCHANGED <<vars, treasuryVars>>
  BY <1>1
  DEF Kept, OneRowEach, vars, electionVars, treasuryVars, requestVars, budgetVars
<1>2. CASE TreasuryNext
  BY <1>2, SecondKept, RequestKept, LeaveKept, ElectKept, SeatKept, ResignKept, SettingKept,
     PayKept, IncomeKept, ClaimKept
  DEF TreasuryNext
<1> QED
  BY <1>1, <1>2

LEMMA KeptAlways == TreasurySpec => []Kept
BY KeptInit, KeptNext, ElectionTypes, PTL DEF TreasurySpec

(* However boards, requests, the maximum and its token change between       *)
(* elections, distributeMeanPay finds the one row an account has in a       *)
(* token.                                                                   *)
THEOREM OneRowCorrect == TreasurySpec => []OneRowEach
<1>1. Kept => OneRowEach
  BY DEF Kept
<1> QED
  BY <1>1, KeptAlways, PTL

(* Only newperiod adds to pending pay, and by what is due to the board that *)
(* leaves.                                                                  *)
LEMMA PaidStep ==
  ASSUME TypeOK, Kept, [TreasuryNext]_<<vars, treasuryVars>>, NEW c, NEW token,
         Due(pendingPay', c, token) > Due(pendingPay, c, token)
  PROVE  /\ c \in custodians
         /\ Due(pendingPay', c, token) - Due(pendingPay, c, token) <= payMax.amount
<1>1. CASE \E turnout \in Turnouts : SeatAndPay(turnout)
  BY <1>1, DuePaid DEF SeatAndPay
<1>2. CASE pendingPay' \subseteq pendingPay
  <2>1. /\ pendingPay \in SUBSET Rows /\ OneRow(pendingPay)
        /\ pendingPay' \in SUBSET Rows /\ OneRow(pendingPay')
    BY <1>2 DEF Kept, OneRowEach, OneRow
  <2>2. \A r \in pendingPay : r.amount \in Nat
    BY <2>1 DEF Rows
  <2> DEFINE Of(r) == r.receiver = c /\ r.token = token
  <2>3. CASE \E r \in pendingPay' : Of(r)
    <3>1. PICK r \in pendingPay' : Of(r)
      BY <2>3
    <3>2. Due(pendingPay', c, token) = r.amount
      BY <2>1, <3>1, DueOfRow
    <3>3. Due(pendingPay, c, token) = r.amount /\ r.amount \in Nat
      BY <1>2, <2>1, <2>2, <3>1, DueOfRow
    <3> QED
      BY <3>2, <3>3
  <2>4. CASE ~\E r \in pendingPay' : Of(r)
    <3>1. Due(pendingPay', c, token) = 0
      BY <2>1, <2>4, DueOfRow
    <3>2. Due(pendingPay, c, token) \in Nat
      <4>1. CASE \E r \in pendingPay : Of(r)
        BY <2>1, <2>2, <4>1, DueOfRow
      <4>2. CASE ~\E r \in pendingPay : Of(r)
        BY <2>1, <4>2, DueOfRow
      <4> QED
        BY <4>1, <4>2
    <3> QED
      BY <3>1, <3>2
  <2> QED
    BY <2>3, <2>4
<1>3. (\E turnout \in Turnouts : SeatAndPay(turnout)) \/ pendingPay' \subseteq pendingPay
  BY DEF TreasuryNext, Second, NominateFor, Leave, UpdateReqPay, Elect, ResignUnpaid, SetPayMax,
         ClaimPay, DropPay, SetPrpBudget, SetPrpBudgA, SetSpendBudg, Income, ClaimBudget,
         treasuryVars
<1> QED
  BY <1>1, <1>2, <1>3

(* Only who sits on the board that leaves is paid, and at most the maximum  *)
(* of that time: the mean leaves out what is asked above it                 *)
(* (distributeMeanPay).                                                     *)
THEOREM PaidForServiceCorrect == TreasurySpec => PaidForService
<1>1. TypeOK /\ Kept /\ [TreasuryNext]_<<vars, treasuryVars>> =>
        [\A c \in Accounts, m \in PayMaxes :
           Due(pendingPay', c, m.token) > Due(pendingPay, c, m.token) =>
             /\ c \in custodians
             /\ Due(pendingPay', c, m.token) - Due(pendingPay, c, m.token) <= payMax.amount
        ]_<<vars, treasuryVars>>
  BY PaidStep
<1> QED
  BY <1>1, KeptAlways, ElectionTypes, PTL DEF TreasurySpec, PaidForService

(* claimbudget leaves a unit in the treasury, for any balance, amounts and  *)
(* share below one hundred percent.                                         *)
THEOREM BudgetCorrect == TreasurySpec => BudgetLeavesUnit
<1>1. ASSUME Kept, [TreasuryNext]_<<vars, treasuryVars>>, budgetOpen, ~budgetOpen',
             treasury > 0, propPercent = Unset \/ propPercent < Whole
      PROVE  treasury' > 0
  <2>1. CASE ClaimBudget
    BY <1>1, <2>1, BudgetStep
  <2>2. CASE \E turnout \in Turnouts : SeatAndPay(turnout)
    BY <1>1, <2>2 DEF SeatAndPay, budgetVars
  <2>3. ClaimBudget \/ \E turnout \in Turnouts : SeatAndPay(turnout)
    BY <1>1
    DEF TreasuryNext, Second, NominateFor, Leave, UpdateReqPay, Elect, ResignUnpaid, SetPayMax,
        ClaimPay, DropPay, SetPrpBudget, SetPrpBudgA, SetSpendBudg, Income, treasuryVars
  <2> QED
    BY <2>1, <2>2, <2>3
<1>2. Kept /\ [TreasuryNext]_<<vars, treasuryVars>> =>
        [budgetOpen /\ ~budgetOpen' /\ treasury > 0
           /\ (propPercent = Unset \/ propPercent < Whole) => treasury' > 0]_<<vars, treasuryVars>>
  BY <1>1
<1> QED
  BY <1>2, KeptAlways, PTL DEF TreasurySpec, BudgetLeavesUnit

=============================================================================
