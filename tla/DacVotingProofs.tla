--------------------------- MODULE DacVotingProofs ---------------------------
(***************************************************************************)
(* What DacVoting and its repair (DacVotingRebuild) keep true for every set*)
(* of accounts, every supply, every configuration, every length of time and*)
(* every size of the repair's batches.                                     *)
(***************************************************************************)
EXTENDS DacVotingRebuild, TotalsTheorems

-----------------------------------------------------------------------------
(* Arithmetic *)

(* Facts about products that the provers need spelled out once. *)
LEMMA NatProduct == \A x, y \in Nat : x * y \in Nat
OBVIOUS

LEMMA IntProduct == \A x, y \in Int : x * y \in Int
OBVIOUS

LEMMA NegProduct == \A x, y \in Int : (-x) * y = -(x * y)
OBVIOUS

LEMMA DeltaProduct == \A x, y, z \in Int : x * z + (y - x) * z = y * z
OBVIOUS

LEMMA QuotientNat == \A x \in Nat, y \in Nat : y > 0 => x \div y \in Nat
OBVIOUS

(* The weight of a stake is a natural number, and it is at least the stake: *)
(* it is zero only for an empty stake.                                      *)
LEMMA StakeWeightNat ==
  ASSUME NEW s \in Nat, NEW d \in MinStakeTime .. MaxStakeTime,
         NEW m \in Nat \ {0}
  PROVE  /\ StakeWeight(s, d, m) \in Nat
         /\ StakeWeight(s, d, m) = 0 => s = 0
<1> DEFINE M == MaxStakeTime
           k == d * m
<1>1. M \in Nat /\ M > 0 /\ d \in Nat
  BY ConstantsAssumption
<1>2. k \in Nat
  BY <1>1, NatProduct
<1>3. M + k \in Nat /\ M + k >= M
  BY <1>1, <1>2
<1> HIDE DEF k, M
<1>4. s * (M + k) \in Nat
  BY <1>3, NatProduct
<1>5. (s * (M + k)) \div M \in Nat
  BY <1>1, <1>4, QuotientNat
<1>6. ASSUME s # 0 PROVE (s * (M + k)) \div M # 0
  <2>1. s * (M + k) >= M + k
    BY <1>3, <1>6
  <2>2. s * (M + k) >= M
    BY <2>1, <1>1, <1>3, <1>4
  <2> QED
    BY <2>2, <1>1, <1>4
<1> QED
  BY <1>5, <1>6 DEF StakeWeight, k, M

-----------------------------------------------------------------------------
(* Type correctness *)

LEMMA AddWeightType ==
  ASSUME NEW r \in Candidates, NEW w \in Int, NEW ts \in Nat,
         Accepts(r, w, ts)
  PROVE  AddWeight(r, w, ts) \in Candidates
<1> DEFINE power == r.power + w
           rwt == r.rwt + w * ts
<1>1. r.power \in Nat /\ r.rwt \in Nat
  BY DEF Candidates
<1>2. power \in Int /\ rwt \in Int
  BY <1>1, IntProduct
<1>3. CASE w = 0 \/ ~r.row
  BY <1>3 DEF AddWeight
<1>4. CASE ~(w = 0 \/ ~r.row) /\ power <= 0
  BY <1>4 DEF AddWeight, Candidates
<1>5. CASE ~(w = 0 \/ ~r.row) /\ ~(power <= 0)
  <2>1. power \in Nat /\ power > 0 /\ rwt \in Nat
    BY <1>2, <1>5 DEF Accepts
  <2>2. rwt \div power \in Nat
    BY <2>1, QuotientNat
  <2>3. AddWeight(r, w, ts) =
          [r EXCEPT !.power = power, !.rwt = rwt, !.avg = rwt \div power]
    BY <1>5 DEF AddWeight
  <2> QED
    BY <2>1, <2>2, <2>3 DEF Candidates
<1> QED
  BY <1>3, <1>4, <1>5

LEMMA MovedType ==
  ASSUME NEW cd \in [Accounts -> Candidates], NEW dw \in Int,
         NEW old \in SUBSET Accounts, NEW oldTs \in Nat,
         NEW new \in SUBSET Accounts, NEW newTs \in Nat,
         MoveAllowed(cd, dw, old, oldTs, new, newTs),
         NEW c \in Accounts
  PROVE  Moved(cd[c], c, dw, old, oldTs, new, newTs) \in Candidates
<1> DEFINE r1 == Left(cd[c], c, dw, old, oldTs)
<1>1. r1 \in Candidates
  BY AddWeightType DEF Left, MoveAllowed
<1>2. c \in new => Accepts(r1, dw, newTs)
  BY DEF MoveAllowed
<1>3. c \in new => AddWeight(r1, dw, newTs) \in Candidates
  BY <1>1, <1>2, AddWeightType
<1> QED
  BY <1>1, <1>3 DEF Moved

LEMMA TalliedType ==
  ASSUME NEW tt \in [weight : Int, votes : Int], NEW dw \in Int,
         NEW dq \in Int, NEW old, NEW new
  PROVE  Tallied(tt, dw, dq, old, new) \in [weight : Int, votes : Int]
<1> DEFINE sign == (IF old = {} THEN 1 ELSE 0) - (IF new = {} THEN 1 ELSE 0)
<1>1. sign \in Int
  OBVIOUS
<1>2. sign * dq \in Int /\ sign * dw \in Int
  BY <1>1, IntProduct
<1> HIDE DEF sign
<1>3. tt.weight + sign * dq \in Int /\ tt.votes + sign * dw \in Int
  BY <1>2
<1> QED
  BY <1>3 DEF Tallied, sign

(* weightobsv keeps the tables well typed. *)
LEMMA ObservedType ==
  ASSUME NEW cd \in [Accounts -> Candidates],
         NEW tt \in [weight : Int, votes : Int],
         NEW b \in Ballots, NEW dw \in Int, NEW dq \in Int,
         ObserveAllowed(cd, b, dw)
  PROVE  /\ ObservedCands(cd, b, dw) \in [Accounts -> Candidates]
         /\ ObservedTally(tt, b, dw, dq) \in [weight : Int, votes : Int]
<1>1. b.cands \in SUBSET Accounts /\ b.ts \in Nat
  BY DEF Ballots
<1>2. \A c \in Accounts :
        Moved(cd[c], c, dw, {}, 0, b.cands, b.ts) \in Candidates
  BY <1>1, MovedType DEF ObserveAllowed
<1>3. ObservedTally(tt, b, dw, dq) \in [weight : Int, votes : Int]
  BY TalliedType DEF ObservedTally
<1> QED
  BY <1>2, <1>3 DEF ObservedCands

LEMMA InitType == Init => TypeOK
<1> SUFFICES ASSUME Init PROVE TypeOK
  OBVIOUS
<1>1. NoBallot \in Ballots /\ NoCandidate \in Candidates
  BY DEF NoBallot, Ballots, NoCandidate, Candidates
<1>2. ballot \in [Accounts -> Ballots] /\ cand \in [Accounts -> Candidates]
  BY <1>1 DEF Init
<1>3. /\ member \in [Accounts -> Memberships]
      /\ stake \in [Accounts -> Nat]
      /\ delay \in [Accounts -> MinStakeTime .. MaxStakeTime]
  BY ConstantsAssumption DEF Init, Memberships
<1>4. weight \in [Accounts -> Nat] /\ quorum \in [Accounts -> Nat]
  BY ConstantsAssumption DEF Init
<1>5. multiplier \in Nat \ {0} /\ tally \in [weight : Int, votes : Int]
  BY ConstantsAssumption DEF Init
<1>6. now \in Nat /\ nActive \in Int
  BY DEF Init
<1>7. maintenance \in BOOLEAN
  BY DEF Init
<1> QED
  BY <1>2, <1>3, <1>4, <1>5, <1>6, <1>7 DEF TypeOK

LEMMA StakeObservedType ==
  ASSUME TypeOK, NEW a \in Accounts, NEW s \in Nat,
         NEW d \in MinStakeTime .. MaxStakeTime, StakeObserved(a, s, d)
  PROVE  TypeOK'
<1> DEFINE w == StakeWeight(s, d, multiplier)
<1>1. w \in Nat
  BY StakeWeightNat DEF TypeOK
<1> HIDE DEF w
<1>2. weight[a] \in Nat /\ quorum[a] \in Nat /\ ballot[a] \in Ballots
  BY DEF TypeOK
<1>3. w - weight[a] \in Int /\ s - quorum[a] \in Int
  BY <1>1, <1>2
<1>4. stake' \in [Accounts -> Nat] /\ delay' \in [Accounts -> MinStakeTime .. MaxStakeTime]
  BY DEF StakeObserved, TypeOK
<1>5. CASE StakeWeighted
  <2>1. /\ ObserveAllowed(cand, ballot[a], w - weight[a])
        /\ weight' = [weight EXCEPT ![a] = w]
        /\ quorum' = [quorum EXCEPT ![a] = IF w = 0 THEN 0 ELSE s]
        /\ cand' = ObservedCands(cand, ballot[a], w - weight[a])
        /\ tally' = ObservedTally(tally, ballot[a], w - weight[a],
                                  s - quorum[a])
    BY <1>5 DEF StakeObserved, w
  <2>2. /\ cand' \in [Accounts -> Candidates]
        /\ tally' \in [weight : Int, votes : Int]
    BY <2>1, <1>2, <1>3, ObservedType DEF TypeOK
  <2>3. weight' \in [Accounts -> Nat] /\ quorum' \in [Accounts -> Nat]
    BY <2>1, <1>1 DEF TypeOK
  <2> QED
    BY <1>4, <2>2, <2>3 DEF StakeObserved, TypeOK
<1>6. CASE ~StakeWeighted
  BY <1>4, <1>6 DEF StakeObserved, TypeOK
<1> QED
  BY <1>5, <1>6, ConstantsAssumption

(* The three operations that end in StakeObserved, as they stand in Next.   *)
StakeStep(a) ==
  \/ \E q \in 1 .. MaxStake, d \in MinStakeTime .. MaxStakeTime :
        stake[a] + q <= MaxStake /\ Stake(a, q, d)
  \/ \E q \in 1 .. MaxStake : Unstake(a, q)
  \/ \E d \in MinStakeTime .. MaxStakeTime : StakeTime(a, d)

LEMMA StakeStepObserved ==
  ASSUME TypeOK, NEW a \in Accounts, StakeStep(a)
  PROVE  \E s \in Nat, d \in MinStakeTime .. MaxStakeTime :
           /\ StakeObserved(a, s, d)
           /\ stake[a] > 0 => d >= delay[a]
<1>1. stake[a] \in Nat /\ delay[a] \in MinStakeTime .. MaxStakeTime
  BY DEF TypeOK
<1>2. MinStakeTime \in Nat /\ MaxStakeTime \in Nat /\ MaxStake \in Nat
      /\ MinStakeTime <= MaxStakeTime
  BY ConstantsAssumption
<1>3. ASSUME NEW q \in 1 .. MaxStake, NEW d \in MinStakeTime .. MaxStakeTime,
             Stake(a, q, d)
      PROVE  stake[a] + q \in Nat /\ StakeObserved(a, stake[a] + q, d)
             /\ (stake[a] > 0 => d >= delay[a])
  BY <1>1, <1>2, <1>3 DEF Stake
<1>4. ASSUME NEW q \in 1 .. MaxStake, Unstake(a, q)
      PROVE  stake[a] - q \in Nat /\ StakeObserved(a, stake[a] - q, delay[a])
             /\ delay[a] >= delay[a]
  BY <1>1, <1>2, <1>4 DEF Unstake
<1>5. ASSUME NEW d \in MinStakeTime .. MaxStakeTime, StakeTime(a, d)
      PROVE  StakeObserved(a, stake[a], d) /\ (stake[a] > 0 => d >= delay[a])
  BY <1>5 DEF StakeTime
<1> QED
  BY <1>1, <1>3, <1>4, <1>5 DEF StakeStep

LEMMA TransferType ==
  ASSUME TypeOK, NEW from \in Accounts, NEW to \in Accounts,
         NEW q \in Nat, Transfer(from, to, q)
  PROVE  TypeOK'
<1> DEFINE cd1 == ObservedCands(cand, ballot[from], -q)
           tt1 == ObservedTally(tally, ballot[from], -q, -q)
<1>1. ballot[from] \in Ballots /\ ballot[to] \in Ballots /\ -q \in Int /\ q \in Int
  BY DEF TypeOK
<1>2. cd1 \in [Accounts -> Candidates] /\ tt1 \in [weight : Int, votes : Int]
  BY <1>1, ObservedType DEF Transfer, TypeOK
<1>3. ObserveAllowed(cd1, ballot[to], q)
  BY DEF Transfer
<1>4. cand' = ObservedCands(cd1, ballot[to], q)
      /\ tally' = ObservedTally(tt1, ballot[to], q, q)
  BY DEF Transfer
<1> HIDE DEF cd1, tt1
<1>5. cand' \in [Accounts -> Candidates] /\ tally' \in [weight : Int, votes : Int]
  BY <1>1, <1>2, <1>3, <1>4, ObservedType
<1>6. weight' \in [Accounts -> Nat]
  BY DEF Transfer, TypeOK
<1> QED
  BY <1>5, <1>6 DEF Transfer, TypeOK, tokenVars

LEMMA BurnType ==
  ASSUME TypeOK, NEW from \in Accounts, NEW q \in Nat, Burn(from, q)
  PROVE  TypeOK'
<1>1. ballot[from] \in Ballots /\ -q \in Int
  BY DEF TypeOK
<1>2. cand' \in [Accounts -> Candidates] /\ tally' \in [weight : Int, votes : Int]
  BY <1>1, ObservedType DEF Burn, TypeOK
<1>3. weight' \in [Accounts -> Nat]
  BY DEF Burn, TypeOK
<1> QED
  BY <1>2, <1>3 DEF Burn, TypeOK, tokenVars

(* The recount of voters that votecust starts with. *)
CountedCands(a, new) ==
  [c \in Accounts |-> Counted(cand[c], c, ballot[a].cands, new)]

LEMMA CountedType ==
  ASSUME TypeOK, NEW a \in Accounts, NEW new \in SUBSET Accounts,
         VoteCust(a, new)
  PROVE  CountedCands(a, new) \in [Accounts -> Candidates]
<1> DEFINE old == ballot[a].cands
<1> SUFFICES ASSUME NEW c \in Accounts
             PROVE  Counted(cand[c], c, old, new) \in Candidates
  BY DEF CountedCands
<1>1. cand[c] \in Candidates /\ cand[c].voters \in Nat
  BY DEF TypeOK, Candidates
<1>2. c \in old /\ cand[c].row => cand[c].voters >= 1
  BY DEF VoteCust
<1> DEFINE n1 == IF c \in old /\ cand[c].row THEN cand[c].voters - 1
                 ELSE cand[c].voters
           n2 == IF c \in new /\ cand[c].row THEN n1 + 1 ELSE n1
<1>3. n2 \in Nat
  BY <1>1, <1>2
<1>4. Counted(cand[c], c, old, new) = [cand[c] EXCEPT !.voters = n2]
  BY DEF Counted
<1> HIDE DEF n2
<1> QED
  BY <1>1, <1>3, <1>4 DEF Candidates

LEMMA VoteCustType ==
  ASSUME TypeOK, NEW a \in Accounts, NEW new \in SUBSET Accounts,
         VoteCust(a, new)
  PROVE  TypeOK'
<1> DEFINE counted == CountedCands(a, new)
           old == ballot[a].cands
<1>1. /\ old \in SUBSET Accounts /\ ballot[a].ts \in Nat /\ now \in Nat
      /\ weight[a] \in Int /\ quorum[a] \in Int
  BY DEF TypeOK, Ballots
<1>2. counted \in [Accounts -> Candidates]
  BY CountedType
<1>3. MoveAllowed(counted, weight[a], old, ballot[a].ts, new, now)
  BY DEF VoteCust, CountedCands
<1>4. cand' = [c \in Accounts |->
                 Moved(counted[c], c, weight[a], old, ballot[a].ts, new, now)]
  BY DEF VoteCust, CountedCands
<1> HIDE DEF counted
<1>5. cand' \in [Accounts -> Candidates]
  BY <1>1, <1>2, <1>3, <1>4, MovedType
<1>6. tally' \in [weight : Int, votes : Int]
  BY <1>1, TalliedType DEF VoteCust, TypeOK
<1>7. ballot' \in [Accounts -> Ballots]
  BY <1>1 DEF VoteCust, TypeOK, Ballots, NoBallot
<1> QED
  BY <1>5, <1>6, <1>7 DEF VoteCust, TypeOK, tokenVars, weightVars

LEMMA StepType == TypeOK /\ [Next]_vars => TypeOK'
<1> SUFFICES ASSUME TypeOK, [Next]_vars PROVE TypeOK'
  OBVIOUS
<1>1. CASE Tick
  BY <1>1 DEF Tick, TypeOK, tokenVars, weightVars, voteVars
<1>2. CASE NewMemTerms
  BY <1>2 DEF NewMemTerms, TypeOK, Memberships, weightVars, voteVars
<1>3. ASSUME NEW a \in Accounts, MemberReg(a) \/ MemberUnreg(a) PROVE TypeOK'
  <2>1. member' \in [Accounts -> Memberships]
    BY <1>3 DEF MemberReg, MemberUnreg, TypeOK, Memberships
  <2>2. UNCHANGED <<now, stake, delay, multiplier, weight, quorum,
                    ballot, cand, tally, nActive, maintenance>>
    BY <1>3 DEF MemberReg, MemberUnreg, weightVars, voteVars
  <2> QED
    BY <2>1, <2>2 DEF TypeOK
<1>4. ASSUME NEW a \in Accounts, Nominate(a) PROVE TypeOK'
  <2>1. cand' \in [Accounts -> Candidates] /\ nActive' \in Int
    BY <1>4 DEF Nominate, TypeOK, Candidates
  <2>2. UNCHANGED <<now, member, stake, delay, multiplier, weight, quorum,
                    ballot, tally, maintenance>>
    BY <1>4 DEF Nominate, tokenVars, weightVars
  <2> QED
    BY <2>1, <2>2 DEF TypeOK
<1>5. ASSUME NEW a \in Accounts, Withdraw(a) PROVE TypeOK'
  <2> DEFINE r == [cand[a] EXCEPT !.active = FALSE]
  <2>3. cand[a] \in Candidates
    BY DEF TypeOK
  <2>4. r \in Candidates
    BY <2>3 DEF Candidates
  <2>5. cand' = [cand EXCEPT ![a] = r] /\ nActive' = nActive - 1
    BY <1>5 DEF Withdraw
  <2> HIDE DEF r
  <2>1. cand' \in [Accounts -> Candidates] /\ nActive' \in Int
    BY <2>4, <2>5 DEF TypeOK
  <2>2. UNCHANGED <<now, member, stake, delay, multiplier, weight, quorum,
                    ballot, tally, maintenance>>
    BY <1>5 DEF Withdraw, tokenVars, weightVars
  <2> QED
    BY <2>1, <2>2 DEF TypeOK
<1>6. ASSUME NEW a \in Accounts, StakeStep(a)
      PROVE  TypeOK'
  <2>1. PICK s \in Nat, d \in MinStakeTime .. MaxStakeTime : StakeObserved(a, s, d)
    BY <1>6, StakeStepObserved
  <2> QED
    BY <2>1, StakeObservedType
<1>7. ASSUME NEW m \in 1 .. MaxMultiplier, UpdateConfig(m) PROVE TypeOK'
  BY <1>7 DEF UpdateConfig, TypeOK, tokenVars, voteVars
<1>8. ASSUME NEW f \in Accounts, NEW t \in Accounts, NEW q \in 1 .. MaxBalance,
             Transfer(f, t, q)
      PROVE  TypeOK'
  BY <1>8, TransferType, ConstantsAssumption
<1>9. ASSUME NEW f \in Accounts, NEW q \in 1 .. MaxBalance, Burn(f, q)
      PROVE  TypeOK'
  BY <1>9, BurnType, ConstantsAssumption
<1>10. ASSUME NEW q \in 1 .. MaxBalance, Issue(q) PROVE TypeOK'
  <2>1. q \in Nat /\ Issuer \in Accounts
    BY ConstantsAssumption
  <2> QED
    BY <2>1, <1>10 DEF Issue, TypeOK, tokenVars, voteVars
<1>11. ASSUME NEW a \in Accounts, NEW new \in SUBSET Accounts, VoteCust(a, new)
       PROVE  TypeOK'
  BY <1>11, VoteCustType
<1>12. ASSUME NEW on \in BOOLEAN, Maintenance(on) PROVE TypeOK'
  BY <1>12 DEF Maintenance, TypeOK, tokenVars, weightVars
<1>13. CASE UNCHANGED vars
  BY <1>13 DEF vars, TypeOK, tokenVars, weightVars, voteVars
<1> QED
  BY <1>1, <1>2, <1>3, <1>4, <1>5, <1>6, <1>7, <1>8, <1>9, <1>10, <1>11,
     <1>12, <1>13 DEF Next, UserNext, StakeStep

(* Every table stays well formed: tallies never wrap below zero (the        *)
(* accumulators of updateVoteWeight are unsigned), stake times stay within  *)
(* the configured bounds.                                                   *)
THEOREM TypeCorrect == Spec => []TypeOK
<1>1. Init => TypeOK
  BY InitType
<1>2. TypeOK /\ [Next]_vars => TypeOK'
  BY StepType
<1> QED
  BY <1>1, <1>2, PTL DEF Spec

-----------------------------------------------------------------------------
(* The tallies of the candidates *)

(* Votes are only kept for registered candidates.                           *)
VotesForRows(cd, bt) ==
  \A a, c \in Accounts : c \in bt[a].cands => cd[c].row

(* PowerIsSum and AgeIsSum over given tables, for every account: one that is*)
(* not a candidate has no votes and no power.                               *)
Sums(cd, wt, bt) ==
  \A c \in Accounts :
    /\ cd[c].power = Total(wt, VotersOf(bt, c))
    /\ cd[c].rwt = Total(Aged(wt, bt), VotersOf(bt, c))
    /\ cd[c].power > 0 => cd[c].avg = cd[c].rwt \div cd[c].power

(* One weight move takes a candidate from one exact tally to another. When  *)
(* the new power is zero the code drops the accumulator, which must then be *)
(* zero as well.                                                            *)
LEMMA AddWeightExact ==
  ASSUME NEW r \in Candidates, r.row, NEW w \in Int, NEW ts \in Nat,
         NEW P \in Nat, NEW R \in Nat,
         r.power + w = P, r.rwt + w * ts = R, P = 0 => R = 0,
         r.power > 0 => r.avg = r.rwt \div r.power,
         NEW n, n = AddWeight(r, w, ts)
  PROVE  /\ n \in Candidates
         /\ n.power = P /\ n.rwt = R
         /\ P > 0 => n.avg = R \div P
         /\ n.row /\ n.active = r.active /\ n.voters = r.voters
<1> DEFINE p == r.power + w
           x == r.rwt + w * ts
<1>1. r.power \in Nat /\ r.rwt \in Nat /\ r.avg \in Nat
  BY DEF Candidates
<1>2. n = IF w = 0 THEN r
          ELSE IF p <= 0 THEN [r EXCEPT !.power = 0, !.rwt = 0, !.avg = 0]
          ELSE [r EXCEPT !.power = p, !.rwt = x, !.avg = x \div p]
  BY DEF AddWeight
<1>3. p = P /\ x = R
  OBVIOUS
<1>4. w = 0 => w * ts = 0
  OBVIOUS
<1>5. w = 0 => r.power = P /\ r.rwt = R
  BY <1>1, <1>4
<1> HIDE DEF p, x
<1>6. CASE w = 0
  <2>1. n = r
    BY <1>2, <1>6
  <2> QED
    BY <2>1, <1>5, <1>6
<1>7. CASE w # 0 /\ P = 0
  <2> DEFINE z == 0
  <2>1. z \in Nat /\ n = [r EXCEPT !.power = z, !.rwt = z, !.avg = z]
    BY <1>2, <1>3, <1>7
  <2>4. z = 0
    OBVIOUS
  <2> HIDE DEF z
  <2>2. /\ n.power = z /\ n.rwt = z
        /\ n.row /\ n.active = r.active /\ n.voters = r.voters
    BY <2>1 DEF Candidates
  <2>3. n \in Candidates
    BY <2>1 DEF Candidates
  <2> QED
    BY <2>2, <2>3, <2>4, <1>7
<1>8. CASE w # 0 /\ P > 0
  <2>1. R \div P \in Nat
    BY <1>8, QuotientNat
  <2>2. n = [r EXCEPT !.power = P, !.rwt = R, !.avg = R \div P]
    BY <1>2, <1>3, <1>8
  <2> DEFINE v == R \div P
  <2>3. v \in Nat /\ n = [r EXCEPT !.power = P, !.rwt = R, !.avg = v]
    BY <2>1, <2>2
  <2>4. v = R \div P
    OBVIOUS
  <2> HIDE DEF v
  <2>5. /\ n.power = P /\ n.rwt = R /\ n.avg = v
        /\ n.row /\ n.active = r.active /\ n.voters = r.voters
    BY <2>3 DEF Candidates
  <2>6. n \in Candidates
    BY <2>3 DEF Candidates
  <2> QED
    BY <2>4, <2>5, <2>6
<1>9. w = 0 \/ (w # 0 /\ P = 0) \/ (w # 0 /\ P > 0)
  OBVIOUS
<1> QED
  BY <1>6, <1>7, <1>8, <1>9

(* The values summed are natural numbers, over a finite set of voters.      *)
LEMMA SumsDefined ==
  ASSUME NEW wt \in [Accounts -> Nat], NEW bt \in [Accounts -> Ballots],
         NEW c \in Accounts
  PROVE  /\ IsFiniteSet(VotersOf(bt, c))
         /\ \A v \in VotersOf(bt, c) : wt[v] \in Nat
         /\ \A v \in VotersOf(bt, c) : Aged(wt, bt)[v] \in Nat
         /\ \A v \in Accounts : Aged(wt, bt)[v] = wt[v] * bt[v].ts
<1>1. VotersOf(bt, c) \in SUBSET Accounts
  BY DEF VotersOf
<1>2. IsFiniteSet(VotersOf(bt, c))
  BY <1>1, ConstantsAssumption, FS_Subset
<1>3. \A v \in Accounts : wt[v] \in Nat /\ bt[v].ts \in Nat
  BY DEF Ballots
<1>4. \A v \in Accounts : Aged(wt, bt)[v] = wt[v] * bt[v].ts
  BY DEF Aged
<1>5. \A v \in Accounts : Aged(wt, bt)[v] \in Nat
  BY <1>3, <1>4, NatProduct
<1> QED
  BY <1>1, <1>2, <1>3, <1>4, <1>5

(* If no voter of c has weight, the aged sum is zero too.                   *)
LEMMA ZeroPowerZeroAge ==
  ASSUME NEW wt \in [Accounts -> Nat], NEW bt \in [Accounts -> Ballots],
         NEW S \in SUBSET Accounts, Total(wt, S) = 0
  PROVE  Total(Aged(wt, bt), S) = 0
<1>1. IsFiniteSet(S)
  BY ConstantsAssumption, FS_Subset
<1>2. \A v \in S : wt[v] \in Nat /\ bt[v].ts \in Nat
  BY DEF Ballots
<1>3. \A v \in S : wt[v] = 0
  BY <1>1, <1>2, TotalZero
<1>4. \A v \in S : Aged(wt, bt)[v] = 0
  BY <1>2, <1>3 DEF Aged
<1> QED
  BY <1>1, <1>4, TotalZero

(* The weight of a changes from wt[a] to w, the candidates' tallies from cd *)
(* to cd1, the global ones from tt to tt1.                                  *)
WeightChange(wt, bt, a, w, cd, cd1, wt1) ==
  /\ wt1 = [wt EXCEPT ![a] = w]
  /\ cd1 = ObservedCands(cd, bt[a], w - wt[a])
TotalChange(wt, bt, a, w, dq, tt, tt1, wt1) ==
  /\ wt1 = [wt EXCEPT ![a] = w]
  /\ tt1 = ObservedTally(tt, bt[a], w - wt[a], dq)

(* weightobsv: when an account's weight changes from wt[a] to w, the tallies*)
(* of the candidates it votes for follow, whatever its vote.                *)
LEMMA ObservedSums ==
  ASSUME NEW cd \in [Accounts -> Candidates], NEW wt \in [Accounts -> Nat],
         NEW bt \in [Accounts -> Ballots], NEW a \in Accounts, NEW w \in Nat,
         NEW cd1, NEW wt1, WeightChange(wt, bt, a, w, cd, cd1, wt1),
         VotesForRows(cd, bt), Sums(cd, wt, bt)
  PROVE  /\ cd1 \in [Accounts -> Candidates]
         /\ Sums(cd1, wt1, bt)
         /\ \A c \in Accounts : /\ cd1[c].row <=> cd[c].row
                                /\ cd1[c].active = cd[c].active
                                /\ cd1[c].voters = cd[c].voters
<1> DEFINE dw == w - wt[a]
<1>0. cd1 = ObservedCands(cd, bt[a], dw) /\ wt1 = [wt EXCEPT ![a] = w]
  BY DEF WeightChange
<1>1. wt1 \in [Accounts -> Nat] /\ wt[a] \in Nat /\ dw \in Int
      /\ bt[a].ts \in Nat
  BY <1>0 DEF Ballots
<1>2. ASSUME NEW c \in Accounts
      PROVE  /\ cd1[c] \in Candidates
             /\ cd1[c].power = Total(wt1, VotersOf(bt, c))
             /\ cd1[c].rwt = Total(Aged(wt1, bt), VotersOf(bt, c))
             /\ cd1[c].power > 0 => cd1[c].avg = cd1[c].rwt \div cd1[c].power
             /\ cd1[c].row <=> cd[c].row
             /\ cd1[c].active = cd[c].active
             /\ cd1[c].voters = cd[c].voters
  <2> DEFINE V == VotersOf(bt, c)
             r == cd[c]
             f == Aged(wt, bt)
             f1 == Aged(wt1, bt)
             P == Total(wt1, V)
             R == Total(f1, V)
  <2>1. /\ r.power = Total(wt, V) /\ r.rwt = Total(f, V)
        /\ r.power > 0 => r.avg = r.rwt \div r.power
    BY DEF Sums
  <2>2. /\ IsFiniteSet(V)
        /\ \A v \in V : wt[v] \in Nat /\ wt1[v] \in Nat
        /\ \A v \in V : f[v] \in Nat /\ f1[v] \in Nat
        /\ \A v \in Accounts : f[v] = wt[v] * bt[v].ts
        /\ \A v \in Accounts : f1[v] = wt1[v] * bt[v].ts
    BY <1>1, SumsDefined
  <2>3. \A v \in V \ {a} : wt[v] = wt1[v] /\ f[v] = f1[v]
    BY <2>2, <1>0 DEF VotersOf
  <2>4. a \in V <=> c \in bt[a].cands
    BY DEF VotersOf
  <2>5. P \in Nat /\ R \in Nat
    BY <2>2, TotalNat
  <2>6. CASE c \notin bt[a].cands
    <3>1. cd1[c] = r
      BY <2>6, <1>0 DEF ObservedCands, Moved, Left
    <3>2. P = Total(wt, V) /\ R = Total(f, V)
      <4>1. V \ {a} = V
        BY <2>4, <2>6
      <4> QED
        BY <2>3, <4>1, TotalSame
    <3> QED
      BY <3>1, <3>2, <2>1
  <2>7. CASE c \in bt[a].cands
    <3>1. cd1[c] = AddWeight(r, dw, bt[a].ts)
      BY <2>7, <1>0 DEF ObservedCands, Moved, Left
    <3>2. /\ Total(wt, V) = Total(wt, V \ {a}) + wt[a]
          /\ P = Total(wt1, V \ {a}) + wt1[a]
          /\ Total(f, V) = Total(f, V \ {a}) + f[a]
          /\ R = Total(f1, V \ {a}) + f1[a]
          /\ Total(wt, V \ {a}) \in Nat /\ Total(f, V \ {a}) \in Nat
      <4> HIDE DEF V, f, f1
      <4>1. /\ Total(wt, V) = Total(wt, V \ {a}) + wt[a]
            /\ Total(wt, V \ {a}) \in Nat
        BY <2>2, <2>4, <2>7, TotalRemove
      <4>2. P = Total(wt1, V \ {a}) + wt1[a]
        BY <2>2, <2>4, <2>7, TotalRemove
      <4>3. /\ Total(f, V) = Total(f, V \ {a}) + f[a]
            /\ Total(f, V \ {a}) \in Nat
        BY <2>2, <2>4, <2>7, TotalRemove
      <4>4. R = Total(f1, V \ {a}) + f1[a]
        BY <2>2, <2>4, <2>7, TotalRemove
      <4> QED
        BY <4>1, <4>2, <4>3, <4>4
    <3>3. Total(wt, V \ {a}) = Total(wt1, V \ {a})
          /\ Total(f, V \ {a}) = Total(f1, V \ {a})
      BY <2>3, TotalSame
    <3>4. f[a] = wt[a] * bt[a].ts /\ f1[a] = w * bt[a].ts
          /\ f[a] \in Nat /\ f1[a] \in Nat /\ wt1[a] = w
      BY <2>2, <2>4, <2>7, <1>0
    <3>5. f[a] + dw * bt[a].ts = f1[a]
      BY <3>4, <1>1, DeltaProduct
    <3>6. r.power + dw = P
      BY <2>1, <3>2, <3>3, <3>4, <1>1
    <3>7. dw * bt[a].ts \in Int
      BY <1>1, IntProduct
    <3>8. r.rwt + dw * bt[a].ts = R
      BY <2>1, <3>2, <3>3, <3>4, <3>5, <3>7
    <3>9. P = 0 => R = 0
      <4>1. V \in SUBSET Accounts
        BY DEF VotersOf
      <4> QED
        BY <1>1, <4>1, ZeroPowerZeroAge
    <3>10. r \in Candidates /\ r.row
      BY <2>7 DEF VotesForRows
    <3> HIDE DEF P, R, r, dw
    <3>11. /\ cd1[c] \in Candidates
           /\ cd1[c].power = P /\ cd1[c].rwt = R
           /\ P > 0 => cd1[c].avg = R \div P
           /\ cd1[c].row /\ cd1[c].active = r.active
           /\ cd1[c].voters = r.voters
      BY <3>1, <3>6, <3>8, <3>9, <3>10, <2>1, <2>5, <1>1, AddWeightExact
    <3> QED
      BY <3>10, <3>11 DEF P, R, r
  <2> QED
    BY <2>6, <2>7
<1>3. DOMAIN cd1 = Accounts /\ cd1 = [c \in Accounts |-> cd1[c]]
  BY <1>0 DEF ObservedCands
<1> QED
  BY <1>2, <1>3 DEF Sums

(* ... and so does the total of the votes cast.                            *)
LEMMA ObservedVotes ==
  ASSUME NEW wt \in [Accounts -> Nat], NEW bt \in [Accounts -> Ballots],
         NEW a \in Accounts, NEW w \in Nat, NEW dq \in Int,
         NEW tt \in [weight : Int, votes : Int],
         NEW tt1, NEW wt1, TotalChange(wt, bt, a, w, dq, tt, tt1, wt1),
         bt[a].cands # {} => bt[a].row,
         tt.votes = Total(wt, Casting(bt))
  PROVE  tt1.votes = Total(wt1, Casting(bt))
<1> DEFINE C == Casting(bt)
           dw == w - wt[a]
<1>0. tt1 = ObservedTally(tt, bt[a], dw, dq) /\ wt1 = [wt EXCEPT ![a] = w]
  BY DEF TotalChange
<1>1. /\ IsFiniteSet(C)
      /\ \A v \in C : wt[v] \in Nat /\ wt1[v] \in Nat
      /\ \A v \in C \ {a} : wt[v] = wt1[v]
      /\ wt1[a] = w /\ wt[a] \in Nat /\ tt.votes \in Int
  BY <1>0, ConstantsAssumption, FS_Subset DEF Casting
<1>2. Total(wt, C \ {a}) = Total(wt1, C \ {a})
  BY <1>1, TotalSame
<1>3. CASE bt[a].cands = {}
  <2>1. a \notin C
    BY <1>3 DEF Casting
  <2>2. C \ {a} = C
    BY <2>1
  <2>3. tt1 = tt \/ tt1.votes = tt.votes + 0 * dw
    BY <1>0, <1>3 DEF ObservedTally, Tallied
  <2>4. tt1.votes = tt.votes
    BY <1>1, <2>3
  <2>5. Total(wt, C) = Total(wt1, C)
    BY <1>2, <2>2
  <2> QED
    BY <2>4, <2>5
<1>4. CASE bt[a].cands # {}
  <2>1. a \in C
    BY <1>4 DEF Casting
  <2>2. /\ Total(wt, C) = Total(wt, C \ {a}) + wt[a]
        /\ Total(wt1, C) = Total(wt1, C \ {a}) + w
        /\ Total(wt, C \ {a}) \in Nat
    <3> HIDE DEF C
    <3>1. /\ Total(wt, C) = Total(wt, C \ {a}) + wt[a]
          /\ Total(wt, C \ {a}) \in Nat
      BY <1>1, <2>1, TotalRemove
    <3>2. Total(wt1, C) = Total(wt1, C \ {a}) + wt1[a]
      BY <1>1, <2>1, TotalRemove
    <3> QED
      BY <1>1, <3>1, <3>2
  <2>3. (dw = 0 /\ tt1 = tt) \/ tt1.votes = tt.votes + 1 * dw
    BY <1>0, <1>4 DEF ObservedTally, Tallied
  <2> QED
    BY <1>1, <1>2, <2>2, <2>3
<1> QED
  BY <1>3, <1>4

(* The ballot of a becomes b, the table of ballots bt1.                     *)
Recast(bt, a, b, bt1) == bt1 = [bt EXCEPT ![a] = b]

(* A candidate c whose row r is exact.                                      *)
RowExact(r, wt, bt, c) ==
  /\ r \in Candidates
  /\ r.power = Total(wt, VotersOf(bt, c))
  /\ r.rwt = Total(Aged(wt, bt), VotersOf(bt, c))
  /\ r.power > 0 => r.avg = r.rwt \div r.power

(* A candidate's row r after the voter a moved its whole weight to b.       *)
RowMoved(n, r, wt, bt, a, b, t, c) ==
  n = Moved(r, c, wt[a], bt[a].cands, bt[a].ts, b.cands, t)

(* One voter's ballot changes: its weight leaves the candidates of the old  *)
(* vote with the old time and arrives at those of the new with the present. *)
LEMMA RecastSums ==
  ASSUME NEW cd \in [Accounts -> Candidates], NEW wt \in [Accounts -> Nat],
         NEW bt \in [Accounts -> Ballots], NEW a \in Accounts,
         NEW b \in Ballots, NEW t \in Nat, b.cands # {} => b.ts = t,
         NEW c \in Accounts, NEW r, RowExact(r, wt, bt, c),
         c \in bt[a].cands \cup b.cands => r.row,
         NEW n, RowMoved(n, r, wt, bt, a, b, t, c),
         NEW bt1, Recast(bt, a, b, bt1)
  PROVE  /\ RowExact(n, wt, bt1, c)
         /\ (n.row <=> r.row) /\ n.active = r.active /\ n.voters = r.voters
<1> DEFINE V == VotersOf(bt, c)
           V1 == VotersOf(bt1, c)
           f == Aged(wt, bt)
           f1 == Aged(wt, bt1)
           w == wt[a]
           r1 == Left(r, c, w, bt[a].cands, bt[a].ts)
           P0 == Total(wt, V \ {a})
           R0 == Total(f, V \ {a})
           P == Total(wt, V1)
           R == Total(f1, V1)
<1>0. /\ r \in Candidates
      /\ r.power = Total(wt, VotersOf(bt, c))
      /\ r.rwt = Total(Aged(wt, bt), VotersOf(bt, c))
      /\ r.power > 0 => r.avg = r.rwt \div r.power
      /\ n = Moved(r, c, wt[a], bt[a].cands, bt[a].ts, b.cands, t)
  BY DEF RowExact, RowMoved
<1>1. /\ bt1 \in [Accounts -> Ballots] /\ w \in Nat
      /\ bt[a].ts \in Nat /\ b.ts \in Nat /\ bt1[a] = b
      /\ \A v \in Accounts \ {a} : bt1[v] = bt[v]
  BY DEF Ballots, Recast
<1>2. /\ IsFiniteSet(V) /\ V \in SUBSET Accounts
      /\ \A v \in V : wt[v] \in Nat /\ f[v] \in Nat
      /\ \A v \in Accounts : f[v] = wt[v] * bt[v].ts
  <2>1. V \in SUBSET Accounts
    BY DEF VotersOf
  <2> QED
    BY <2>1, SumsDefined
<1>3. /\ IsFiniteSet(V1) /\ V1 \in SUBSET Accounts
      /\ \A v \in V1 : wt[v] \in Nat /\ f1[v] \in Nat
      /\ \A v \in Accounts : f1[v] = wt[v] * bt1[v].ts
  <2>1. V1 \in SUBSET Accounts
    BY DEF VotersOf
  <2> QED
    BY <1>1, <2>1, SumsDefined
<1>4. /\ V1 \ {a} = V \ {a}
      /\ \A v \in V \ {a} : f[v] = f1[v]
      /\ a \in V <=> c \in bt[a].cands
      /\ a \in V1 <=> c \in b.cands
  BY <1>1, <1>2, <1>3 DEF VotersOf
<1>5. P0 \in Nat /\ R0 \in Nat /\ P \in Nat /\ R \in Nat
  <2>1. IsFiniteSet(V \ {a})
    BY <1>2, FS_RemoveElement
  <2> QED
    BY <1>2, <1>3, <2>1, TotalNat
<1>6. P0 = 0 => R0 = 0
  <2>1. V \ {a} \in SUBSET Accounts
    BY <1>2
  <2> QED
    BY <2>1, ZeroPowerZeroAge
<1>7. P = 0 => R = 0
  BY <1>1, <1>3, ZeroPowerZeroAge
<1>8. /\ r1 \in Candidates /\ r1.power = P0 /\ r1.rwt = R0
      /\ P0 > 0 => r1.avg = R0 \div P0
      /\ (r1.row <=> r.row) /\ r1.active = r.active /\ r1.voters = r.voters
  <2>1. CASE c \notin bt[a].cands
    <3>1. r1 = r /\ V \ {a} = V
      BY <2>1, <1>4 DEF Left
    <3> QED
      BY <1>0, <3>1
  <2>2. CASE c \in bt[a].cands
    <3>1. r1 = AddWeight(r, -w, bt[a].ts)
      BY <2>2 DEF Left
    <3>2. /\ Total(wt, V) = P0 + wt[a]
          /\ Total(f, V) = R0 + f[a]
      BY <1>2, <1>4, <2>2, TotalRemove
    <3>3. f[a] = w * bt[a].ts /\ f[a] \in Nat
      BY <1>2, <1>4, <2>2
    <3>4. (-w) * bt[a].ts = -f[a]
      BY <1>1, <3>3, NegProduct
    <3>5. r.power + (-w) = P0
      BY <3>2, <1>0, <1>1, <1>5
    <3>6. r.rwt + (-w) * bt[a].ts = R0
      BY <3>2, <3>3, <3>4, <1>0, <1>5
    <3>7. -w \in Int /\ r.row
      BY <1>1, <2>2
    <3> HIDE DEF P0, R0, r1, w
    <3> QED
      BY <3>1, <3>5, <3>6, <3>7, <1>0, <1>1, <1>5, <1>6, AddWeightExact
  <2> QED
    BY <2>1, <2>2
<1>9. /\ n \in Candidates /\ n.power = P /\ n.rwt = R
      /\ P > 0 => n.avg = R \div P
      /\ (n.row <=> r1.row) /\ n.active = r1.active /\ n.voters = r1.voters
  <2>0. R0 = Total(f1, V \ {a})
    BY <1>4, TotalSame
  <2>1. CASE c \notin b.cands
    <3>1. n = r1
      BY <1>0, <2>1 DEF Moved
    <3>2. V1 = V \ {a}
      BY <2>1, <1>4
    <3>3. P = P0 /\ R = R0
      BY <3>2, <2>0
    <3> HIDE DEF P, R, P0, R0, r1
    <3> QED
      BY <3>1, <3>3, <1>8
  <2>2. CASE c \in b.cands
    <3>1. n = AddWeight(r1, w, t)
      BY <1>0, <2>2 DEF Moved
    <3>2. /\ P = Total(wt, V1 \ {a}) + wt[a]
          /\ R = Total(f1, V1 \ {a}) + f1[a]
      <4> HIDE DEF V1, f1
      <4>0. /\ IsFiniteSet(V1) /\ a \in V1
            /\ \A v \in V1 : wt[v] \in Nat /\ f1[v] \in Nat
        BY <1>3, <1>4, <2>2
      <4>1. P = Total(wt, V1 \ {a}) + wt[a]
        BY <4>0, TotalRemove
      <4>2. R = Total(f1, V1 \ {a}) + f1[a]
        BY <4>0, TotalRemove
      <4> QED
        BY <4>1, <4>2
    <3>3. P = P0 + w /\ R = R0 + f1[a]
      BY <3>2, <2>0, <1>4
    <3>4. f1[a] = w * t
      BY <1>1, <1>3, <2>2
    <3>5. r1.power + w = P /\ r1.rwt + w * t = R
      BY <3>3, <3>4, <1>8
    <3>6. w \in Int /\ r1.row
      BY <1>1, <1>8, <2>2
    <3>7. r1 \in Candidates /\ (r1.power > 0 => r1.avg = r1.rwt \div r1.power)
      BY <1>8
    <3> HIDE DEF P, R, r1, w
    <3> QED
      BY <3>1, <3>5, <3>6, <3>7, <1>5, <1>7, AddWeightExact
  <2> QED
    BY <2>1, <2>2
<1> HIDE DEF P, R, r1, P0, R0
<1>10. n.power > 0 => n.avg = n.rwt \div n.power
  BY <1>9
<1> QED
  BY <1>8, <1>9, <1>10 DEF P, R, RowExact

(* The total of the votes cast follows a change of ballot.                  *)
LEMMA RecastVotes ==
  ASSUME NEW wt \in [Accounts -> Nat], NEW bt \in [Accounts -> Ballots],
         NEW a \in Accounts, NEW b \in Ballots, NEW dq \in Int,
         NEW tt \in [weight : Int, votes : Int],
         tt.votes = Total(wt, Casting(bt)),
         NEW bt1, Recast(bt, a, b, bt1)
  PROVE  Tallied(tt, wt[a], dq, bt[a].cands, b.cands).votes =
           Total(wt, Casting(bt1))
<1> DEFINE C == Casting(bt)
           C1 == Casting(bt1)
           w == wt[a]
           P0 == Total(wt, C \ {a})
           tt1 == Tallied(tt, w, dq, bt[a].cands, b.cands)
<1>1. /\ IsFiniteSet(C) /\ IsFiniteSet(C1)
      /\ \A v \in C \cup C1 : wt[v] \in Nat
      /\ C \ {a} = C1 \ {a}
      /\ a \in C <=> bt[a].cands # {}
      /\ a \in C1 <=> b.cands # {}
      /\ w \in Nat /\ tt.votes \in Int
  BY ConstantsAssumption, FS_Subset DEF Casting, Recast
<1>2. /\ P0 \in Nat
      /\ a \in C => Total(wt, C) = P0 + w
      /\ a \notin C => Total(wt, C) = P0
      /\ a \in C1 => Total(wt, C1) = P0 + w
      /\ a \notin C1 => Total(wt, C1) = P0
  <2> HIDE DEF C, C1
  <2>1. /\ Total(wt, C \ {a}) \in Nat
        /\ a \in C => Total(wt, C) = Total(wt, C \ {a}) + w
        /\ a \notin C => Total(wt, C) = Total(wt, C \ {a})
    BY <1>1, TotalRemove
  <2>2. /\ a \in C1 => Total(wt, C1) = Total(wt, C1 \ {a}) + w
        /\ a \notin C1 => Total(wt, C1) = Total(wt, C1 \ {a})
    BY <1>1, TotalRemove
  <2> QED
    BY <1>1, <2>1, <2>2
<1>3. CASE w = 0
  <2>1. tt1 = tt
    BY <1>3 DEF Tallied
  <2> QED
    BY <2>1, <1>1, <1>2, <1>3
<1>4. CASE w # 0
  <2> DEFINE sign == (IF bt[a].cands = {} THEN 1 ELSE 0)
                       - (IF b.cands = {} THEN 1 ELSE 0)
  <2>1. tt1.votes = tt.votes + sign * w
    BY <1>4 DEF Tallied
  <2>2. sign * w = (IF bt[a].cands = {} THEN w ELSE 0)
                     - (IF b.cands = {} THEN w ELSE 0)
    BY <1>1
  <2> HIDE DEF sign, tt1, P0, C, C1
  <2>3. tt1.votes = P0 + (IF b.cands = {} THEN 0 ELSE w)
    <3>1. tt.votes = P0 + (IF bt[a].cands = {} THEN 0 ELSE w)
      BY <1>1, <1>2 DEF C
    <3> QED
      BY <2>1, <2>2, <3>1, <1>1, <1>2
  <2>4. Total(wt, C1) = P0 + (IF b.cands = {} THEN 0 ELSE w)
    BY <1>1, <1>2
  <2> QED
    BY <2>3, <2>4 DEF tt1, C1
<1> QED
  BY <1>3, <1>4

-----------------------------------------------------------------------------
(* The inductive invariant of the tallies                                   *)

(* Votes and memberships are those of accounts that ever join; no vote is   *)
(* from the future; an active candidate has a row.                          *)
Registered ==
  /\ \A a \in Accounts : /\ ballot[a].cands # {} => ballot[a].row
                         /\ ballot[a].row => a \in Joiners
                         /\ member[a] # "none" => a \in Joiners
                         /\ ballot[a].ts <= now
  /\ \A c \in Accounts : cand[c].active => cand[c].row

VotersCounted ==
  \A c \in Accounts : cand[c].voters = Cardinality(VotersOf(ballot, c))

Exact ==
  /\ TypeOK
  /\ Registered
  /\ VotesForRows(cand, ballot)
  /\ VotersCounted
  /\ Sums(cand, weight, ballot)
  /\ VotesTotalIsSum

(* Whatever leaves the ballots alone and keeps the rows and voter counts    *)
(* keeps the parts of the invariant that are not about weights.             *)
LEMMA KeepsVoters ==
  ASSUME Exact, UNCHANGED <<member, ballot>>, now' = now,
         \A c \in Accounts : /\ cand'[c].row <=> cand[c].row
                             /\ cand'[c].active = cand[c].active
                             /\ cand'[c].voters = cand[c].voters
  PROVE  Registered' /\ VotesForRows(cand, ballot)' /\ VotersCounted'
<1>1. VotesForRows(cand, ballot)'
  BY DEF Exact, VotesForRows
<1>2. VotersCounted'
  BY DEF Exact, VotersCounted, VotersOf
<1>3. Registered'
  BY DEF Exact, Registered
<1> QED
  BY <1>1, <1>2, <1>3

(* What the invariant says of a ballot, in the form of the lemmas.          *)
LEMMA ExactFacts ==
  ASSUME Exact
  PROVE  /\ cand \in [Accounts -> Candidates]
         /\ weight \in [Accounts -> Nat]
         /\ quorum \in [Accounts -> Nat]
         /\ ballot \in [Accounts -> Ballots]
         /\ tally \in [weight : Int, votes : Int]
         /\ VotesForRows(cand, ballot)
         /\ Sums(cand, weight, ballot)
         /\ tally.votes = Total(weight, Casting(ballot))
         /\ \A a \in Accounts : ballot[a].cands # {} => ballot[a].row
BY DEF Exact, TypeOK, Registered, VotesTotalIsSum

LEMMA StakeObservedExact ==
  ASSUME Exact, TypeOK',
         NEW a \in Accounts, NEW s \in Nat, NEW d \in MinStakeTime .. MaxStakeTime,
         StakeObserved(a, s, d)
  PROVE  Exact'
<1> DEFINE w == StakeWeight(s, d, multiplier)
           dw == w - weight[a]
           dq == s - quorum[a]
<1>1. /\ UNCHANGED <<member, ballot>> /\ now' = now
  BY DEF StakeObserved
<1>2. CASE ~StakeWeighted
  <2>1. UNCHANGED <<weight, cand, tally>>
    BY <1>2 DEF StakeObserved
  <2>2. Registered' /\ VotesForRows(cand, ballot)' /\ VotersCounted'
    BY <1>1, <2>1, KeepsVoters
  <2>3. Sums(cand, weight, ballot)'
    BY <1>1, <2>1 DEF Exact, Sums, VotersOf, Aged
  <2>4. VotesTotalIsSum'
    BY <1>1, <2>1 DEF Exact, VotesTotalIsSum, Casting
  <2> QED
    BY <2>2, <2>3, <2>4 DEF Exact
<1>3. CASE StakeWeighted
  <2>1. /\ weight' = [weight EXCEPT ![a] = w]
        /\ cand' = ObservedCands(cand, ballot[a], dw)
        /\ tally' = ObservedTally(tally, ballot[a], dw, dq)
    BY <1>3 DEF StakeObserved
  <2>2. w \in Nat /\ dq \in Int
    BY StakeWeightNat DEF Exact, TypeOK
  <2> HIDE DEF w, dq
  <2>7. /\ WeightChange(weight, ballot, a, w, cand, cand', weight')
        /\ TotalChange(weight, ballot, a, w, dq, tally, tally', weight')
    BY <2>1 DEF WeightChange, TotalChange
  <2>3. /\ Sums(cand', weight', ballot)
        /\ \A c \in Accounts : /\ cand'[c].row <=> cand[c].row
                               /\ cand'[c].active = cand[c].active
                               /\ cand'[c].voters = cand[c].voters
    BY <2>2, <2>7, ExactFacts, ObservedSums, SMTT(60)
  <2>4. tally'.votes = Total(weight', Casting(ballot))
    <3>1. ballot[a].cands # {} => ballot[a].row
      BY ExactFacts
    <3> QED
      BY <2>2, <2>7, <3>1, ExactFacts, ObservedVotes, SMTT(60)
  <2>5. Registered' /\ VotesForRows(cand, ballot)' /\ VotersCounted'
    BY <1>1, <2>3, KeepsVoters, Zenon
  <2>6. Sums(cand, weight, ballot)' /\ VotesTotalIsSum'
    <3>1. Sums(cand, weight, ballot)'
      BY <1>1, <2>3 DEF Sums, VotersOf, Aged
    <3>2. VotesTotalIsSum'
      BY <1>1, <2>4 DEF VotesTotalIsSum, Casting
    <3> QED
      BY <3>1, <3>2
  <2> QED
    BY <2>5, <2>6 DEF Exact
<1> QED
  BY <1>2, <1>3

LEMMA BurnExact ==
  ASSUME Exact, TypeOK', NEW f \in Accounts, NEW q \in Nat, Burn(f, q)
  PROVE  Exact'
<1> DEFINE w == weight[f] - q
           dw == -q
<1>1. UNCHANGED <<member, ballot>> /\ now' = now
  BY DEF Burn, tokenVars
<1>2. w \in Nat /\ dw = w - weight[f] /\ dw \in Int
  BY DEF Exact, TypeOK, Burn
<1>3. /\ weight' = [weight EXCEPT ![f] = w]
      /\ cand' = ObservedCands(cand, ballot[f], dw)
      /\ tally' = ObservedTally(tally, ballot[f], dw, dw)
  BY DEF Burn
<1> HIDE DEF w, dw
<1>4. /\ WeightChange(weight, ballot, f, w, cand, cand', weight')
      /\ TotalChange(weight, ballot, f, w, dw, tally, tally', weight')
  BY <1>2, <1>3 DEF WeightChange, TotalChange
<1>5. /\ Sums(cand', weight', ballot)
      /\ \A c \in Accounts : /\ cand'[c].row <=> cand[c].row
                             /\ cand'[c].active = cand[c].active
                             /\ cand'[c].voters = cand[c].voters
  BY <1>2, <1>4, ExactFacts, ObservedSums, SMTT(60)
<1>6. tally'.votes = Total(weight', Casting(ballot))
  BY <1>2, <1>4, ExactFacts, ObservedVotes, SMTT(60)
<1>7. Registered' /\ VotesForRows(cand, ballot)' /\ VotersCounted'
  BY <1>1, <1>5, KeepsVoters
<1>8. Sums(cand, weight, ballot)' /\ VotesTotalIsSum'
  <2>1. Sums(cand, weight, ballot)'
    BY <1>1, <1>5 DEF Sums, VotersOf, Aged
  <2>2. VotesTotalIsSum'
    BY <1>1, <1>6 DEF VotesTotalIsSum, Casting
  <2> QED
    BY <2>1, <2>2
<1> QED
  BY <1>7, <1>8 DEF Exact

(* Two notices, one after the other: the second sees the first's tallies.   *)
LEMMA TransferExact ==
  ASSUME Exact, TypeOK', NEW f \in Accounts, NEW t \in Accounts, NEW q \in Nat,
         Transfer(f, t, q)
  PROVE  Exact'
<1> DEFINE dw == -q
           w1 == weight[f] - q
           wt1 == [weight EXCEPT ![f] = w1]
           cd1 == ObservedCands(cand, ballot[f], dw)
           tt1 == ObservedTally(tally, ballot[f], dw, dw)
           w2 == weight[t] + q
<1>1. UNCHANGED <<member, ballot>> /\ now' = now
  BY DEF Transfer, tokenVars
<1>2. /\ w1 \in Nat /\ dw = w1 - weight[f] /\ dw \in Int /\ q \in Int
      /\ w2 \in Nat /\ q = w2 - weight[t]
      /\ wt1 \in [Accounts -> Nat] /\ wt1[t] = weight[t]
  BY DEF Exact, TypeOK, Transfer
<1>3. ObserveAllowed(cand, ballot[f], dw)
  BY DEF Transfer
<1>4. /\ weight' = [weight EXCEPT ![f] = @ - q, ![t] = @ + q]
      /\ f # t
      /\ cand' = ObservedCands(cd1, ballot[t], q)
      /\ tally' = ObservedTally(tt1, ballot[t], q, q)
  BY DEF Transfer
<1>5. weight' = [wt1 EXCEPT ![t] = w2]
  BY <1>4 DEF Exact, TypeOK
<1>6. ballot[f] \in Ballots /\ ballot[t] \in Ballots
  BY DEF Exact, TypeOK
<1>7. tt1 \in [weight : Int, votes : Int]
  BY <1>2, <1>3, <1>6, ObservedType DEF Exact, TypeOK
<1>8. /\ WeightChange(weight, ballot, f, w1, cand, cd1, wt1)
      /\ TotalChange(weight, ballot, f, w1, dw, tally, tt1, wt1)
  BY <1>2 DEF WeightChange, TotalChange
<1>9. /\ WeightChange(wt1, ballot, t, w2, cd1, cand', weight')
      /\ TotalChange(wt1, ballot, t, w2, q, tt1, tally', weight')
  BY <1>2, <1>4, <1>5 DEF WeightChange, TotalChange
<1>20. /\ w1 \in Nat /\ w2 \in Nat /\ dw \in Int /\ q \in Int
       /\ wt1 \in [Accounts -> Nat]
  BY <1>2
<1> HIDE DEF dw, w1, wt1, cd1, tt1, w2
<1>10. /\ cd1 \in [Accounts -> Candidates]
       /\ Sums(cd1, wt1, ballot)
       /\ \A c \in Accounts : /\ cd1[c].row <=> cand[c].row
                              /\ cd1[c].active = cand[c].active
                              /\ cd1[c].voters = cand[c].voters
  <2>1. /\ weight \in [Accounts -> Nat] /\ ballot \in [Accounts -> Ballots]
        /\ cand \in [Accounts -> Candidates]
        /\ VotesForRows(cand, ballot) /\ Sums(cand, weight, ballot)
    BY ExactFacts
  <2>2. WeightChange(weight, ballot, f, w1, cand, cd1, wt1)
    BY <1>8
  <2> QED
    BY <1>20, <2>1, <2>2, ObservedSums, SMTT(60)
<1>11. VotesForRows(cd1, ballot)
  BY <1>10, ExactFacts DEF VotesForRows
<1>12. /\ Sums(cand', weight', ballot)
       /\ \A c \in Accounts : /\ cand'[c].row <=> cd1[c].row
                              /\ cand'[c].active = cd1[c].active
                              /\ cand'[c].voters = cd1[c].voters
  <2>1. ballot \in [Accounts -> Ballots]
    BY ExactFacts
  <2>2. WeightChange(wt1, ballot, t, w2, cd1, cand', weight')
    BY <1>9
  <2> QED
    BY <1>20, <1>10, <1>11, <2>1, <2>2, ObservedSums, SMTT(60)
<1>13. /\ ballot[f].cands # {} => ballot[f].row
       /\ ballot[t].cands # {} => ballot[t].row
  BY ExactFacts
<1>14. tt1.votes = Total(wt1, Casting(ballot))
  <2>1. /\ weight \in [Accounts -> Nat] /\ ballot \in [Accounts -> Ballots]
        /\ tally \in [weight : Int, votes : Int]
        /\ tally.votes = Total(weight, Casting(ballot))
        /\ ballot[f].cands # {} => ballot[f].row
    BY <1>13, ExactFacts
  <2>2. TotalChange(weight, ballot, f, w1, dw, tally, tt1, wt1)
    BY <1>8
  <2> QED
    BY <1>20, <2>1, <2>2, ObservedVotes, SMTT(60)
<1>15. tally'.votes = Total(weight', Casting(ballot))
  <2>1. /\ ballot \in [Accounts -> Ballots]
        /\ ballot[t].cands # {} => ballot[t].row
    BY <1>13, ExactFacts
  <2>2. TotalChange(wt1, ballot, t, w2, q, tt1, tally', weight')
    BY <1>9
  <2> QED
    BY <1>20, <1>7, <1>14, <2>1, <2>2, ObservedVotes, SMTT(60)
<1>16. \A c \in Accounts : /\ cand'[c].row <=> cand[c].row
                           /\ cand'[c].active = cand[c].active
                           /\ cand'[c].voters = cand[c].voters
  BY <1>10, <1>12
<1>17. Registered' /\ VotesForRows(cand, ballot)' /\ VotersCounted'
  BY <1>1, <1>16, KeepsVoters
<1>18. Sums(cand, weight, ballot)'
  BY <1>1, <1>12 DEF Sums, VotersOf, Aged
<1>19. VotesTotalIsSum'
  BY <1>1, <1>15 DEF VotesTotalIsSum, Casting
<1> QED
  BY <1>17, <1>18, <1>19 DEF Exact

(* issue tells nobody: the tallies stay exact because the issuer, which     *)
(* never joins, has no vote.                                                *)
LEMMA IssueExact ==
  ASSUME Exact, TypeOK', NEW q \in Nat, Issue(q),
         StakeWeighted \/ Issuer \notin Joiners
  PROVE  Exact'
<1>1. /\ UNCHANGED <<member, ballot, cand, tally>> /\ now' = now
      /\ weight' = [weight EXCEPT ![Issuer] = @ + q]
      /\ Issuer \notin Joiners
  BY DEF Issue, tokenVars, voteVars
<1>2. Issuer \in Accounts /\ ballot[Issuer].cands = {}
  BY <1>1, ConstantsAssumption DEF Exact, Registered
<1>3. \A v \in Accounts \ {Issuer} : weight'[v] = weight[v]
  BY <1>1 DEF Exact, TypeOK
<1>4. ASSUME NEW c \in Accounts
      PROVE  /\ Total(weight', VotersOf(ballot, c)) =
                  Total(weight, VotersOf(ballot, c))
             /\ Total(Aged(weight', ballot), VotersOf(ballot, c)) =
                  Total(Aged(weight, ballot), VotersOf(ballot, c))
  <2>1. VotersOf(ballot, c) \subseteq Accounts \ {Issuer}
    BY <1>2 DEF VotersOf
  <2>2. \A v \in VotersOf(ballot, c) : weight'[v] = weight[v]
    BY <1>3, <2>1
  <2>3. \A v \in VotersOf(ballot, c) :
          Aged(weight', ballot)[v] = Aged(weight, ballot)[v]
    BY <2>1, <2>2 DEF Aged
  <2> QED
    BY <2>2, <2>3, TotalSame
<1>5. Total(weight', Casting(ballot)) = Total(weight, Casting(ballot))
  <2>1. Casting(ballot) \subseteq Accounts \ {Issuer}
    BY <1>2 DEF Casting
  <2> QED
    BY <1>3, <2>1, TotalSame
<1>6. Registered' /\ VotesForRows(cand, ballot)' /\ VotersCounted'
  BY <1>1, KeepsVoters
<1>7. Sums(cand, weight, ballot)'
  <2>1. Sums(cand, weight', ballot)
    BY <1>4 DEF Exact, Sums
  <2>2. UNCHANGED <<cand, ballot>>
    BY <1>1
  <2> QED
    BY <2>1, <2>2 DEF Sums, VotersOf, Aged
<1>8. VotesTotalIsSum'
  <2>1. tally.votes = Total(weight', Casting(ballot))
    BY <1>5 DEF Exact, VotesTotalIsSum
  <2> QED
    BY <1>1, <2>1 DEF VotesTotalIsSum, Casting
<1> QED
  BY <1>6, <1>7, <1>8 DEF Exact

(* The recount changes nothing but the number of voters, by one.            *)
LEMMA CountedRow ==
  ASSUME Exact, NEW a \in Accounts, NEW new \in SUBSET Accounts,
         VoteCust(a, new), NEW c \in Accounts,
         NEW r, r = CountedCands(a, new)[c]
  PROVE  /\ r.power = cand[c].power /\ r.rwt = cand[c].rwt /\ r.avg = cand[c].avg
         /\ (r.row <=> cand[c].row) /\ r.active = cand[c].active
         /\ r.voters = cand[c].voters
              - (IF c \in ballot[a].cands THEN 1 ELSE 0)
              + (IF c \in new THEN 1 ELSE 0)
<1> DEFINE old == ballot[a].cands
           n1 == IF c \in old /\ cand[c].row THEN cand[c].voters - 1
                 ELSE cand[c].voters
           n2 == IF c \in new /\ cand[c].row THEN n1 + 1 ELSE n1
<1>1. cand[c] \in Candidates /\ cand[c].voters \in Nat
  BY DEF Exact, TypeOK, Candidates
<1>2. c \in old \cup new => cand[c].row
  BY DEF Exact, Registered, VotesForRows, VoteCust
<1>3. r = [cand[c] EXCEPT !.voters = n2]
  BY DEF CountedCands, Counted
<1>4. n2 = cand[c].voters - (IF c \in old THEN 1 ELSE 0)
             + (IF c \in new THEN 1 ELSE 0)
  BY <1>1, <1>2
<1> HIDE DEF n2
<1>5. /\ r.power = cand[c].power /\ r.rwt = cand[c].rwt /\ r.avg = cand[c].avg
      /\ (r.row <=> cand[c].row) /\ r.active = cand[c].active
      /\ r.voters = n2
  BY <1>1, <1>3 DEF Candidates
<1> QED
  BY <1>4, <1>5

(* The voters of c after a has cast b: a comes or goes, nobody else does.   *)
LEMMA RecastVoters ==
  ASSUME NEW bt \in [Accounts -> Ballots], NEW a \in Accounts,
         NEW b \in Ballots, NEW bt1, Recast(bt, a, b, bt1),
         NEW c \in Accounts
  PROVE  Cardinality(VotersOf(bt1, c)) =
           Cardinality(VotersOf(bt, c))
             - (IF c \in bt[a].cands THEN 1 ELSE 0)
             + (IF c \in b.cands THEN 1 ELSE 0)
<1> DEFINE V == VotersOf(bt, c)
           V1 == VotersOf(bt1, c)
           W == V \ {a}
<1>1. /\ IsFiniteSet(V) /\ IsFiniteSet(V1)
      /\ W = V1 \ {a}
      /\ a \in V <=> c \in bt[a].cands
      /\ a \in V1 <=> c \in b.cands
  BY ConstantsAssumption, FS_Subset DEF VotersOf, Recast
<1> HIDE DEF V, V1
<1>2. Cardinality(V \ {a}) =
        IF a \in V THEN Cardinality(V) - 1 ELSE Cardinality(V)
  BY <1>1, FS_RemoveElement
<1>3. Cardinality(V1 \ {a}) =
        IF a \in V1 THEN Cardinality(V1) - 1 ELSE Cardinality(V1)
  BY <1>1, FS_RemoveElement
<1>4. Cardinality(V) \in Nat /\ Cardinality(V1) \in Nat
  BY <1>1, FS_CardinalityType
<1>6. Cardinality(V \ {a}) = Cardinality(V1 \ {a})
  BY <1>1
<1>5. Cardinality(V1) = Cardinality(V) - (IF a \in V THEN 1 ELSE 0)
                          + (IF a \in V1 THEN 1 ELSE 0)
  BY <1>2, <1>3, <1>4, <1>6
<1> QED
  BY <1>1, <1>5 DEF V, V1

LEMMA VoteCustExact ==
  ASSUME Exact, TypeOK', NEW a \in Accounts, NEW new \in SUBSET Accounts,
         VoteCust(a, new)
  PROVE  Exact'
<1> DEFINE counted == CountedCands(a, new)
           old == ballot[a].cands
           b == IF ballot[a].row /\ new = {} THEN NoBallot
                ELSE [row |-> TRUE, cands |-> new, ts |-> now]
<1>1. /\ UNCHANGED <<member, weight>> /\ now' = now
      /\ ballot' = [ballot EXCEPT ![a] = b]
      /\ tally' = Tallied(tally, weight[a], quorum[a], old, new)
  BY DEF VoteCust, tokenVars, weightVars
<1>15. Recast(ballot, a, b, ballot')
  BY <1>1 DEF Recast
<1>2. cand' = [c \in Accounts |->
                 Moved(counted[c], c, weight[a], old, ballot[a].ts, new, now)]
  BY DEF VoteCust, CountedCands
<1>3. /\ b \in Ballots /\ b.cands = new /\ now \in Nat
      /\ b.cands # {} => b.ts = now
      /\ b.cands # {} => b.row
      /\ b.ts <= now
  BY DEF Ballots, NoBallot, Exact, TypeOK
<1>4. counted \in [Accounts -> Candidates]
  BY CountedType DEF Exact
<1>5. a \in Joiners
  BY DEF VoteCust, Exact, Registered
<1> HIDE DEF counted, b
<1>6. ASSUME NEW c \in Accounts
      PROVE  /\ cand'[c].power = Total(weight, VotersOf(ballot', c))
             /\ cand'[c].rwt = Total(Aged(weight, ballot'), VotersOf(ballot', c))
             /\ cand'[c].power > 0 => cand'[c].avg = cand'[c].rwt \div cand'[c].power
             /\ cand'[c].row <=> cand[c].row
             /\ cand'[c].active = cand[c].active
             /\ cand'[c].voters = Cardinality(VotersOf(ballot', c))
  <2> DEFINE r == counted[c]
             n == cand'[c]
  <2>1. r \in Candidates
    BY <1>4
  <2>2. /\ r.power = cand[c].power /\ r.rwt = cand[c].rwt /\ r.avg = cand[c].avg
        /\ (r.row <=> cand[c].row) /\ r.active = cand[c].active
        /\ r.voters = cand[c].voters - (IF c \in old THEN 1 ELSE 0)
                        + (IF c \in new THEN 1 ELSE 0)
    BY CountedRow DEF counted
  <2>3. /\ cand[c].power = Total(weight, VotersOf(ballot, c))
        /\ cand[c].rwt = Total(Aged(weight, ballot), VotersOf(ballot, c))
        /\ cand[c].power > 0 => cand[c].avg = cand[c].rwt \div cand[c].power
        /\ cand[c].voters = Cardinality(VotersOf(ballot, c))
    BY DEF Exact, Sums, VotersCounted
  <2>4. c \in old \cup b.cands => r.row
    BY <1>3, <2>2 DEF Exact, Registered, VotesForRows, VoteCust
  <2>5. RowMoved(n, r, weight, ballot, a, b, now, c)
    BY <1>2, <1>3 DEF RowMoved
  <2> HIDE DEF r, n
  <2>6. RowExact(r, weight, ballot, c)
    BY <2>1, <2>2, <2>3 DEF RowExact
  <2>7. /\ weight \in [Accounts -> Nat] /\ ballot \in [Accounts -> Ballots]
        /\ cand \in [Accounts -> Candidates]
    BY ExactFacts
  <2>8. /\ RowExact(n, weight, ballot', c)
        /\ (n.row <=> r.row) /\ n.active = r.active /\ n.voters = r.voters
    BY <1>15, <1>3, <2>4, <2>5, <2>6, <2>7, RecastSums
  <2>9. Cardinality(VotersOf(ballot', c)) =
          Cardinality(VotersOf(ballot, c))
            - (IF c \in ballot[a].cands THEN 1 ELSE 0)
            + (IF c \in b.cands THEN 1 ELSE 0)
    BY <1>15, <1>3, <2>7, RecastVoters
  <2>10. n.voters = Cardinality(VotersOf(ballot', c))
    BY <1>3, <2>2, <2>3, <2>8, <2>9
  <2> QED
    BY <2>2, <2>8, <2>10 DEF n, RowExact
<1>7. Sums(cand', weight, ballot')
  BY <1>6 DEF Sums
<1>8. VotesForRows(cand', ballot')
  <2>1. \A c \in new : cand[c].row
    BY DEF VoteCust, Exact, Registered
  <2>2. \A v \in Accounts : ballot'[v].cands = ballot[v].cands
                              \/ ballot'[v].cands = new
    BY <1>1, <1>3 DEF Exact, TypeOK
  <2> QED
    BY <1>6, <2>1, <2>2 DEF VotesForRows, Exact
<1>9. \A c \in Accounts : cand'[c].voters = Cardinality(VotersOf(ballot', c))
  BY <1>6
<1>10. Registered'
  <2>1. \A v \in Accounts : ballot'[v] = IF v = a THEN b ELSE ballot[v]
    BY <1>1 DEF Exact, TypeOK
  <2>2. \A c \in Accounts : cand'[c].active => cand'[c].row
    BY <1>6 DEF Exact, Registered
  <2> QED
    BY <1>1, <1>3, <1>5, <2>1, <2>2 DEF Exact, Registered
<1>11. tally'.votes = Total(weight, Casting(ballot'))
  <2>1. quorum[a] \in Int
    BY DEF Exact, TypeOK
  <2>2. Tallied(tally, weight[a], quorum[a], ballot[a].cands, b.cands).votes =
          Total(weight, Casting(ballot'))
    <3>1. /\ weight \in [Accounts -> Nat] /\ ballot \in [Accounts -> Ballots]
          /\ tally \in [weight : Int, votes : Int]
          /\ tally.votes = Total(weight, Casting(ballot))
      BY ExactFacts
    <3> QED
      BY <1>15, <1>3, <2>1, <3>1, RecastVotes
  <2> QED
    BY <1>1, <1>3, <2>2
<1>12. Sums(cand, weight, ballot)'
  <2>1. weight' = weight
    BY <1>1
  <2> QED
    BY <1>7, <2>1 DEF Sums, VotersOf, Aged
<1>13. VotesForRows(cand, ballot)' /\ VotersCounted'
  BY <1>8, <1>9 DEF VotesForRows, VotersCounted, VotersOf
<1>14. VotesTotalIsSum'
  BY <1>1, <1>11 DEF VotesTotalIsSum, Casting
<1> QED
  BY <1>10, <1>12, <1>13, <1>14 DEF Exact

LEMMA InitExact == Init => Exact
<1> SUFFICES ASSUME Init PROVE Exact
  OBVIOUS
<1>1. \A a \in Accounts : /\ ballot[a] = NoBallot /\ cand[a] = NoCandidate
                          /\ member[a] = "none"
  BY DEF Init
<1>2. \A a \in Accounts : ballot[a].cands = {} /\ ~ballot[a].row
                          /\ ballot[a].ts = 0
  BY <1>1 DEF NoBallot
<1>3. \A c \in Accounts : /\ cand[c].power = 0 /\ cand[c].rwt = 0
                          /\ cand[c].voters = 0 /\ ~cand[c].active
  BY <1>1 DEF NoCandidate
<1>4. \A c \in Accounts : VotersOf(ballot, c) = {}
  BY <1>2 DEF VotersOf
<1>5. Casting(ballot) = {}
  BY <1>2 DEF Casting
<1>6. Sums(cand, weight, ballot)
  <2>1. ASSUME NEW c \in Accounts
        PROVE  /\ Total(weight, VotersOf(ballot, c)) = 0
               /\ Total(Aged(weight, ballot), VotersOf(ballot, c)) = 0
    BY <1>4, TotalEmpty
  <2> QED
    BY <1>3, <2>1 DEF Sums
<1>7. VotersCounted
  BY <1>3, <1>4, FS_EmptySet DEF VotersCounted
<1>8. VotesTotalIsSum
  <2>1. tally.votes = 0
    BY DEF Init
  <2> QED
    BY <2>1, <1>5, TotalEmpty DEF VotesTotalIsSum
<1>9. VotesForRows(cand, ballot)
  BY <1>2 DEF VotesForRows
<1>10. Registered
  <2>1. now = 1
    BY DEF Init
  <2> QED
    BY <1>1, <1>2, <1>3, <2>1 DEF Registered
<1> QED
  BY <1>6, <1>7, <1>8, <1>9, <1>10, InitType DEF Exact

(* Steps that touch neither weights nor ballots, nor a candidate's tallies. *)
LEMMA QuietExact ==
  ASSUME Exact, TypeOK', UNCHANGED <<weight, ballot, tally>>,
         \A c \in Accounts : /\ cand'[c].power = cand[c].power
                             /\ cand'[c].rwt = cand[c].rwt
                             /\ cand'[c].avg = cand[c].avg
                             /\ cand'[c].voters = cand[c].voters
                             /\ cand[c].row => cand'[c].row,
         Registered'
  PROVE  Exact'
<1>1. Sums(cand, weight, ballot)'
  BY DEF Exact, Sums, VotersOf, Aged
<1>2. VotersCounted'
  BY DEF Exact, VotersCounted, VotersOf
<1>3. VotesTotalIsSum'
  BY DEF Exact, VotesTotalIsSum, Casting
<1>4. VotesForRows(cand, ballot)'
  BY DEF Exact, VotesForRows
<1> QED
  BY <1>1, <1>2, <1>3, <1>4 DEF Exact

LEMMA NominateExact ==
  ASSUME Exact, TypeOK', NEW c \in Accounts, Nominate(c)
  PROVE  Exact'
<1>1. /\ UNCHANGED <<now, member, weight, ballot, tally>>
      /\ cand' = [cand EXCEPT ![c].row = TRUE, ![c].active = TRUE]
  BY DEF Nominate, tokenVars, weightVars
<1>2. ASSUME NEW d \in Accounts
      PROVE  /\ cand'[d].power = cand[d].power /\ cand'[d].rwt = cand[d].rwt
             /\ cand'[d].avg = cand[d].avg /\ cand'[d].voters = cand[d].voters
             /\ cand[d].row => cand'[d].row
             /\ cand'[d].active => cand'[d].row
  BY <1>1 DEF Exact, TypeOK, Candidates, Registered
<1>3. Registered'
  BY <1>1, <1>2 DEF Exact, Registered
<1> QED
  BY <1>1, <1>2, <1>3, QuietExact

LEMMA WithdrawExact ==
  ASSUME Exact, TypeOK', NEW c \in Accounts, Withdraw(c)
  PROVE  Exact'
<1>1. /\ UNCHANGED <<now, member, weight, ballot, tally>>
      /\ cand' = [cand EXCEPT ![c].active = FALSE]
  BY DEF Withdraw, tokenVars, weightVars
<1>2. ASSUME NEW d \in Accounts
      PROVE  /\ cand'[d].power = cand[d].power /\ cand'[d].rwt = cand[d].rwt
             /\ cand'[d].avg = cand[d].avg /\ cand'[d].voters = cand[d].voters
             /\ cand[d].row => cand'[d].row
             /\ cand'[d].active => cand'[d].row
  BY <1>1 DEF Exact, TypeOK, Candidates, Registered
<1>3. Registered'
  BY <1>1, <1>2 DEF Exact, Registered
<1> QED
  BY <1>1, <1>2, <1>3, QuietExact

LEMMA StepExact ==
  ASSUME StakeWeighted \/ Issuer \notin Joiners
  PROVE  Exact /\ [Next]_vars => Exact'
<1> SUFFICES ASSUME Exact, [Next]_vars PROVE Exact'
  OBVIOUS
<1>0. TypeOK /\ TypeOK'
  BY StepType DEF Exact
<1>1. CASE Tick
  <2>1. UNCHANGED <<member, weight, ballot, tally, cand>> /\ now' = now + 1
    BY <1>1 DEF Tick, tokenVars, weightVars, voteVars
  <2>2. Registered'
    BY <2>1 DEF Exact, Registered, TypeOK, Ballots
  <2> QED
    BY <1>0, <2>1, <2>2, QuietExact
<1>2. CASE NewMemTerms
  <2>1. /\ UNCHANGED <<now, weight, ballot, tally, cand>>
        /\ \A a \in Accounts : member'[a] # "none" => member[a] # "none"
    BY <1>2, <1>0 DEF NewMemTerms, weightVars, voteVars, TypeOK
  <2>2. Registered'
    BY <2>1 DEF Exact, Registered
  <2> QED
    BY <1>0, <2>1, <2>2, QuietExact
<1>3. ASSUME NEW a \in Accounts, MemberReg(a) \/ MemberUnreg(a) PROVE Exact'
  <2>1. /\ UNCHANGED <<now, weight, ballot, tally, cand>>
        /\ \A v \in Accounts : member'[v] # "none" =>
                                 member[v] # "none" \/ v \in Joiners
    BY <1>3, <1>0 DEF MemberReg, MemberUnreg, weightVars, voteVars, TypeOK
  <2>2. Registered'
    BY <2>1 DEF Exact, Registered
  <2> QED
    BY <1>0, <2>1, <2>2, QuietExact
<1>4. ASSUME NEW a \in Accounts, Nominate(a) PROVE Exact'
  BY <1>0, <1>4, NominateExact
<1>5. ASSUME NEW a \in Accounts, Withdraw(a) PROVE Exact'
  BY <1>0, <1>5, WithdrawExact
<1>6. ASSUME NEW a \in Accounts, StakeStep(a)
      PROVE  Exact'
  <2>1. PICK s \in Nat, d \in MinStakeTime .. MaxStakeTime : StakeObserved(a, s, d)
    BY <1>0, <1>6, StakeStepObserved
  <2> QED
    BY <1>0, <2>1, StakeObservedExact
<1>7. ASSUME NEW m \in 1 .. MaxMultiplier, UpdateConfig(m) PROVE Exact'
  <2>1. UNCHANGED <<now, member, weight, ballot, tally, cand>>
    BY <1>7 DEF UpdateConfig, tokenVars, voteVars
  <2>2. Registered'
    BY <2>1 DEF Exact, Registered
  <2> QED
    BY <1>0, <2>1, <2>2, QuietExact
<1>8. ASSUME NEW f \in Accounts, NEW t \in Accounts, NEW q \in 1 .. MaxBalance,
             Transfer(f, t, q)
      PROVE  Exact'
  <2>1. q \in Nat
    BY ConstantsAssumption
  <2> QED
    BY <1>0, <1>8, <2>1, TransferExact
<1>9. ASSUME NEW f \in Accounts, NEW q \in 1 .. MaxBalance, Burn(f, q)
      PROVE  Exact'
  <2>1. q \in Nat
    BY ConstantsAssumption
  <2> QED
    BY <1>0, <1>9, <2>1, BurnExact
<1>10. ASSUME NEW q \in 1 .. MaxBalance, Issue(q) PROVE Exact'
  <2>1. q \in Nat
    BY ConstantsAssumption
  <2> QED
    BY <1>0, <1>10, <2>1, IssueExact
<1>11. ASSUME NEW a \in Accounts, NEW new \in SUBSET Accounts, VoteCust(a, new)
       PROVE  Exact'
  BY <1>0, <1>11, VoteCustExact
<1>12. ASSUME NEW on \in BOOLEAN, Maintenance(on) PROVE Exact'
  <2>1. UNCHANGED <<now, member, weight, ballot, tally, cand>>
    BY <1>12 DEF Maintenance, tokenVars, weightVars
  <2>2. Registered'
    BY <2>1 DEF Exact, Registered
  <2> QED
    BY <1>0, <2>1, <2>2, QuietExact
<1>13. CASE UNCHANGED vars
  <2>1. UNCHANGED <<now, member, weight, ballot, tally, cand>>
    BY <1>13 DEF vars, tokenVars, weightVars, voteVars
  <2>2. Registered'
    BY <2>1 DEF Exact, Registered
  <2> QED
    BY <1>0, <2>1, <2>2, QuietExact
<1> QED
  BY <1>1, <1>2, <1>3, <1>4, <1>5, <1>6, <1>7, <1>8, <1>9, <1>10, <1>11,
     <1>12, <1>13 DEF Next, UserNext, StakeStep

(* Every candidate's vote power, number of voters and accumulated vote time *)
(* are those of the ballots that name it, and the total of the votes is that*)
(* of the ballots cast (updateVoteWeight, modifyVoteWeights), in every DAC  *)
(* but a token-weighted one whose issuer is a member: see IssueExact.       *)
LEMMA AlwaysExact ==
  ASSUME StakeWeighted \/ Issuer \notin Joiners
  PROVE  Spec => []Exact
<1>1. Init => Exact
  BY InitExact
<1>2. Exact /\ [Next]_vars => Exact'
  BY StepExact
<1> QED
  BY <1>1, <1>2, PTL DEF Spec

(* PowerIsSum, for any number of accounts, votes and stakes.                *)
THEOREM PowerCorrect ==
  ASSUME StakeWeighted \/ Issuer \notin Joiners
  PROVE  Spec => []PowerIsSum
<1>1. Exact => PowerIsSum
  BY DEF Exact, Sums, VotersCounted, PowerIsSum
<1> QED
  BY <1>1, AlwaysExact, PTL

(* AgeIsSum: the tie break of the ranking is the average time of the votes. *)
THEOREM AgeCorrect ==
  ASSUME StakeWeighted \/ Issuer \notin Joiners
  PROVE  Spec => []AgeIsSum
<1>1. Exact => AgeIsSum
  BY DEF Exact, Sums, AgeIsSum
<1> QED
  BY <1>1, AlwaysExact, PTL

(* VotesTotalIsSum: total_votes_on_candidates counts each voter once.       *)
THEOREM VotesTotalCorrect ==
  ASSUME StakeWeighted \/ Issuer \notin Joiners
  PROVE  Spec => []VotesTotalIsSum
<1>1. Exact => VotesTotalIsSum
  BY DEF Exact
<1> QED
  BY <1>1, AlwaysExact, PTL

(* WeightsCovered: a voter's weight is part of the tallies it is taken from.*)
THEOREM CoverCorrect ==
  ASSUME StakeWeighted \/ Issuer \notin Joiners
  PROVE  Spec => []WeightsCovered
<1>1. ASSUME Exact PROVE WeightsCovered
  <2> SUFFICES ASSUME NEW a \in Accounts, NEW c \in Accounts,
                      c \in ballot[a].cands
               PROVE  /\ cand[c].row
                      /\ cand[c].voters >= 1
                      /\ cand[c].power >= weight[a]
                      /\ cand[c].rwt >= weight[a] * ballot[a].ts
    BY DEF WeightsCovered
  <2> DEFINE V == VotersOf(ballot, c)
             f == Aged(weight, ballot)
  <2>1. cand[c].row
    BY <1>1 DEF Exact, VotesForRows
  <2>2. a \in V
    BY DEF VotersOf
  <2>3. weight \in [Accounts -> Nat] /\ ballot \in [Accounts -> Ballots]
    BY <1>1, ExactFacts
  <2>4. /\ IsFiniteSet(V)
        /\ \A v \in V : weight[v] \in Nat
        /\ \A v \in V : f[v] \in Nat
        /\ \A v \in Accounts : f[v] = weight[v] * ballot[v].ts
    BY <2>3, SumsDefined
  <2> HIDE DEF V, f
  <2>5. cand[c].voters >= 1
    <3>1. cand[c].voters = Cardinality(V)
      BY <1>1 DEF Exact, VotersCounted, V
    <3>2. Cardinality(V) # 0
      BY <2>2, <2>4, FS_EmptySet
    <3>3. Cardinality(V) \in Nat
      BY <2>4, FS_CardinalityType
    <3> QED
      BY <3>1, <3>2, <3>3
  <2>6. cand[c].power >= weight[a]
    <3>1. cand[c].power = Total(weight, V)
      BY <1>1 DEF Exact, Sums, V
    <3> QED
      BY <2>2, <2>4, <3>1, TotalBounds
  <2>7. cand[c].rwt >= weight[a] * ballot[a].ts
    <3>1. cand[c].rwt = Total(f, V)
      BY <1>1 DEF Exact, Sums, V, f
    <3>2. \A v \in V : f[v] \in Nat
      BY <2>4
    <3>3. Total(f, V) >= f[a]
      BY <2>2, <2>4, <3>2, TotalBounds
    <3> QED
      BY <2>4, <3>1, <3>3
  <2> QED
    BY <2>1, <2>5, <2>6, <2>7
<1> QED
  BY <1>1, AlwaysExact, PTL

-----------------------------------------------------------------------------
(* Active candidates                                                        *)

(* With the types, ActiveCounted and ActiveKeepsStake are inductive.        *)
Active == TypeOK /\ ActiveCounted /\ ActiveKeepsStake

ActiveSet(cd) == {c \in Accounts : cd[c].active}

(* AddWeight and the recount leave the row and the activity alone.          *)
LEMMA MovedKeepsActive ==
  ASSUME NEW r \in Candidates, NEW c, NEW dw, NEW old, NEW oldTs, NEW new, NEW newTs
  PROVE  LET n == Moved(r, c, dw, old, oldTs, new, newTs)
         IN  n.row = r.row /\ n.active = r.active
<1>1. ASSUME NEW x, x.row = r.row, x.active = r.active, NEW w, NEW ts
      PROVE  AddWeight(x, w, ts).row = r.row
             /\ AddWeight(x, w, ts).active = r.active
  BY <1>1 DEF AddWeight
<1> QED
  BY <1>1 DEF Moved, Left

(* Where no candidate becomes active or stops being so, their number stays. *)
LEMMA KeepsActive ==
  ASSUME Active, TypeOK', nActive' = nActive,
         \A c \in Accounts : /\ cand'[c].active <=> cand[c].active
                             /\ cand[c].row => cand'[c].row,
         \A c \in Accounts : /\ cand[c].active => /\ member'[c] # "none"
                                                  /\ stake'[c] >= stake[c]
                             /\ stake[c] > 0 => delay'[c] >= delay[c]
  PROVE  Active'
<1>1. ActiveSet(cand') = ActiveSet(cand)
  BY DEF ActiveSet
<1>2. ActiveCounted'
  BY <1>1 DEF Active, ActiveCounted, ActiveSet
<1>3. \A c \in Accounts : /\ stake[c] \in Nat /\ stake'[c] \in Nat
                          /\ delay[c] \in Int /\ delay'[c] \in Int
  BY DEF Active, TypeOK
<1>4. LockupStake \in Nat /\ LockupDelay \in Nat
  BY ConstantsAssumption
<1>5. ActiveKeepsStake'
  BY <1>3, <1>4 DEF Active, ActiveKeepsStake
<1> QED
  BY <1>2, <1>5 DEF Active

(* weightobsv and votecust neither enrol nor retire a candidate.            *)
LEMMA ObservedKeepsActive ==
  ASSUME NEW cd \in [Accounts -> Candidates], NEW b, NEW dw, NEW c \in Accounts
  PROVE  /\ ObservedCands(cd, b, dw)[c].row = cd[c].row
         /\ ObservedCands(cd, b, dw)[c].active = cd[c].active
<1>1. ObservedCands(cd, b, dw)[c] = Moved(cd[c], c, dw, {}, 0, b.cands, b.ts)
  BY DEF ObservedCands
<1> QED
  BY <1>1, MovedKeepsActive

LEMMA VoteCustKeepsActive ==
  ASSUME TypeOK, NEW a \in Accounts, NEW new \in SUBSET Accounts,
         VoteCust(a, new), NEW c \in Accounts
  PROVE  cand'[c].row = cand[c].row /\ cand'[c].active = cand[c].active
<1> DEFINE old == ballot[a].cands
           r == Counted(cand[c], c, old, new)
<1>1. r \in Candidates
  <2>1. CountedCands(a, new)[c] \in Candidates
    BY CountedType
  <2> QED
    BY <2>1 DEF CountedCands
<1>2. r.row = cand[c].row /\ r.active = cand[c].active
  BY DEF Counted, TypeOK, Candidates
<1>3. cand'[c] = Moved(r, c, weight[a], old, ballot[a].ts, new, now)
  BY DEF VoteCust
<1> HIDE DEF r, old
<1> QED
  BY <1>1, <1>2, <1>3, MovedKeepsActive

LEMMA StepActive == Active /\ [Next]_vars => Active'
<1> SUFFICES ASSUME Active, [Next]_vars PROVE Active'
  OBVIOUS
<1>0. TypeOK /\ TypeOK'
  BY StepType DEF Active
<1>1. /\ cand \in [Accounts -> Candidates]
      /\ \A c \in Accounts : /\ cand[c].active => member[c] # "none"
                             /\ stake[c] \in Nat
                             /\ stake[c] >= stake[c]
                             /\ delay[c] >= delay[c]
  BY <1>0 DEF Active, ActiveKeepsStake, TypeOK
<1>2. CASE Tick \/ (\E m \in 1 .. MaxMultiplier : UpdateConfig(m))
           \/ (\E q \in 1 .. MaxBalance : Issue(q))
           \/ (\E on \in BOOLEAN : Maintenance(on)) \/ UNCHANGED vars
  <2>1. UNCHANGED <<cand, member, stake, delay, nActive>>
    BY <1>2 DEF Tick, UpdateConfig, Issue, Maintenance, vars, tokenVars, voteVars
  <2> QED
    BY <1>0, <1>1, <2>1, KeepsActive
<1>3. CASE NewMemTerms
  <2>1. /\ UNCHANGED <<cand, stake, delay, nActive>>
        /\ \A c \in Accounts : member[c] # "none" => member'[c] # "none"
    BY <1>3 DEF NewMemTerms, voteVars
  <2> QED
    BY <1>0, <1>1, <2>1, KeepsActive
<1>4. ASSUME NEW a \in Accounts, MemberReg(a) \/ MemberUnreg(a) PROVE Active'
  <2>1. /\ UNCHANGED <<cand, stake, delay, nActive>>
        /\ \A c \in Accounts : cand[c].active /\ member[c] # "none" =>
                                 member'[c] # "none"
    BY <1>4, <1>0 DEF MemberReg, MemberUnreg, voteVars, TypeOK
  <2> QED
    BY <1>0, <1>1, <2>1, KeepsActive
<1>5. ASSUME NEW a \in Accounts, Nominate(a) PROVE Active'
  <2>1. /\ cand' = [cand EXCEPT ![a].row = TRUE, ![a].active = TRUE]
        /\ UNCHANGED <<member, stake, delay>>
        /\ nActive' = nActive + 1 /\ ~cand[a].active
        /\ member[a] = "current"
        /\ LockupStake > 0 => stake[a] >= LockupStake /\ delay[a] >= LockupDelay
    BY <1>5 DEF Nominate, tokenVars
  <2>2. \A c \in Accounts : /\ cand'[c].active <=> c = a \/ cand[c].active
                            /\ cand'[c].row <=> c = a \/ cand[c].row
    BY <2>1, <1>1 DEF Candidates
  <2>3. ActiveSet(cand') = ActiveSet(cand) \cup {a} /\ a \notin ActiveSet(cand)
    BY <2>1, <2>2 DEF ActiveSet
  <2>4. IsFiniteSet(ActiveSet(cand))
    BY ConstantsAssumption, FS_Subset DEF ActiveSet
  <2>5. Cardinality(ActiveSet(cand')) = Cardinality(ActiveSet(cand)) + 1
    BY <2>3, <2>4, FS_AddElement
  <2>6. ActiveCounted'
    BY <2>1, <2>5 DEF Active, ActiveCounted, ActiveSet
  <2>7. ActiveKeepsStake'
    BY <2>1, <2>2, <1>1, ConstantsAssumption DEF Active, ActiveKeepsStake
  <2> QED
    BY <1>0, <2>6, <2>7 DEF Active
<1>6. ASSUME NEW a \in Accounts, Withdraw(a) PROVE Active'
  <2>1. /\ cand' = [cand EXCEPT ![a].active = FALSE]
        /\ UNCHANGED <<member, stake, delay>>
        /\ nActive' = nActive - 1 /\ cand[a].active
    BY <1>6 DEF Withdraw, tokenVars
  <2>2. \A c \in Accounts : /\ cand'[c].active <=> c # a /\ cand[c].active
                            /\ cand'[c].row <=> cand[c].row
    BY <2>1, <1>1 DEF Candidates
  <2>3. ActiveSet(cand') = ActiveSet(cand) \ {a} /\ a \in ActiveSet(cand)
    BY <2>1, <2>2 DEF ActiveSet
  <2>4. IsFiniteSet(ActiveSet(cand))
    BY ConstantsAssumption, FS_Subset DEF ActiveSet
  <2>5. Cardinality(ActiveSet(cand')) = Cardinality(ActiveSet(cand)) - 1
    BY <2>3, <2>4, FS_RemoveElement
  <2>6. ActiveCounted'
    BY <2>1, <2>5 DEF Active, ActiveCounted, ActiveSet
  <2>7. ActiveKeepsStake'
    BY <2>1, <2>2 DEF Active, ActiveKeepsStake
  <2> QED
    BY <1>0, <2>6, <2>7 DEF Active
<1>7. ASSUME NEW a \in Accounts, StakeStep(a)
      PROVE  Active'
  <2>0. PICK s \in Nat, d \in MinStakeTime .. MaxStakeTime :
               StakeObserved(a, s, d) /\ (stake[a] > 0 => d >= delay[a])
    BY <1>0, <1>7, StakeStepObserved
  <2>1. /\ UNCHANGED <<member, nActive>>
        /\ stake' = [stake EXCEPT ![a] = s]
        /\ delay' = [delay EXCEPT ![a] = d]
        /\ s < stake[a] => ~cand[a].active
        /\ \/ cand' = cand
           \/ cand' = ObservedCands(cand, ballot[a],
                        StakeWeight(s, d, multiplier) - weight[a])
    BY <2>0, ConstantsAssumption DEF StakeObserved
  <2>2. \A c \in Accounts : /\ cand'[c].active = cand[c].active
                            /\ cand'[c].row = cand[c].row
    BY <2>1, <1>1, ObservedKeepsActive
  <2>3. \A c \in Accounts : /\ cand[c].active => stake'[c] >= stake[c]
                            /\ stake[c] > 0 => delay'[c] >= delay[c]
    BY <2>0, <2>1, <1>0, <1>1, ConstantsAssumption DEF TypeOK
  <2> QED
    BY <1>0, <1>1, <2>1, <2>2, <2>3, KeepsActive
<1>8. ASSUME NEW f \in Accounts, NEW t \in Accounts, NEW q \in 1 .. MaxBalance,
             Transfer(f, t, q)
      PROVE  Active'
  <2> DEFINE cd1 == ObservedCands(cand, ballot[f], -q)
  <2>1. /\ UNCHANGED <<member, stake, delay, nActive>>
        /\ cand' = ObservedCands(cd1, ballot[t], q)
        /\ ObserveAllowed(cand, ballot[f], -q)
    BY <1>8 DEF Transfer, tokenVars
  <2>2. cd1 \in [Accounts -> Candidates]
    <3>1. -q \in Int /\ ballot[f] \in Ballots /\ tally \in [weight : Int, votes : Int]
      BY <1>0 DEF TypeOK
    <3> QED
      BY <3>1, <2>1, <1>1, ObservedType
  <2>3. \A c \in Accounts : cd1[c].active = cand[c].active
                            /\ cd1[c].row = cand[c].row
    BY <1>1, ObservedKeepsActive
  <2> HIDE DEF cd1
  <2>4. \A c \in Accounts : cand'[c].active = cd1[c].active
                            /\ cand'[c].row = cd1[c].row
    BY <2>1, <2>2, ObservedKeepsActive
  <2> QED
    BY <1>0, <1>1, <2>1, <2>3, <2>4, KeepsActive
<1>9. ASSUME NEW f \in Accounts, NEW q \in 1 .. MaxBalance, Burn(f, q)
      PROVE  Active'
  <2>1. /\ UNCHANGED <<member, stake, delay, nActive>>
        /\ cand' = ObservedCands(cand, ballot[f], -q)
    BY <1>9 DEF Burn, tokenVars
  <2>2. \A c \in Accounts : cand'[c].active = cand[c].active
                            /\ cand'[c].row = cand[c].row
    BY <2>1, <1>1, ObservedKeepsActive
  <2> QED
    BY <1>0, <1>1, <2>1, <2>2, KeepsActive
<1>10. ASSUME NEW a \in Accounts, NEW new \in SUBSET Accounts, VoteCust(a, new)
       PROVE  Active'
  <2>1. UNCHANGED <<member, stake, delay, nActive>>
    BY <1>10 DEF VoteCust, tokenVars
  <2>2. \A c \in Accounts : cand'[c].active = cand[c].active
                            /\ cand'[c].row = cand[c].row
    BY <1>0, <1>10, VoteCustKeepsActive
  <2> QED
    BY <1>0, <1>1, <2>1, <2>2, KeepsActive
<1> QED
  BY <1>2, <1>3, <1>4, <1>5, <1>6, <1>7, <1>8, <1>9, <1>10
  DEF Next, UserNext, StakeStep

(* number_active_candidates, and the guards of memberunreg and stakeobsv.   *)
LEMMA AlwaysActive == Spec => []Active
<1>1. Init => Active
  <2> SUFFICES ASSUME Init PROVE Active
    OBVIOUS
  <2>1. \A c \in Accounts : ~cand[c].active
    BY DEF Init, NoCandidate
  <2>2. ActiveSet(cand) = {} /\ nActive = 0
    BY <2>1 DEF ActiveSet, Init
  <2>3. ActiveCounted
    BY <2>2, FS_EmptySet DEF ActiveCounted, ActiveSet
  <2> QED
    BY <2>1, <2>3, InitType DEF Active, ActiveKeepsStake
<1>2. Active /\ [Next]_vars => Active'
  BY StepActive
<1> QED
  BY <1>1, <1>2, PTL DEF Spec

(* ActiveCounted, however many accounts stand.                              *)
THEOREM ActiveCountCorrect == Spec => []ActiveCounted
<1>1. Active => ActiveCounted
  BY DEF Active
<1> QED
  BY <1>1, AlwaysActive, PTL

(* ActiveKeepsStake: no order of unstaking, leaving the DAC and standing    *)
(* leaves an active candidate without its lockup.                           *)
THEOREM ActiveStakeCorrect == Spec => []ActiveKeepsStake
<1>1. Active => ActiveKeepsStake
  BY DEF Active
<1> QED
  BY <1>1, AlwaysActive, PTL

-----------------------------------------------------------------------------
(* The quorum: the total that an election is measured against is that of    *)
(* the voters, as long as the time multiplier stays what it was.            *)

(* The quorum total moves as the votes total does, with the two deltas      *)
(* exchanged, unless the weight's delta alone is zero.                      *)
Swapped(tt) == [weight |-> tt.votes, votes |-> tt.weight]

LEMMA SwappedTally ==
  ASSUME NEW tt \in [weight : Int, votes : Int], NEW dw \in Int, NEW dq \in Int,
         dw = 0 => dq = 0, NEW old, NEW new
  PROVE  Tallied(tt, dw, dq, old, new).weight =
           Tallied(Swapped(tt), dq, dw, old, new).votes
<1> DEFINE sign == (IF old = {} THEN 1 ELSE 0) - (IF new = {} THEN 1 ELSE 0)
<1>1. CASE dq # 0
  <2>1. dw # 0
    BY <1>1
  <2>2. Tallied(tt, dw, dq, old, new).weight = tt.weight + sign * dq
    BY <2>1 DEF Tallied
  <2>3. Tallied(Swapped(tt), dq, dw, old, new).votes = tt.weight + sign * dq
    BY <1>1 DEF Tallied, Swapped
  <2> QED
    BY <2>2, <2>3
<1>2. CASE dq = 0
  <2>1. Tallied(Swapped(tt), dq, dw, old, new).votes = tt.weight
    BY <1>2 DEF Tallied, Swapped
  <2>2. tt.weight + sign * dq = tt.weight
    BY <1>2
  <2>3. Tallied(tt, dw, dq, old, new).weight \in {tt.weight, tt.weight + sign * dq}
    BY DEF Tallied
  <2> QED
    BY <2>1, <2>2, <2>3
<1> QED
  BY <1>1, <1>2

(* A notice changes the quorum weight of a from qm[a] to n, its weight by   *)
(* dw, and the global tallies from tt to tt1.                               *)
QuorumChange(qm, bt, a, n, dw, tt, tt1, qm1) ==
  /\ qm1 = [qm EXCEPT ![a] = n]
  /\ tt1 = ObservedTally(tt, bt[a], dw, n - qm[a])
  /\ dw = 0 => n = qm[a]

LEMMA ObservedQuorum ==
  ASSUME NEW qm \in [Accounts -> Nat], NEW bt \in [Accounts -> Ballots],
         NEW a \in Accounts, NEW n \in Nat, NEW dw \in Int,
         NEW tt \in [weight : Int, votes : Int],
         NEW tt1, NEW qm1, QuorumChange(qm, bt, a, n, dw, tt, tt1, qm1),
         bt[a].cands # {} => bt[a].row,
         tt.weight = Total(qm, Casting(bt))
  PROVE  tt1.weight = Total(qm1, Casting(bt))
<1> DEFINE dq == n - qm[a]
           st == Swapped(tt)
           st1 == ObservedTally(st, bt[a], dq, dw)
<1>1. st \in [weight : Int, votes : Int] /\ st.votes = tt.weight
  BY DEF Swapped
<1>2. TotalChange(qm, bt, a, n, dw, st, st1, qm1)
  BY DEF TotalChange, QuorumChange
<1>3. tt1.weight = st1.votes
  <2>0. dq \in Int /\ (dw = 0 => dq = 0) /\ tt1 = ObservedTally(tt, bt[a], dw, dq)
    BY DEF QuorumChange
  <2>1. Tallied(tt, dw, dq, {}, bt[a].cands).weight =
          Tallied(st, dq, dw, {}, bt[a].cands).votes
    BY <2>0, SwappedTally
  <2> QED
    BY <1>1, <2>0, <2>1 DEF ObservedTally
<1> HIDE DEF st, st1
<1>4. st1.votes = Total(qm1, Casting(bt))
  BY <1>1, <1>2, ObservedVotes, SMTT(60)
<1> QED
  BY <1>3, <1>4

(* A ballot of a becomes b: its quorum weight comes or goes.                *)
LEMMA RecastQuorum ==
  ASSUME NEW wt \in [Accounts -> Nat], NEW qm \in [Accounts -> Nat],
         NEW bt \in [Accounts -> Ballots],
         NEW a \in Accounts, NEW b \in Ballots, wt[a] = 0 => qm[a] = 0,
         NEW tt \in [weight : Int, votes : Int],
         tt.weight = Total(qm, Casting(bt)),
         NEW bt1, Recast(bt, a, b, bt1)
  PROVE  Tallied(tt, wt[a], qm[a], bt[a].cands, b.cands).weight =
           Total(qm, Casting(bt1))
<1> DEFINE st == Swapped(tt)
           old == bt[a].cands
           dw == wt[a]
           dq == qm[a]
<1>1. st \in [weight : Int, votes : Int] /\ st.votes = tt.weight
  BY DEF Swapped
<1>2. dw \in Int /\ dq \in Int /\ (dw = 0 => dq = 0)
  OBVIOUS
<1>3. Tallied(tt, dw, dq, old, b.cands).weight = Tallied(st, dq, dw, old, b.cands).votes
  BY <1>2, SwappedTally
<1>4. Tallied(st, qm[a], dw, bt[a].cands, b.cands).votes = Total(qm, Casting(bt1))
  <2>1. st.votes = Total(qm, Casting(bt))
    BY <1>1
  <2>2. dw \in Int
    BY <1>2
  <2> HIDE DEF st, dw
  <2>3. \A dv \in Int : Tallied(st, qm[a], dv, bt[a].cands, b.cands).votes =
                         Total(qm, Casting(bt1))
    BY <1>1, <2>1, RecastVotes
  <2> QED
    BY <2>2, <2>3
<1> QED
  BY <1>3, <1>4

-----------------------------------------------------------------------------
(* Weights of stakes *)

(* More stake for a stake time that is no shorter weighs more.              *)
LEMMA StakeWeightGrows ==
  ASSUME NEW s \in Nat, NEW t \in Nat, s < t,
         NEW d \in MinStakeTime .. MaxStakeTime, NEW e \in MinStakeTime .. MaxStakeTime,
         d <= e, NEW m \in Nat \ {0}
  PROVE  StakeWeight(s, d, m) # StakeWeight(t, e, m)
<1> DEFINE M == MaxStakeTime
           k == M + d * m
           l == M + e * m
<1>1. M \in Nat /\ M > 0 /\ d \in Nat /\ e \in Nat
  BY ConstantsAssumption
<1>2. d * m \in Nat /\ e * m \in Nat /\ d * m <= e * m
  BY <1>1, NatProduct
<1>3. k \in Nat /\ l \in Nat /\ M <= k /\ k <= l
  BY <1>1, <1>2
<1> HIDE DEF M, k, l
<1>4. s * k \in Nat /\ t * k \in Nat /\ t * l \in Nat
  BY <1>3, NatProduct
<1>5. t * k >= s * k + k
  <2>1. t * k = s * k + (t - s) * k
    BY <1>3, <1>4
  <2>2. (t - s) * k >= k
    BY <1>3
  <2> QED
    BY <1>3, <1>4, <2>1, <2>2
<1>6. t * l >= t * k
  BY <1>3
<1>7. t * l >= s * k + M
  BY <1>1, <1>3, <1>4, <1>5, <1>6
<1>8. (s * k) \div M # (t * l) \div M
  <2> DEFINE x == s * k
             y == t * l
  <2>1. x \in Nat /\ y \in Nat /\ y >= x + M
    BY <1>4, <1>7
  <2> HIDE DEF x, y
  <2>2. x \div M # y \div M
    BY <1>1, <2>1
  <2> QED
    BY <2>2 DEF x, y
<1> QED
  BY <1>8 DEF StakeWeight, M, k, l

(* What the steps on stakes have in common: a stake time falls only with no *)
(* stake, and unstaking leaves it alone.                                    *)
LEMMA StakeStepOrdered ==
  ASSUME TypeOK, NEW a \in Accounts, StakeStep(a)
  PROVE  \E s \in Nat, d \in MinStakeTime .. MaxStakeTime :
           /\ StakeObserved(a, s, d)
           /\ stake[a] > 0 => d >= delay[a]
           /\ s < stake[a] => d = delay[a]
<1>1. stake[a] \in Nat /\ delay[a] \in MinStakeTime .. MaxStakeTime
  BY DEF TypeOK
<1>2. MinStakeTime \in Nat /\ MaxStakeTime \in Nat /\ MaxStake \in Nat
      /\ MinStakeTime <= MaxStakeTime
  BY ConstantsAssumption
<1>3. ASSUME NEW q \in 1 .. MaxStake, NEW d \in MinStakeTime .. MaxStakeTime,
             Stake(a, q, d)
      PROVE  /\ stake[a] + q \in Nat /\ StakeObserved(a, stake[a] + q, d)
             /\ stake[a] > 0 => d >= delay[a]
             /\ ~(stake[a] + q < stake[a])
  BY <1>1, <1>2, <1>3 DEF Stake
<1>4. ASSUME NEW q \in 1 .. MaxStake, Unstake(a, q)
      PROVE  stake[a] - q \in Nat /\ StakeObserved(a, stake[a] - q, delay[a])
             /\ delay[a] >= delay[a]
  BY <1>1, <1>2, <1>4 DEF Unstake
<1>5. ASSUME NEW d \in MinStakeTime .. MaxStakeTime, StakeTime(a, d)
      PROVE  /\ StakeObserved(a, stake[a], d)
             /\ stake[a] > 0 => d >= delay[a]
             /\ ~(stake[a] < stake[a])
  BY <1>1, <1>5 DEF StakeTime
<1> QED
  BY <1>1, <1>3, <1>4, <1>5 DEF StakeStep

-----------------------------------------------------------------------------
(* While the multiplier is the first one, the weights are those of the      *)
(* stakes, so that a weight and its quorum weight change together.          *)
Weighed ==
  /\ multiplier >= Multiplier0
  /\ ~StakeWeighted => quorum = weight
  /\ StakeWeighted /\ multiplier = Multiplier0 =>
       \A a \in Accounts : /\ weight[a] = StakeWeight(stake[a], delay[a], multiplier)
                           /\ quorum[a] = stake[a]

Quorate == Exact /\ Weighed /\ QuorumTotalIsSum

LEMMA NoWeightNoQuorum ==
  ASSUME TypeOK, Weighed, multiplier = Multiplier0, NEW a \in Accounts
  PROVE  weight[a] = 0 => quorum[a] = 0
<1>1. CASE ~StakeWeighted
  BY <1>1 DEF Weighed
<1>2. CASE StakeWeighted
  BY <1>2, StakeWeightNat DEF Weighed, TypeOK
<1> QED
  BY <1>1, <1>2, ConstantsAssumption

(* Steps that leave stakes, weights, ballots and the total alone.           *)
LEMMA QuietQuorate ==
  ASSUME Quorate, UNCHANGED <<stake, delay, multiplier, weight, quorum>>,
         UNCHANGED <<ballot, tally>>
  PROVE  Weighed' /\ QuorumTotalIsSum'
<1>1. Weighed'
  BY DEF Quorate, Weighed
<1>2. QuorumTotalIsSum'
  BY DEF Quorate, QuorumTotalIsSum, Casting
<1> QED
  BY <1>1, <1>2

LEMMA ObserveQuorate ==
  ASSUME Quorate, NEW a \in Accounts, NEW s \in Nat,
         NEW d \in MinStakeTime .. MaxStakeTime, StakeObserved(a, s, d),
         stake[a] > 0 => d >= delay[a], s < stake[a] => d = delay[a]
  PROVE  Weighed' /\ QuorumTotalIsSum'
<1> DEFINE w == StakeWeight(s, d, multiplier)
           dw == w - weight[a]
           dq == s - quorum[a]
           n == IF w = 0 THEN 0 ELSE s
<1>1. /\ UNCHANGED <<multiplier, ballot>>
      /\ stake' = [stake EXCEPT ![a] = s]
      /\ delay' = [delay EXCEPT ![a] = d]
  BY DEF StakeObserved
<1>2. TypeOK /\ Weighed /\ QuorumTotalIsSum
  BY DEF Quorate, Exact
<1>3. /\ w \in Nat /\ (w = 0 => s = 0) /\ n = s
      /\ weight[a] \in Nat /\ quorum[a] \in Nat /\ stake[a] \in Nat
      /\ delay[a] \in MinStakeTime .. MaxStakeTime
      /\ multiplier \in Nat \ {0}
      /\ MinStakeTime \in Nat /\ MaxStakeTime \in Nat
  BY <1>2, StakeWeightNat, ConstantsAssumption DEF TypeOK
<1>4. CASE ~StakeWeighted
  <2>1. UNCHANGED <<weight, quorum, tally>>
    BY <1>4 DEF StakeObserved
  <2>2. Weighed'
    BY <1>1, <1>2, <1>4, <2>1 DEF Weighed
  <2>3. QuorumTotalIsSum'
    BY <1>1, <1>2, <2>1 DEF QuorumTotalIsSum, Casting
  <2> QED
    BY <2>2, <2>3
<1>5. CASE StakeWeighted
  <2>1. /\ weight' = [weight EXCEPT ![a] = w]
        /\ quorum' = [quorum EXCEPT ![a] = n]
        /\ tally' = ObservedTally(tally, ballot[a], dw, dq)
    BY <1>5 DEF StakeObserved
  <2>2. Weighed'
    BY <1>1, <1>2, <1>3, <1>5, <2>1 DEF Weighed, TypeOK
  <2>3. ASSUME multiplier = Multiplier0
        PROVE  /\ dw = 0 => dq = 0
               /\ dq = n - quorum[a]
    <3>1. weight[a] = StakeWeight(stake[a], delay[a], multiplier) /\ quorum[a] = stake[a]
      BY <1>2, <1>5, <2>3 DEF Weighed
    <3>2. CASE s < stake[a]
      <4>1. d = delay[a] /\ d <= d
        BY <1>3, <3>2
      <4>2. w # StakeWeight(stake[a], d, multiplier)
        BY <1>3, <3>2, <4>1, StakeWeightGrows
      <4> HIDE DEF w
      <4> QED
        BY <1>3, <3>1, <4>1, <4>2
    <3>3. CASE s > stake[a] /\ stake[a] > 0
      <4>1. delay[a] <= d
        BY <1>3, <3>3
      <4>2. w # weight[a]
        BY <1>3, <3>1, <3>3, <4>1, StakeWeightGrows
      <4> HIDE DEF w
      <4> QED
        BY <1>3, <3>1, <4>2
    <3>4. CASE s > stake[a] /\ stake[a] = 0
      <4>1. weight[a] = 0
        <5> DEFINE k == MaxStakeTime + delay[a] * multiplier
                   M == MaxStakeTime
        <5>1. M > 0 /\ M \in Nat /\ delay[a] \in Nat
          BY <1>3, ConstantsAssumption
        <5>2. k \in Nat
          BY <5>1, <1>3, NatProduct
        <5>3. weight[a] = (0 * k) \div M
          BY <3>1, <3>4 DEF StakeWeight
        <5> HIDE DEF k, M
        <5>4. 0 * k = 0
          BY <5>2
        <5>5. 0 \div M = 0
          BY <5>1
        <5> QED
          BY <5>3, <5>4, <5>5
      <4>2. w # 0
        BY <1>3, <3>4
      <4> HIDE DEF w
      <4> QED
        BY <1>3, <3>1, <4>1, <4>2
    <3>5. CASE s = stake[a]
      BY <1>3, <3>1, <3>5
    <3> QED
      BY <1>3, <3>2, <3>3, <3>4, <3>5
  <2>4. ASSUME multiplier = Multiplier0
        PROVE  tally'.weight = Total(quorum', Casting(ballot))
    <3>1. /\ ballot \in [Accounts -> Ballots] /\ quorum \in [Accounts -> Nat]
          /\ tally \in [weight : Int, votes : Int]
          /\ ballot[a].cands # {} => ballot[a].row
      BY ExactFacts DEF Quorate
    <3>2. tally.weight = Total(quorum, Casting(ballot))
      BY <1>2, <2>4 DEF QuorumTotalIsSum
    <3>3. dw \in Int /\ n \in Nat
      BY <1>3
    <3>4. QuorumChange(quorum, ballot, a, n, dw, tally, tally', quorum')
      BY <1>3, <2>1, <2>3, <2>4 DEF QuorumChange
    <3> HIDE DEF w, dw, dq, n
    <3> QED
      BY <3>1, <3>2, <3>3, <3>4, ObservedQuorum, SMTT(60)
  <2>5. QuorumTotalIsSum'
    BY <1>1, <2>4 DEF QuorumTotalIsSum, Casting
  <2> QED
    BY <2>2, <2>5
<1> QED
  BY <1>4, <1>5, ConstantsAssumption

(* In a token-weighted DAC both weights are the balance: the two notices of *)
(* a transfer move the total twice.                                         *)
LEMMA TransferQuorate ==
  ASSUME Quorate, NEW f \in Accounts, NEW t \in Accounts, NEW q \in Nat,
         Transfer(f, t, q)
  PROVE  Weighed' /\ QuorumTotalIsSum'
<1> DEFINE dw == -q
           w1 == quorum[f] - q
           w2 == quorum[t] + q
           q1 == [quorum EXCEPT ![f] = w1]
           tt1 == ObservedTally(tally, ballot[f], dw, dw)
<1>1. /\ ~StakeWeighted /\ f # t
      /\ UNCHANGED <<multiplier, ballot>>
      /\ weight' = [weight EXCEPT ![f] = @ - q, ![t] = @ + q]
      /\ quorum' = weight'
      /\ tally' = ObservedTally(tt1, ballot[t], q, q)
      /\ q <= weight[f] /\ ObserveAllowed(cand, ballot[f], dw)
  BY DEF Transfer
<1>2. /\ TypeOK /\ Weighed /\ QuorumTotalIsSum /\ quorum = weight
      /\ ballot[f] \in Ballots
  BY <1>1 DEF Quorate, Exact, Weighed, TypeOK
<1>3. /\ w1 \in Nat /\ w2 \in Nat /\ dw \in Int /\ q \in Int
      /\ q1 \in [Accounts -> Nat] /\ q1[t] = quorum[t]
      /\ quorum' = [q1 EXCEPT ![t] = w2]
  BY <1>1, <1>2 DEF TypeOK
<1>4. Weighed'
  BY <1>1, <1>2 DEF Weighed
<1>5. tt1 \in [weight : Int, votes : Int]
  BY <1>1, <1>2, <1>3, ObservedType DEF TypeOK
<1>6. QuorumChange(quorum, ballot, f, w1, dw, tally, tt1, q1)
  <2>1. w1 - quorum[f] = dw /\ (dw = 0 => w1 = quorum[f])
    BY <1>2 DEF TypeOK
  <2> QED
    BY <2>1 DEF QuorumChange
<1>7. QuorumChange(q1, ballot, t, w2, q, tt1, tally', quorum')
  <2>1. w2 - q1[t] = q /\ (q = 0 => w2 = q1[t])
    BY <1>2, <1>3 DEF TypeOK
  <2> QED
    BY <1>1, <1>3, <2>1 DEF QuorumChange
<1>8. /\ ballot \in [Accounts -> Ballots] /\ quorum \in [Accounts -> Nat]
      /\ tally \in [weight : Int, votes : Int]
      /\ ballot[f].cands # {} => ballot[f].row
      /\ ballot[t].cands # {} => ballot[t].row
  BY ExactFacts DEF Quorate
<1>9. ASSUME multiplier = Multiplier0
      PROVE  tally'.weight = Total(quorum', Casting(ballot))
  <2>1. tally.weight = Total(quorum, Casting(ballot))
    BY <1>2, <1>9 DEF QuorumTotalIsSum
  <2>2. tt1.weight = Total(q1, Casting(ballot))
    <3>1. w1 \in Nat /\ dw \in Int
      BY <1>3
    <3> HIDE DEF w1, dw, tt1, q1
    <3> QED
      BY <1>6, <1>8, <2>1, <3>1, ObservedQuorum, SMTT(60)
  <2>3. w2 \in Nat /\ q \in Int /\ q1 \in [Accounts -> Nat]
    BY <1>3
  <2> HIDE DEF w2, tt1, q1
  <2> QED
    BY <1>5, <1>7, <1>8, <2>2, <2>3, ObservedQuorum, SMTT(60)
<1> QED
  BY <1>1, <1>4, <1>9 DEF QuorumTotalIsSum, Casting

LEMMA BurnQuorate ==
  ASSUME Quorate, NEW f \in Accounts, NEW q \in Nat, Burn(f, q)
  PROVE  Weighed' /\ QuorumTotalIsSum'
<1> DEFINE dw == -q
           w1 == quorum[f] - q
<1>1. /\ ~StakeWeighted
      /\ UNCHANGED <<multiplier, ballot>>
      /\ weight' = [weight EXCEPT ![f] = @ - q]
      /\ quorum' = weight'
      /\ tally' = ObservedTally(tally, ballot[f], dw, dw)
      /\ q <= weight[f]
  BY DEF Burn
<1>2. TypeOK /\ Weighed /\ QuorumTotalIsSum /\ quorum = weight
  BY <1>1 DEF Quorate, Exact, Weighed
<1>3. /\ w1 \in Nat /\ dw \in Int /\ quorum' = [quorum EXCEPT ![f] = w1]
      /\ w1 - quorum[f] = dw /\ (dw = 0 => w1 = quorum[f])
  BY <1>1, <1>2 DEF TypeOK
<1>4. Weighed'
  BY <1>1, <1>2 DEF Weighed
<1>5. QuorumChange(quorum, ballot, f, w1, dw, tally, tally', quorum')
  BY <1>1, <1>3 DEF QuorumChange
<1>6. /\ ballot \in [Accounts -> Ballots] /\ quorum \in [Accounts -> Nat]
      /\ tally \in [weight : Int, votes : Int]
      /\ ballot[f].cands # {} => ballot[f].row
  BY ExactFacts DEF Quorate
<1>7. ASSUME multiplier = Multiplier0
      PROVE  tally'.weight = Total(quorum', Casting(ballot))
  <2>1. tally.weight = Total(quorum, Casting(ballot))
    BY <1>2, <1>7 DEF QuorumTotalIsSum
  <2>2. w1 \in Nat /\ dw \in Int
    BY <1>3
  <2> HIDE DEF w1, dw
  <2> QED
    BY <1>5, <1>6, <2>1, <2>2, ObservedQuorum, SMTT(60)
<1> QED
  BY <1>1, <1>4, <1>7 DEF QuorumTotalIsSum, Casting

(* The issuer has no vote: as for the other totals (IssueExact).            *)
LEMMA IssueQuorate ==
  ASSUME Quorate, NEW q \in Nat, Issue(q), StakeWeighted \/ Issuer \notin Joiners
  PROVE  Weighed' /\ QuorumTotalIsSum'
<1>1. /\ UNCHANGED <<ballot, tally, multiplier>>
      /\ weight' = [weight EXCEPT ![Issuer] = @ + q]
      /\ quorum' = weight'
      /\ ~StakeWeighted /\ Issuer \notin Joiners
  BY DEF Issue, tokenVars, voteVars
<1>2. TypeOK /\ Weighed /\ QuorumTotalIsSum /\ quorum = weight
  BY <1>1 DEF Quorate, Exact, Weighed
<1>3. Issuer \in Accounts /\ ballot[Issuer].cands = {}
  BY <1>1, ConstantsAssumption DEF Quorate, Exact, Registered
<1>4. \A v \in Casting(ballot) : quorum'[v] = quorum[v]
  BY <1>1, <1>2, <1>3 DEF Casting, TypeOK
<1>5. Total(quorum', Casting(ballot)) = Total(quorum, Casting(ballot))
  BY <1>4, TotalSame
<1>6. Weighed'
  BY <1>1, <1>2 DEF Weighed
<1>7. QuorumTotalIsSum'
  <2>1. multiplier = Multiplier0 => tally.weight = Total(quorum', Casting(ballot))
    BY <1>2, <1>5 DEF QuorumTotalIsSum
  <2> QED
    BY <1>1, <2>1 DEF QuorumTotalIsSum, Casting
<1> QED
  BY <1>6, <1>7

LEMMA VoteCustQuorate ==
  ASSUME Quorate, NEW a \in Accounts, NEW new \in SUBSET Accounts, VoteCust(a, new)
  PROVE  Weighed' /\ QuorumTotalIsSum'
<1> DEFINE b == IF ballot[a].row /\ new = {} THEN NoBallot
                ELSE [row |-> TRUE, cands |-> new, ts |-> now]
<1>1. /\ UNCHANGED <<stake, delay, multiplier, weight, quorum>>
      /\ ballot' = [ballot EXCEPT ![a] = b]
      /\ tally' = Tallied(tally, weight[a], quorum[a], ballot[a].cands, new)
  BY DEF VoteCust, tokenVars, weightVars
<1>2. TypeOK /\ Weighed /\ QuorumTotalIsSum
  BY DEF Quorate, Exact
<1>3. b \in Ballots /\ b.cands = new
  BY <1>2 DEF Ballots, NoBallot, TypeOK
<1>4. Recast(ballot, a, b, ballot')
  BY <1>1 DEF Recast
<1> HIDE DEF b
<1>5. Weighed'
  BY <1>1, <1>2 DEF Weighed
<1>6. ASSUME multiplier = Multiplier0
      PROVE  tally'.weight = Total(quorum, Casting(ballot'))
  <2>1. /\ weight \in [Accounts -> Nat] /\ quorum \in [Accounts -> Nat]
        /\ ballot \in [Accounts -> Ballots]
        /\ tally \in [weight : Int, votes : Int]
    BY <1>2 DEF TypeOK
  <2>2. tally.weight = Total(quorum, Casting(ballot))
    BY <1>2, <1>6 DEF QuorumTotalIsSum
  <2>3. weight[a] = 0 => quorum[a] = 0
    BY <1>2, <1>6, NoWeightNoQuorum
  <2>4. Tallied(tally, weight[a], quorum[a], ballot[a].cands, b.cands).weight =
          Total(quorum, Casting(ballot'))
    BY <1>3, <1>4, <2>1, <2>2, <2>3, RecastQuorum, SMTT(60)
  <2> QED
    BY <1>1, <1>3, <2>4
<1>7. QuorumTotalIsSum'
  BY <1>1, <1>6 DEF QuorumTotalIsSum, Casting
<1> QED
  BY <1>5, <1>7

(* Once the multiplier is raised it never comes back, so that nothing has to*)
(* be shown any more.                                                       *)
LEMMA UpdateConfigQuorate ==
  ASSUME Quorate, NEW m \in Nat, UpdateConfig(m)
  PROVE  Weighed' /\ QuorumTotalIsSum'
<1>1. multiplier' = m /\ m > multiplier /\ StakeWeighted
  BY DEF UpdateConfig
<1>2. multiplier \in Nat /\ multiplier >= Multiplier0 /\ Multiplier0 \in Nat
  BY ConstantsAssumption DEF Quorate, Weighed, Exact, TypeOK
<1>3. multiplier' > Multiplier0 /\ multiplier' # Multiplier0
  BY <1>1, <1>2
<1> QED
  BY <1>1, <1>2, <1>3 DEF Weighed, QuorumTotalIsSum

LEMMA InitQuorate == Init => Quorate
<1> SUFFICES ASSUME Init PROVE Quorate
  OBVIOUS
<1>1. Exact
  BY InitExact
<1>2. Weighed
  <2>1. /\ multiplier = Multiplier0 /\ Multiplier0 \in Nat \ {0} /\ quorum = weight
        /\ \A a \in Accounts : stake[a] = 0 /\ delay[a] = MinStakeTime
        /\ MinStakeTime \in Nat /\ MaxStakeTime \in Nat \ {0}
    BY ConstantsAssumption DEF Init
  <2>2. StakeWeight(0, MinStakeTime, multiplier) = 0
    <3> DEFINE k == MaxStakeTime + MinStakeTime * multiplier
    <3>1. k \in Nat
      BY <2>1, NatProduct
    <3>2. StakeWeight(0, MinStakeTime, multiplier) = (0 * k) \div MaxStakeTime
      BY DEF StakeWeight
    <3> HIDE DEF k
    <3>3. 0 * k = 0 /\ 0 \div MaxStakeTime = 0
      BY <2>1, <3>1
    <3> QED
      BY <3>2, <3>3
  <2>3. StakeWeighted => \A a \in Accounts : weight[a] = 0
    BY DEF Init
  <2> QED
    BY <2>1, <2>2, <2>3 DEF Weighed
<1>3. QuorumTotalIsSum
  <2>1. Casting(ballot) = {}
    BY DEF Init, Casting, NoBallot
  <2>2. tally.weight = 0
    BY DEF Init
  <2> QED
    BY <2>1, <2>2, TotalEmpty DEF QuorumTotalIsSum
<1> QED
  BY <1>1, <1>2, <1>3 DEF Quorate

LEMMA StepQuorate ==
  ASSUME StakeWeighted \/ Issuer \notin Joiners
  PROVE  Quorate /\ [Next]_vars => Quorate'
<1> SUFFICES ASSUME Quorate, [Next]_vars PROVE Weighed' /\ QuorumTotalIsSum'
  BY StepExact DEF Quorate
<1>0. TypeOK
  BY DEF Quorate, Exact
<1>1. CASE Tick \/ NewMemTerms \/ UNCHANGED vars
  BY <1>1, QuietQuorate
  DEF Tick, NewMemTerms, vars, tokenVars, weightVars, voteVars
<1>2. ASSUME NEW a \in Accounts, MemberReg(a) \/ MemberUnreg(a)
      PROVE  Weighed' /\ QuorumTotalIsSum'
  BY <1>2, QuietQuorate DEF MemberReg, MemberUnreg, weightVars, voteVars
<1>3. ASSUME NEW a \in Accounts, Nominate(a) \/ Withdraw(a)
      PROVE  Weighed' /\ QuorumTotalIsSum'
  BY <1>3, QuietQuorate DEF Nominate, Withdraw, tokenVars, weightVars
<1>4. ASSUME NEW on \in BOOLEAN, Maintenance(on)
      PROVE  Weighed' /\ QuorumTotalIsSum'
  BY <1>4, QuietQuorate DEF Maintenance, tokenVars, weightVars
<1>5. ASSUME NEW a \in Accounts, StakeStep(a)
      PROVE  Weighed' /\ QuorumTotalIsSum'
  BY <1>0, <1>5, StakeStepOrdered, ObserveQuorate
<1>6. ASSUME NEW m \in 1 .. MaxMultiplier, UpdateConfig(m)
      PROVE  Weighed' /\ QuorumTotalIsSum'
  BY <1>6, UpdateConfigQuorate, ConstantsAssumption
<1>7. ASSUME NEW f \in Accounts, NEW t \in Accounts, NEW q \in 1 .. MaxBalance,
             Transfer(f, t, q)
      PROVE  Weighed' /\ QuorumTotalIsSum'
  BY <1>7, TransferQuorate, ConstantsAssumption
<1>8. ASSUME NEW f \in Accounts, NEW q \in 1 .. MaxBalance, Burn(f, q)
      PROVE  Weighed' /\ QuorumTotalIsSum'
  BY <1>8, BurnQuorate, ConstantsAssumption
<1>9. ASSUME NEW q \in 1 .. MaxBalance, Issue(q)
      PROVE  Weighed' /\ QuorumTotalIsSum'
  BY <1>9, IssueQuorate, ConstantsAssumption
<1>10. ASSUME NEW a \in Accounts, NEW new \in SUBSET Accounts, VoteCust(a, new)
       PROVE  Weighed' /\ QuorumTotalIsSum'
  BY <1>10, VoteCustQuorate
<1> QED
  BY <1>1, <1>2, <1>3, <1>4, <1>5, <1>6, <1>7, <1>8, <1>9, <1>10
  DEF Next, UserNext, StakeStep

(* QuorumTotalIsSum: the turnout that elections are measured by is that of  *)
(* those who vote (total_weight_of_votes), until updateconfig raises the    *)
(* multiplier; the run multiplier shows what happens then.                  *)
THEOREM QuorumTotalCorrect ==
  ASSUME StakeWeighted \/ Issuer \notin Joiners
  PROVE  Spec => []QuorumTotalIsSum
<1>1. Quorate => QuorumTotalIsSum
  BY DEF Quorate
<1> QED
  BY <1>1, InitQuorate, StepQuorate, PTL DEF Spec

-----------------------------------------------------------------------------
(* The repair of the tallies                                                *)

(* What holds of ballots and weights inside and outside the window, whatever*)
(* the tallies say.                                                         *)
Grounded ==
  /\ TypeOK
  /\ Registered
  /\ VotesForRows(cand, ballot)
  /\ \A a \in Accounts : /\ ~ballot[a].row => ballot[a] = NoBallot
                         /\ weight[a] = 0 => quorum[a] = 0
  /\ ~StakeWeighted => quorum = weight

(* The ballots of some accounts alone *)
Partial(D) == [v \in Accounts |-> IF v \in D THEN ballot[v] ELSE NoBallot]

(* Tallies t that are those of the ballots bt *)
TalliesExact(t, bt) ==
  /\ t.cand \in [Accounts -> Candidates]
  /\ t.tally \in [weight : Int, votes : Int]
  /\ \A c \in Accounts : /\ t.cand[c].row <=> cand[c].row
                         /\ t.cand[c].active <=> cand[c].active
                         /\ RowExact(t.cand[c], weight, bt, c)
                         /\ t.cand[c].voters = Cardinality(VotersOf(bt, c))
  /\ t.tally.votes = Total(weight, Casting(bt))
  /\ t.tally.weight = Total(quorum, Casting(bt))

LEMMA PartialBallots ==
  ASSUME Grounded, NEW D, NEW v \in Accounts \ D
  PROVE  /\ Partial(D) \in [Accounts -> Ballots]
         /\ Recast(Partial(D), v, ballot[v], Partial(D \cup {v}))
         /\ Partial(D)[v] = NoBallot
BY DEF Grounded, TypeOK, Partial, Recast, Ballots, NoBallot

(* The recount of one more voter of b, on a candidate *)
LEMMA CountedMore ==
  ASSUME NEW r \in Candidates, NEW c, NEW new, c \in new => r.row
  PROVE  LET n == Counted(r, c, {}, new)
         IN  /\ n \in Candidates
             /\ n.power = r.power /\ n.rwt = r.rwt /\ n.avg = r.avg
             /\ (n.row <=> r.row) /\ n.active = r.active
             /\ n.voters = r.voters + (IF c \in new THEN 1 ELSE 0)
<1> DEFINE k == IF c \in new THEN r.voters + 1 ELSE r.voters
<1>1. k \in Nat /\ k = r.voters + (IF c \in new THEN 1 ELSE 0)
  BY DEF Candidates
<1>2. Counted(r, c, {}, new) = [r EXCEPT !.voters = k]
  BY DEF Counted
<1> HIDE DEF k
<1> QED
  BY <1>1, <1>2 DEF Candidates

(* A row replayed adds its ballot to those the tallies are of.              *)
LEMMA ReplayedExact ==
  ASSUME Grounded, NEW D, NEW v \in Accounts \ D, NEW t,
         TalliesExact(t, Partial(D)), NEW u, u = Replayed(t, v)
  PROVE  TalliesExact(u, Partial(D \cup {v}))
<1> DEFINE b == ballot[v]
           bt == Partial(D)
           bt1 == Partial(D \cup {v})
           counted(c) == Counted(t.cand[c], c, {}, b.cands)
<1>1. /\ bt \in [Accounts -> Ballots] /\ Recast(bt, v, b, bt1) /\ v \in Accounts
      /\ bt[v].cands = {} /\ bt[v].ts = 0
      /\ b \in Ballots /\ b.ts \in Nat
      /\ weight \in [Accounts -> Nat] /\ quorum \in [Accounts -> Nat]
      /\ weight[v] = 0 => quorum[v] = 0
  <2>1. /\ bt \in [Accounts -> Ballots] /\ Recast(bt, v, b, bt1)
        /\ bt[v] = NoBallot
    BY PartialBallots
  <2>2. v \in Accounts /\ b \in Ballots /\ b.ts \in Nat
    BY DEF Grounded, TypeOK, Ballots
  <2>3. NoBallot.cands = {} /\ NoBallot.ts = 0
    BY DEF NoBallot
  <2>4. /\ weight \in [Accounts -> Nat] /\ quorum \in [Accounts -> Nat]
        /\ weight[v] = 0 => quorum[v] = 0
    BY DEF Grounded, TypeOK
  <2> HIDE DEF b, bt, bt1
  <2> QED
    BY <2>1, <2>2, <2>3, <2>4
<1>2. /\ u.cand = [c \in Accounts |-> Moved(counted(c), c, weight[v], {}, 0, b.cands, b.ts)]
      /\ u.tally = Tallied(t.tally, weight[v], quorum[v], {}, b.cands)
  BY DEF Replayed
<1>3. \A c \in Accounts : c \in b.cands => t.cand[c].row
  BY DEF Grounded, VotesForRows, TalliesExact
<1> HIDE DEF b, bt, bt1
<1>4. ASSUME NEW c \in Accounts
      PROVE  /\ u.cand[c] \in Candidates
             /\ u.cand[c].row <=> cand[c].row
             /\ u.cand[c].active <=> cand[c].active
             /\ RowExact(u.cand[c], weight, bt1, c)
             /\ u.cand[c].voters = Cardinality(VotersOf(bt1, c))
  <2> DEFINE q == t.cand[c]
             r == counted(c)
             n == u.cand[c]
  <2>1. /\ q \in Candidates /\ (q.row <=> cand[c].row)
        /\ (q.active <=> cand[c].active)
        /\ RowExact(q, weight, bt, c) /\ q.voters = Cardinality(VotersOf(bt, c))
    BY DEF TalliesExact, bt
  <2>2. c \in b.cands => q.row
    BY <1>3
  <2>3. n = Moved(r, c, weight[v], {}, 0, b.cands, b.ts)
    BY <1>2
  <2>4. r = Counted(q, c, {}, b.cands)
    OBVIOUS
  <2> HIDE DEF q, r, n
  <2>5. /\ r \in Candidates
        /\ r.power = q.power /\ r.rwt = q.rwt /\ r.avg = q.avg
        /\ (r.row <=> q.row) /\ r.active = q.active
        /\ r.voters = q.voters + (IF c \in b.cands THEN 1 ELSE 0)
    BY <2>1, <2>2, <2>4, CountedMore
  <2>6. RowExact(r, weight, bt, c)
    BY <2>1, <2>5 DEF RowExact
  <2>7. RowMoved(n, r, weight, bt, v, b, b.ts, c)
    BY <1>1, <2>3 DEF RowMoved
  <2>8. c \in bt[v].cands \cup b.cands => r.row
    BY <1>1, <2>2, <2>5
  <2>9. /\ RowExact(n, weight, bt1, c)
        /\ (n.row <=> r.row) /\ n.active = r.active /\ n.voters = r.voters
    <3>1. t.cand \in [Accounts -> Candidates]
      BY DEF TalliesExact
    <3>2. /\ weight \in [Accounts -> Nat] /\ bt \in [Accounts -> Ballots]
          /\ v \in Accounts /\ b \in Ballots /\ b.ts \in Nat
          /\ Recast(bt, v, b, bt1)
      BY <1>1
    <3> HIDE DEF counted
    <3> QED
      BY <2>6, <2>7, <2>8, <3>1, <3>2, RecastSums
  <2>10. Cardinality(VotersOf(bt1, c)) =
           Cardinality(VotersOf(bt, c))
             - (IF c \in bt[v].cands THEN 1 ELSE 0)
             + (IF c \in b.cands THEN 1 ELSE 0)
    BY <1>1, RecastVoters
  <2>11. q.voters \in Nat
    BY <2>1 DEF Candidates
  <2>12. n.voters = Cardinality(VotersOf(bt1, c))
    BY <1>1, <2>1, <2>5, <2>9, <2>10, <2>11
  <2> QED
    BY <2>1, <2>5, <2>9, <2>12 DEF n, RowExact
<1>5. /\ t.tally \in [weight : Int, votes : Int]
      /\ t.tally.votes = Total(weight, Casting(bt))
      /\ t.tally.weight = Total(quorum, Casting(bt))
  BY DEF TalliesExact, bt
<1>6. u.tally \in [weight : Int, votes : Int]
  BY <1>1, <1>2, <1>5, TalliedType
<1>7. u.tally.votes = Total(weight, Casting(bt1))
  <2>1. quorum[v] \in Int
    BY <1>1
  <2>2. Tallied(t.tally, weight[v], quorum[v], bt[v].cands, b.cands).votes =
          Total(weight, Casting(bt1))
    <3> DEFINE tt == t.tally
    <3>1. /\ tt \in [weight : Int, votes : Int] /\ tt.votes = Total(weight, Casting(bt))
          /\ weight \in [Accounts -> Nat] /\ bt \in [Accounts -> Ballots]
          /\ v \in Accounts /\ b \in Ballots
          /\ Recast(bt, v, b, bt1)
      BY <1>1, <1>5
    <3> HIDE DEF tt, counted
    <3>2. Tallied(tt, weight[v], quorum[v], bt[v].cands, b.cands).votes =
            Total(weight, Casting(bt1))
      BY <2>1, <3>1, RecastVotes
    <3> QED
      BY <3>2 DEF tt
  <2> QED
    BY <1>1, <1>2, <2>2
<1>8. u.tally.weight = Total(quorum, Casting(bt1))
  <2>1. Tallied(t.tally, weight[v], quorum[v], bt[v].cands, b.cands).weight =
          Total(quorum, Casting(bt1))
    <3> DEFINE tt == t.tally
    <3>1. /\ tt \in [weight : Int, votes : Int] /\ tt.weight = Total(quorum, Casting(bt))
          /\ weight \in [Accounts -> Nat] /\ quorum \in [Accounts -> Nat]
          /\ bt \in [Accounts -> Ballots] /\ v \in Accounts /\ b \in Ballots
          /\ weight[v] = 0 => quorum[v] = 0
          /\ Recast(bt, v, b, bt1)
      BY <1>1, <1>5
    <3> HIDE DEF tt, counted
    <3>2. Tallied(tt, weight[v], quorum[v], bt[v].cands, b.cands).weight =
            Total(quorum, Casting(bt1))
      BY <3>1, RecastQuorum
    <3> QED
      BY <3>2 DEF tt
  <2> QED
    BY <1>1, <1>2, <2>1
<1>9. u.cand \in [Accounts -> Candidates]
  BY <1>2, <1>4
<1> QED
  BY <1>4, <1>6, <1>7, <1>8, <1>9 DEF TalliesExact, bt1

-----------------------------------------------------------------------------
(* The tallies after the first i places, given those before.                *)
After(f, i, batch) ==
  IF i = 0 THEN Tallies
  ELSE IF i \in batch THEN Replayed(f[i - 1], Order[i])
  ELSE f[i - 1]

(* Every table up to some place exists, as the smallest place that has none *)
(* would have one: the one of the place before with one entry more.         *)
LEMMA ReplayUpTo ==
  ASSUME NEW batch, NEW m \in Nat
  PROVE  \E f : f = [i \in 0 .. m |-> After(f, i, batch)]
<1> DEFINE Ok(n) == \E f : f = [i \in 0 .. n |-> After(f, i, batch)]
           Bad == {n \in Nat : ~Ok(n)}
<1> SUFFICES ASSUME Bad # {} PROVE FALSE
  OBVIOUS
<1>1. IsWellFoundedOn(OpToRel(<, Nat), Nat)
  BY NatLessThanWellFounded
<1>2. \E n \in Bad : \A k \in Bad : ~ (<<k, n>> \in OpToRel(<, Nat))
  <2>1. Bad \subseteq Nat
    OBVIOUS
  <2> HIDE DEF Bad
  <2> QED
    BY <1>1, <2>1, WFMin
<1>3. PICK n \in Bad : \A k \in Bad : ~ (<<k, n>> \in OpToRel(<, Nat))
  BY <1>2
<1>4. n \in Nat /\ ~Ok(n) /\ \A k \in Nat : k < n => Ok(k)
  BY <1>3 DEF OpToRel
<1>5. CASE n = 0
  <2>1. LET f == [i \in 0 .. 0 |-> Tallies]
        IN  f = [i \in 0 .. 0 |-> After(f, i, batch)]
    BY DEF After
  <2> QED
    BY <1>4, <1>5, <2>1
<1>6. CASE n > 0
  <2>1. PICK g : g = [i \in 0 .. n - 1 |-> After(g, i, batch)]
    BY <1>4, <1>6
  <2> DEFINE f == [i \in 0 .. n |-> IF i < n THEN g[i] ELSE After(g, n, batch)]
  <2>2. ASSUME NEW i \in 0 .. n PROVE f[i] = After(f, i, batch)
    <3>1. i # 0 => i - 1 \in 0 .. n - 1 /\ f[i - 1] = g[i - 1]
      BY <1>4
    <3>2. After(f, i, batch) = After(g, i, batch)
      BY <3>1 DEF After
    <3>3. CASE i < n
      <4>1. i \in 0 .. n - 1 /\ f[i] = g[i]
        BY <1>4, <3>3
      <4> HIDE DEF f
      <4> QED
        BY <2>1, <3>2, <4>1
    <3>4. CASE i = n
      BY <3>2, <3>4
    <3> QED
      BY <1>4, <3>3, <3>4
  <2>3. f = [i \in 0 .. n |-> After(f, i, batch)]
    <3>1. f = [i \in 0 .. n |-> f[i]]
      OBVIOUS
    <3> HIDE DEF f
    <3> QED
      BY <2>2, <3>1
  <2> QED
    BY <1>4, <2>3
<1> QED
  BY <1>4, <1>5, <1>6

LEMMA LenOrder == Len(Order) \in Nat /\ DOMAIN Order = Places
BY RebuildAssumption DEF RebuildAssumption, Places

LEMMA ReplayTable ==
  ASSUME NEW batch
  PROVE  \E f : /\ Replay(batch) = f[Len(Order)]
                /\ \A i \in 0 .. Len(Order) : f[i] = After(f, i, batch)
<1> DEFINE m == Len(Order)
           T(f) == f = [i \in 0 .. m |-> After(f, i, batch)]
           e == CHOOSE f : T(f)
<1>1. m \in Nat
  BY LenOrder
<1>2. \E f : T(f)
  BY <1>1, ReplayUpTo
<1>3. T(e)
  BY <1>2
<1>4. Replay(batch) = e[m]
  BY DEF Replay, After
<1> HIDE DEF e
<1>5. \A i \in 0 .. m : e[i] = After(e, i, batch)
  BY <1>3
<1> QED
  BY <1>4, <1>5

(* The voters at some places *)
VotersAt(S) == {Order[i] : i \in S}

UpTo(batch, i) == {j \in batch : j <= i}

LEMMA UpToFacts ==
  ASSUME NEW m \in Nat, NEW batch \in SUBSET (1 .. m)
  PROVE  /\ UpTo(batch, 0) = {} /\ UpTo(batch, m) = batch
         /\ \A i \in 1 .. m :
              /\ i \notin batch => UpTo(batch, i) = UpTo(batch, i - 1)
              /\ i \in batch => UpTo(batch, i) = UpTo(batch, i - 1) \cup {i}
              /\ \A j \in UpTo(batch, i - 1) : j \in 1 .. m /\ j # i
<1>1. \A j \in batch : j \in Nat /\ 1 <= j /\ j <= m
  OBVIOUS
<1>2. \A j : j \in UpTo(batch, m) <=> j \in batch
  BY <1>1 DEF UpTo
<1>3. \A j : j \notin UpTo(batch, 0)
  <2>1. \A j \in batch : ~(j <= 0)
    BY <1>1
  <2> QED
    BY <2>1 DEF UpTo
<1>4. ASSUME NEW i \in 1 .. m
      PROVE  /\ i \notin batch => UpTo(batch, i) = UpTo(batch, i - 1)
             /\ i \in batch => UpTo(batch, i) = UpTo(batch, i - 1) \cup {i}
             /\ \A j \in UpTo(batch, i - 1) : j \in 1 .. m /\ j # i
  <2>1. \A j \in batch : j <= i <=> j <= i - 1 \/ j = i
    BY <1>1
  <2>2. i \notin batch => UpTo(batch, i) = UpTo(batch, i - 1)
    BY <2>1 DEF UpTo
  <2>3. i \in batch => UpTo(batch, i) = UpTo(batch, i - 1) \cup {i}
    BY <2>1 DEF UpTo
  <2>4. \A j \in UpTo(batch, i - 1) : j \in 1 .. m /\ j # i
    BY <1>1 DEF UpTo
  <2> QED
    BY <2>2, <2>3, <2>4
<1>5. UpTo(batch, 0) = {} /\ UpTo(batch, m) = batch
  BY <1>2, <1>3
<1> QED
  BY <1>4, <1>5

(* A batch of rows that were not replayed yet adds their ballots.           *)
LEMMA BatchExact ==
  ASSUME Grounded, NEW D \in SUBSET Accounts, NEW batch \in SUBSET Places,
         \A i \in batch : Order[i] \notin D,
         TalliesExact(Tallies, Partial(D))
  PROVE  TalliesExact(Replay(batch), Partial(D \cup VotersAt(batch)))
<1> DEFINE m == Len(Order)
           Good(t, i) == TalliesExact(t, Partial(D \cup VotersAt(UpTo(batch, i))))
<1>1. PICK f : /\ Replay(batch) = f[Len(Order)]
               /\ \A i \in 0 .. Len(Order) : f[i] = After(f, i, batch)
  BY ReplayTable
<1>2. /\ m \in Nat /\ batch \subseteq 1 .. m
      /\ \A i \in 1 .. m : Order[i] \in Accounts
      /\ \A i, j \in 1 .. m : Order[i] = Order[j] => i = j
  BY LenOrder, RebuildAssumption DEF RebuildAssumption, Places
<1> DEFINE Step(i) ==
             /\ i \notin batch => UpTo(batch, i) = UpTo(batch, i - 1)
             /\ i \in batch => UpTo(batch, i) = UpTo(batch, i - 1) \cup {i}
             /\ \A j \in UpTo(batch, i - 1) : j \in 1 .. m /\ j # i
<1>8. /\ UpTo(batch, 0) = {} /\ UpTo(batch, m) = batch
      /\ \A i \in 1 .. m : Step(i)
  <2>1. m \in Nat /\ batch \in SUBSET (1 .. m)
    BY <1>2
  <2> HIDE DEF m
  <2> QED
    BY <2>1, UpToFacts
<1>3. Good(f[0], 0)
  <2>2. D \cup VotersAt(UpTo(batch, 0)) = D
    BY <1>8 DEF VotersAt
  <2>3. f[0] = Tallies
    BY <1>1, <1>2 DEF After
  <2> QED
    BY <2>2, <2>3
<1>4. ASSUME NEW i \in 1 .. m, Good(f[i - 1], i - 1)
      PROVE  Good(f[i], i)
  <2>1. f[i] = IF i \in batch THEN Replayed(f[i - 1], Order[i]) ELSE f[i - 1]
    BY <1>1, <1>2 DEF After
  <2>2. CASE i \notin batch
    <3>1. UpTo(batch, i) = UpTo(batch, i - 1)
      BY <1>8, <2>2
    <3> QED
      BY <1>4, <2>1, <2>2, <3>1
  <2>3. CASE i \in batch
    <3> DEFINE E == D \cup VotersAt(UpTo(batch, i - 1))
               v == Order[i]
    <3>1. /\ UpTo(batch, i) = UpTo(batch, i - 1) \cup {i}
          /\ \A j \in UpTo(batch, i - 1) : j \in 1 .. m /\ j # i
      BY <1>8, <2>3
    <3>2. v \in Accounts \ E
      <4>1. v \in Accounts /\ v \notin D
        BY <1>2, <2>3
      <4>2. \A j \in UpTo(batch, i - 1) : Order[j] # v
        BY <1>2, <3>1
      <4> QED
        BY <4>1, <4>2 DEF VotersAt
    <3>3. D \cup VotersAt(UpTo(batch, i)) = E \cup {v}
      BY <3>1 DEF VotersAt
    <3>4. TalliesExact(f[i - 1], Partial(E))
      BY <1>4
    <3>5. f[i] = Replayed(f[i - 1], v)
      BY <2>1, <2>3
    <3> HIDE DEF E, v
    <3>6. TalliesExact(f[i], Partial(E \cup {v}))
      BY <3>2, <3>4, <3>5, ReplayedExact
    <3> QED
      BY <3>3, <3>6
  <2> QED
    BY <2>2, <2>3
<1> DEFINE Bad == {i \in 0 .. m : ~Good(f[i], i)}
<1>5. Bad = {}
  <2> SUFFICES ASSUME Bad # {} PROVE FALSE
    OBVIOUS
  <2>1. \E n \in Bad : \A k \in Bad : ~ (<<k, n>> \in OpToRel(<, Nat))
    <3>1. Bad \subseteq Nat
      OBVIOUS
    <3>2. IsWellFoundedOn(OpToRel(<, Nat), Nat)
      BY NatLessThanWellFounded
    <3> HIDE DEF Bad
    <3> QED
      BY <3>1, <3>2, WFMin
  <2>2. PICK n \in Bad : \A k \in Bad : ~ (<<k, n>> \in OpToRel(<, Nat))
    BY <2>1
  <2> HIDE DEF Good
  <2>3. n \in 0 .. m /\ ~Good(f[n], n)
    BY <2>2
  <2>4. CASE n = 0
    BY <1>3, <2>3, <2>4
  <2>5. CASE n > 0
    <3>1. n \in 1 .. m /\ n - 1 \in 0 .. m /\ n - 1 < n /\ n \in Nat
      BY <1>2, <2>3, <2>5
    <3>2. n - 1 \notin Bad
      <4>1. <<n - 1, n>> \in OpToRel(<, Nat)
        BY <3>1 DEF OpToRel
      <4> HIDE DEF Bad
      <4> QED
        BY <2>2, <4>1
    <3>3. Good(f[n - 1], n - 1)
      BY <3>1, <3>2
    <3> QED
      BY <1>4, <2>3, <3>1, <3>3
  <2> QED
    BY <1>2, <2>3, <2>4, <2>5
<1>6. Good(f[m], m)
  <2>1. m \in 0 .. m
    BY <1>2
  <2> HIDE DEF Good
  <2> QED
    BY <1>5, <2>1
<1> QED
  BY <1>1, <1>6, <1>8

-----------------------------------------------------------------------------
(* What the members do in the window leaves the replay's data alone.        *)

(* Ballots and the weights of those who cast one *)
SameData ==
  /\ UNCHANGED <<ballot, tally, maintenance>>
  /\ \A v \in Accounts : ballot[v].row =>
       weight'[v] = weight[v] /\ quorum'[v] = quorum[v]
  /\ \A c \in Accounts : /\ cand'[c].power = cand[c].power
                         /\ cand'[c].rwt = cand[c].rwt
                         /\ cand'[c].avg = cand[c].avg
                         /\ cand'[c].voters = cand[c].voters
                         /\ cand[c].row => cand'[c].row

LEMMA StakeStepFrozen ==
  ASSUME Grounded, maintenance, NEW a \in Accounts, StakeStep(a)
  PROVE  UNCHANGED <<ballot, tally, maintenance, weight, quorum, cand>>
<1>1. PICK s \in Nat, d \in MinStakeTime .. MaxStakeTime : StakeObserved(a, s, d)
  BY StakeStepObserved DEF Grounded
<1> QED
  BY <1>1 DEF StakeObserved, Open

(* Only issue writes a weight in the window, and only without stakevote.    *)
LEMMA WindowStep ==
  ASSUME Grounded, maintenance, UserNext, StakeWeighted \/ Issuer \notin Joiners
  PROVE  /\ SameData
         /\ StakeWeighted => UNCHANGED <<weight, quorum>>
<1>0. /\ cand \in [Accounts -> Candidates] /\ weight \in [Accounts -> Nat]
      /\ quorum \in [Accounts -> Nat] /\ StakeWeighted \in BOOLEAN
  BY ConstantsAssumption DEF Grounded, TypeOK
<1>1. CASE UNCHANGED <<ballot, tally, maintenance, weight, quorum, cand>>
  BY <1>1 DEF SameData
<1>2. CASE Tick \/ NewMemTerms \/ \E m \in 1 .. MaxMultiplier : UpdateConfig(m)
  BY <1>1, <1>2 DEF Tick, NewMemTerms, UpdateConfig, tokenVars, weightVars, voteVars
<1>3. ASSUME NEW a \in Accounts, MemberReg(a) \/ MemberUnreg(a)
      PROVE  UNCHANGED <<ballot, tally, maintenance, weight, quorum, cand>>
  BY <1>3 DEF MemberReg, MemberUnreg, weightVars, voteVars
<1>4. ASSUME NEW a \in Accounts, Nominate(a) \/ Withdraw(a)
      PROVE  SameData /\ UNCHANGED <<weight, quorum>>
  <2>1. UNCHANGED <<ballot, tally, maintenance, weight, quorum>>
    BY <1>4 DEF Nominate, Withdraw, tokenVars, weightVars
  <2>2. \/ cand' = [cand EXCEPT ![a].row = TRUE, ![a].active = TRUE]
        \/ cand' = [cand EXCEPT ![a].active = FALSE]
    BY <1>4 DEF Nominate, Withdraw
  <2>3. \A c \in Accounts : /\ cand'[c].power = cand[c].power
                            /\ cand'[c].rwt = cand[c].rwt
                            /\ cand'[c].avg = cand[c].avg
                            /\ cand'[c].voters = cand[c].voters
                            /\ cand[c].row => cand'[c].row
    BY <1>0, <2>2 DEF Candidates
  <2> QED
    BY <2>1, <2>3 DEF SameData
<1>5. ASSUME NEW a \in Accounts, StakeStep(a)
      PROVE  UNCHANGED <<ballot, tally, maintenance, weight, quorum, cand>>
  BY <1>5, StakeStepFrozen
<1>6. ASSUME NEW q \in 1 .. MaxBalance, Issue(q)
      PROVE  SameData /\ ~StakeWeighted
  <2>1. /\ UNCHANGED <<ballot, tally, maintenance, cand>> /\ ~StakeWeighted
        /\ weight' = [weight EXCEPT ![Issuer] = @ + q] /\ quorum' = weight'
    BY <1>6 DEF Issue, voteVars
  <2>2. ~ballot[Issuer].row /\ Issuer \in Accounts
    BY <2>1, ConstantsAssumption DEF Grounded, Registered
  <2>3. quorum = weight
    BY <2>1 DEF Grounded
  <2> QED
    BY <1>0, <2>1, <2>2, <2>3 DEF SameData
<1>7. ASSUME NEW f \in Accounts, NEW t \in Accounts, NEW q \in 1 .. MaxBalance,
             Transfer(f, t, q) \/ Burn(f, q)
      PROVE  FALSE
  BY <1>7 DEF Transfer, Burn, Open
<1>8. ASSUME NEW a \in Accounts, NEW new \in SUBSET Accounts, VoteCust(a, new)
      PROVE  FALSE
  BY <1>8 DEF VoteCust, Open
<1> QED
  BY <1>1, <1>2, <1>3, <1>4, <1>5, <1>6, <1>7, <1>8 DEF UserNext, StakeStep

-----------------------------------------------------------------------------
(* Grounded holds always: of the members' steps                             *)

LEMMA GroundedKeeps ==
  ASSUME Grounded, TypeOK', ballot' = ballot, now' >= now,
         \A a \in Accounts : /\ member'[a] # "none" => member[a] # "none" \/ a \in Joiners
                             /\ cand[a].row => cand'[a].row
                             /\ cand'[a].active => cand'[a].row
                             /\ weight'[a] = 0 => quorum'[a] = 0,
         ~StakeWeighted => quorum' = weight'
  PROVE  Grounded'
<1>1. Registered'
  <2>1. \A a \in Accounts : ballot[a].ts \in Nat
    BY DEF Grounded, TypeOK, Ballots
  <2>2. now \in Nat /\ now' \in Nat
    BY DEF Grounded, TypeOK
  <2>3. \A a \in Accounts : ballot'[a].ts <= now'
    BY <2>1, <2>2 DEF Grounded, Registered
  <2> QED
    BY <2>3 DEF Grounded, Registered
<1>2. VotesForRows(cand, ballot)'
  BY DEF Grounded, VotesForRows
<1> QED
  BY <1>1, <1>2 DEF Grounded

(* ... and where members stay and the clock stands                          *)
LEMMA GroundedAlike ==
  ASSUME Grounded, TypeOK', UNCHANGED <<now, member, ballot>>,
         \A a \in Accounts : /\ cand'[a].row <=> cand[a].row
                             /\ cand'[a].active <=> cand[a].active
                             /\ weight'[a] = 0 => quorum'[a] = 0,
         ~StakeWeighted => quorum' = weight'
  PROVE  Grounded'
<1>1. now' >= now
  BY DEF Grounded, TypeOK
<1>2. \A a \in Accounts : /\ member'[a] # "none" => member[a] # "none" \/ a \in Joiners
                          /\ cand[a].row => cand'[a].row
                          /\ cand'[a].active => cand'[a].row
                          /\ weight'[a] = 0 => quorum'[a] = 0
  BY DEF Grounded, Registered
<1> QED
  BY <1>1, <1>2, GroundedKeeps

LEMMA RowsStay ==
  ASSUME NEW cd \in [Accounts -> Candidates], NEW b, NEW dw, NEW cd1,
         cd1 = ObservedCands(cd, b, dw), NEW c \in Accounts
  PROVE  (cd1[c].row <=> cd[c].row) /\ (cd1[c].active <=> cd[c].active)
BY ObservedKeepsActive

LEMMA StakeGrounded ==
  ASSUME Grounded, TypeOK', NEW a \in Accounts, NEW s \in Nat,
         NEW d \in MinStakeTime .. MaxStakeTime, StakeObserved(a, s, d)
  PROVE  Grounded'
<1>1. UNCHANGED <<now, member, ballot>>
  BY DEF StakeObserved
<1>2. /\ cand \in [Accounts -> Candidates] /\ weight \in [Accounts -> Nat]
      /\ quorum \in [Accounts -> Nat]
      /\ \A c \in Accounts : weight[c] = 0 => quorum[c] = 0
  BY DEF Grounded, TypeOK
<1>3. CASE StakeWeighted
  <2> DEFINE w == StakeWeight(s, d, multiplier)
  <2>1. /\ weight' = [weight EXCEPT ![a] = w]
        /\ quorum' = [quorum EXCEPT ![a] = IF w = 0 THEN 0 ELSE s]
        /\ cand' = ObservedCands(cand, ballot[a], w - weight[a])
    BY <1>3 DEF StakeObserved
  <2>2. \A c \in Accounts : (cand'[c].row <=> cand[c].row)
                            /\ (cand'[c].active <=> cand[c].active)
    BY <1>2, <2>1, RowsStay
  <2> HIDE DEF w
  <2>3. \A c \in Accounts : weight'[c] = 0 => quorum'[c] = 0
    BY <1>2, <2>1
  <2> QED
    BY <1>1, <1>3, <2>2, <2>3, GroundedAlike, Zenon
<1>4. CASE ~StakeWeighted
  <2>1. UNCHANGED <<weight, quorum, cand>>
    BY <1>4 DEF StakeObserved
  <2>2. quorum' = weight'
    BY <1>4, <2>1 DEF Grounded
  <2> QED
    <3>1. \A c \in Accounts : (cand'[c].row <=> cand[c].row)
                              /\ (cand'[c].active <=> cand[c].active)
      BY <2>1
    <3>2. \A c \in Accounts : weight'[c] = 0 => quorum'[c] = 0
      BY <1>2, <2>1
    <3> QED
      BY <1>1, <2>2, <3>1, <3>2, GroundedAlike, Zenon
<1> QED
  BY <1>3, <1>4

LEMMA BalanceGrounded ==
  ASSUME Grounded, TypeOK', NEW f \in Accounts, NEW t \in Accounts, NEW q \in Nat,
         Transfer(f, t, q) \/ Burn(f, q) \/ Issue(q)
  PROVE  Grounded'
<1>1. UNCHANGED <<now, member, ballot>> /\ quorum' = weight'
  BY DEF Transfer, Burn, Issue, tokenVars, voteVars
<1>2. /\ cand \in [Accounts -> Candidates] /\ now \in Nat
      /\ \A c \in Accounts : cand[c].active => cand[c].row
  BY DEF Grounded, TypeOK, Registered
<1>3. \A c \in Accounts : (cand'[c].row <=> cand[c].row)
                          /\ (cand'[c].active <=> cand[c].active)
  <2>1. CASE Transfer(f, t, q)
    <3> DEFINE cd1 == ObservedCands(cand, ballot[f], -q)
    <3>1. /\ cand' = ObservedCands(cd1, ballot[t], q)
          /\ ObserveAllowed(cand, ballot[f], -q)
      BY <2>1 DEF Transfer
    <3>2. ballot[f] \in Ballots /\ -q \in Int
      BY DEF Grounded, TypeOK
    <3>3. cd1 \in [Accounts -> Candidates]
      BY <1>2, <3>1, <3>2, ObservedType DEF Grounded, TypeOK
    <3>4. \A c \in Accounts : (cd1[c].row <=> cand[c].row)
                              /\ (cd1[c].active <=> cand[c].active)
      BY <1>2, RowsStay
    <3> HIDE DEF cd1
    <3>5. \A c \in Accounts : (cand'[c].row <=> cd1[c].row)
                              /\ (cand'[c].active <=> cd1[c].active)
      BY <3>1, <3>3, RowsStay
    <3> QED
      BY <3>4, <3>5
  <2>2. CASE Burn(f, q)
    <3>1. cand' = ObservedCands(cand, ballot[f], -q)
      BY <2>2 DEF Burn
    <3> QED
      BY <1>2, <3>1, RowsStay
  <2>3. CASE Issue(q)
    BY <2>3 DEF Issue, voteVars
  <2> QED
    BY <2>1, <2>2, <2>3
<1> QED
  BY <1>1, <1>3, GroundedAlike

LEMMA VoteCustGrounded ==
  ASSUME Grounded, TypeOK', NEW a \in Accounts, NEW new \in SUBSET Accounts,
         VoteCust(a, new)
  PROVE  Grounded'
<1> DEFINE b == IF ballot[a].row /\ new = {} THEN NoBallot
                ELSE [row |-> TRUE, cands |-> new, ts |-> now]
<1>1. /\ UNCHANGED <<member, weight, quorum>> /\ now' = now
      /\ ballot' = [ballot EXCEPT ![a] = b]
      /\ member[a] = "current" /\ \A c \in new : cand[c].active
  BY DEF VoteCust, tokenVars, weightVars
<1>2. /\ b.cands # {} => b.row /\ b.cands = new
      /\ ~b.row => b = NoBallot
      /\ b.ts <= now
      /\ b.cands \subseteq new
  <2>1. now \in Nat
    BY DEF Grounded, TypeOK
  <2> QED
    BY <2>1 DEF NoBallot
<1>3. ballot \in [Accounts -> Ballots]
  BY DEF Grounded, TypeOK
<1>4. \A c \in Accounts : (cand'[c].row <=> cand[c].row)
                          /\ (cand'[c].active <=> cand[c].active)
  <2>1. TypeOK
    BY DEF Grounded
  <2> QED
    BY <2>1, VoteCustKeepsActive
<1> HIDE DEF b
<1>5. \A v \in Accounts : ballot'[v] = IF v = a THEN b ELSE ballot[v]
  BY <1>1, <1>3
<1>6. a \in Joiners
  BY <1>1 DEF Grounded, Registered
<1>7. Registered'
  <2>1. \A v \in Accounts : /\ ballot'[v].cands # {} => ballot'[v].row
                            /\ ballot'[v].row => v \in Joiners
                            /\ ballot'[v].ts <= now
    BY <1>2, <1>5, <1>6 DEF Grounded, Registered
  <2>2. \A v \in Accounts : member'[v] # "none" => v \in Joiners
    BY <1>1 DEF Grounded, Registered
  <2>3. \A c \in Accounts : cand'[c].active => cand'[c].row
    BY <1>4 DEF Grounded, Registered
  <2> QED
    BY <1>1, <2>1, <2>2, <2>3 DEF Registered
<1>8. VotesForRows(cand, ballot)'
  <2>1. \A c \in new : cand[c].row
    BY <1>1 DEF Grounded, Registered
  <2>2. ASSUME NEW v \in Accounts, NEW c \in Accounts, c \in ballot'[v].cands
        PROVE  cand'[c].row
    <3>1. CASE v = a
      BY <1>2, <1>4, <1>5, <2>1, <2>2, <3>1
    <3>2. CASE v # a
      BY <1>4, <1>5, <2>2, <3>2 DEF Grounded, VotesForRows
    <3> QED
      BY <3>1, <3>2
  <2> QED
    BY <2>2 DEF VotesForRows
<1>9. \A v \in Accounts : ~ballot'[v].row => ballot'[v] = NoBallot
  BY <1>2, <1>5 DEF Grounded
<1>10. /\ \A v \in Accounts : weight'[v] = 0 => quorum'[v] = 0
       /\ ~StakeWeighted => quorum' = weight'
  BY <1>1 DEF Grounded
<1> QED
  BY <1>7, <1>8, <1>9, <1>10 DEF Grounded

(* ... and of every step but the helpers' *)
LEMMA NextGrounded == ASSUME Grounded, [Next]_vars PROVE Grounded'
<1>0. TypeOK'
  BY StepType DEF Grounded
<1>1. /\ cand \in [Accounts -> Candidates] /\ now \in Nat
      /\ member \in [Accounts -> Memberships]
      /\ ~StakeWeighted => quorum = weight
  BY DEF Grounded, TypeOK
<1>2. \A a \in Accounts : weight[a] = 0 => quorum[a] = 0
  BY DEF Grounded
<1>3. \A c \in Accounts : cand[c].active => cand[c].row
  BY DEF Grounded, Registered
<1>4. CASE /\ UNCHANGED <<ballot, weight, quorum, cand>>
           /\ now' >= now
           /\ \A a \in Accounts : member'[a] # "none" => member[a] # "none" \/ a \in Joiners
  BY <1>0, <1>1, <1>2, <1>3, <1>4, GroundedKeeps
<1>5. CASE Tick
  <2>1. UNCHANGED <<member, ballot, weight, quorum, cand>> /\ now' = now + 1
    BY <1>5 DEF Tick, tokenVars, weightVars, voteVars
  <2> QED
    BY <1>1, <1>4, <2>1
<1>6. CASE NewMemTerms \/ \E a \in Accounts : MemberReg(a) \/ MemberUnreg(a)
  <2>1. UNCHANGED <<now, ballot, weight, quorum, cand>>
    BY <1>6 DEF NewMemTerms, MemberReg, MemberUnreg, weightVars, voteVars
  <2>2. \A a \in Accounts : member'[a] # "none" => member[a] # "none" \/ a \in Joiners
    BY <1>1, <1>6 DEF NewMemTerms, MemberReg, MemberUnreg
  <2> QED
    BY <1>1, <1>4, <2>1, <2>2
<1>7. CASE \/ \E m \in 1 .. MaxMultiplier : UpdateConfig(m)
           \/ \E on \in BOOLEAN : Maintenance(on)
           \/ UNCHANGED vars
  <2>1. UNCHANGED <<now, member, ballot, weight, quorum, cand>>
    BY <1>7 DEF UpdateConfig, Maintenance, vars, tokenVars, weightVars, voteVars
  <2> QED
    BY <1>1, <1>4, <2>1
<1>8. ASSUME NEW a \in Accounts, Nominate(a) \/ Withdraw(a) PROVE Grounded'
  <2>1. UNCHANGED <<now, member, ballot, weight, quorum>>
    BY <1>8 DEF Nominate, Withdraw, tokenVars, weightVars
  <2>2. \/ cand' = [cand EXCEPT ![a].row = TRUE, ![a].active = TRUE]
        \/ cand' = [cand EXCEPT ![a].active = FALSE]
    BY <1>8 DEF Nominate, Withdraw
  <2>3. \A c \in Accounts : /\ cand[c].row => cand'[c].row
                            /\ cand'[c].active => cand'[c].row
    BY <1>1, <1>3, <2>2 DEF Candidates
  <2>4. now' >= now
    BY <1>1, <2>1
  <2> QED
    BY <1>0, <1>1, <1>2, <2>1, <2>3, <2>4, GroundedKeeps
<1>9. ASSUME NEW a \in Accounts, StakeStep(a) PROVE Grounded'
  <2>1. PICK s \in Nat, d \in MinStakeTime .. MaxStakeTime : StakeObserved(a, s, d)
    BY <1>9, StakeStepObserved DEF Grounded
  <2> QED
    BY <1>0, <2>1, StakeGrounded
<1>10. ASSUME NEW f \in Accounts, NEW t \in Accounts, NEW q \in 1 .. MaxBalance,
              Transfer(f, t, q) \/ Burn(f, q) \/ Issue(q)
       PROVE  Grounded'
  <2>1. q \in Nat
    BY ConstantsAssumption
  <2> QED
    BY <1>0, <1>10, <2>1, BalanceGrounded
<1>11. ASSUME NEW a \in Accounts, NEW new \in SUBSET Accounts, VoteCust(a, new)
       PROVE  Grounded'
  BY <1>0, <1>11, VoteCustGrounded
<1>12. Issuer \in Accounts
  BY ConstantsAssumption
<1> QED
  BY <1>5, <1>6, <1>7, <1>8, <1>9, <1>10, <1>11, <1>12 DEF Next, UserNext, StakeStep

LEMMA InitGrounded == Init => Grounded
<1> SUFFICES ASSUME Init PROVE Grounded
  OBVIOUS
<1>1. TypeOK /\ Registered /\ VotesForRows(cand, ballot)
  BY InitExact DEF Exact
<1>2. \A a \in Accounts : ballot[a] = NoBallot
  BY DEF Init
<1>3. quorum = weight
  BY DEF Init
<1> QED
  BY <1>1, <1>2, <1>3 DEF Grounded

-----------------------------------------------------------------------------
(* Who is no candidate has no votes.                                        *)
Rowless ==
  \A c \in Accounts : ~cand[c].row =>
    cand[c].power = 0 /\ cand[c].rwt = 0 /\ cand[c].voters = 0

LEMMA MovedRowless ==
  ASSUME NEW r, ~r.row, NEW c, NEW dw, NEW old, NEW oldTs, NEW new, NEW newTs
  PROVE  Moved(r, c, dw, old, oldTs, new, newTs) = r
<1>1. \A w, ts : AddWeight(r, w, ts) = r
  BY DEF AddWeight
<1>2. Left(r, c, dw, old, oldTs) = r
  BY <1>1 DEF Left
<1> QED
  BY <1>1, <1>2 DEF Moved

LEMMA ObservedRowless ==
  ASSUME NEW cd, NEW b, NEW dw, NEW c \in Accounts, ~cd[c].row
  PROVE  ObservedCands(cd, b, dw)[c] = cd[c]
BY MovedRowless DEF ObservedCands

LEMMA NextRowless == ASSUME Grounded, Rowless, [Next]_vars PROVE Rowless'
<1>0. TypeOK /\ cand \in [Accounts -> Candidates]
  BY DEF Grounded, TypeOK
<1>1. CASE \A c \in Accounts : ~cand'[c].row =>
             /\ ~cand[c].row /\ cand'[c].power = cand[c].power
             /\ cand'[c].rwt = cand[c].rwt /\ cand'[c].voters = cand[c].voters
  BY <1>1 DEF Rowless
<1>2. CASE \A c \in Accounts : (cand'[c].row <=> cand[c].row)
                               /\ (~cand[c].row => cand'[c] = cand[c])
  BY <1>1, <1>2
<1>3. CASE cand' = cand
  BY <1>1, <1>3
<1>4. CASE \/ Tick \/ NewMemTerms \/ UNCHANGED vars
           \/ \E a \in Accounts : MemberReg(a) \/ MemberUnreg(a)
           \/ \E m \in 1 .. MaxMultiplier : UpdateConfig(m)
           \/ \E q \in 1 .. MaxBalance : Issue(q)
           \/ \E on \in BOOLEAN : Maintenance(on)
  BY <1>3, <1>4 DEF Tick, NewMemTerms, MemberReg, MemberUnreg, UpdateConfig, Issue,
     Maintenance, vars, voteVars
<1>5. ASSUME NEW a \in Accounts, Nominate(a) \/ Withdraw(a) PROVE Rowless'
  <2>1. \/ cand' = [cand EXCEPT ![a].row = TRUE, ![a].active = TRUE]
        \/ cand' = [cand EXCEPT ![a].active = FALSE]
    BY <1>5 DEF Nominate, Withdraw
  <2>2. \A c \in Accounts : ~cand'[c].row =>
             /\ ~cand[c].row /\ cand'[c].power = cand[c].power
             /\ cand'[c].rwt = cand[c].rwt /\ cand'[c].voters = cand[c].voters
    BY <1>0, <2>1 DEF Candidates
  <2> QED
    BY <1>1, <2>2
<1>6. ASSUME NEW a \in Accounts, StakeStep(a) PROVE Rowless'
  <2>1. PICK s \in Nat, d \in MinStakeTime .. MaxStakeTime : StakeObserved(a, s, d)
    BY <1>0, <1>6, StakeStepObserved
  <2>2. \/ cand' = cand
        \/ cand' = ObservedCands(cand, ballot[a],
                                 StakeWeight(s, d, multiplier) - weight[a])
    BY <2>1 DEF StakeObserved
  <2>3. \A c \in Accounts : (cand'[c].row <=> cand[c].row)
                            /\ (~cand[c].row => cand'[c] = cand[c])
    BY <1>0, <2>2, RowsStay, ObservedRowless
  <2> QED
    BY <1>2, <2>3
<1>7. ASSUME NEW f \in Accounts, NEW q \in 1 .. MaxBalance, Burn(f, q) PROVE Rowless'
  <2>1. cand' = ObservedCands(cand, ballot[f], -q)
    BY <1>7 DEF Burn
  <2>2. \A c \in Accounts : (cand'[c].row <=> cand[c].row)
                            /\ (~cand[c].row => cand'[c] = cand[c])
    BY <1>0, <2>1, RowsStay, ObservedRowless
  <2> QED
    BY <1>2, <2>2
<1>8. ASSUME NEW f \in Accounts, NEW t \in Accounts, NEW q \in 1 .. MaxBalance,
             Transfer(f, t, q)
      PROVE  Rowless'
  <2> DEFINE cd1 == ObservedCands(cand, ballot[f], -q)
  <2>1. /\ cand' = ObservedCands(cd1, ballot[t], q)
        /\ ObserveAllowed(cand, ballot[f], -q)
    BY <1>8 DEF Transfer
  <2>2. ballot[f] \in Ballots /\ -q \in Int /\ tally \in [weight : Int, votes : Int]
    BY <1>0, ConstantsAssumption DEF TypeOK
  <2>3. cd1 \in [Accounts -> Candidates]
    BY <1>0, <2>1, <2>2, ObservedType
  <2>4. \A c \in Accounts : (cd1[c].row <=> cand[c].row)
                            /\ (~cand[c].row => cd1[c] = cand[c])
    BY <1>0, RowsStay, ObservedRowless
  <2> HIDE DEF cd1
  <2>5. \A c \in Accounts : (cand'[c].row <=> cd1[c].row)
                            /\ (~cd1[c].row => cand'[c] = cd1[c])
    BY <2>1, <2>3, RowsStay, ObservedRowless
  <2>6. \A c \in Accounts : (cand'[c].row <=> cand[c].row)
                            /\ (~cand[c].row => cand'[c] = cand[c])
    BY <2>4, <2>5
  <2> QED
    BY <1>2, <2>6
<1>9. ASSUME NEW a \in Accounts, NEW new \in SUBSET Accounts, VoteCust(a, new)
      PROVE  Rowless'
  <2> DEFINE old == ballot[a].cands
  <2>1. ASSUME NEW c \in Accounts, ~cand[c].row PROVE cand'[c] = cand[c]
    <3> DEFINE r == Counted(cand[c], c, old, new)
    <3>1. cand'[c] = Moved(r, c, weight[a], old, ballot[a].ts, new, now)
      BY <1>9 DEF VoteCust
    <3>2. r = [cand[c] EXCEPT !.voters = cand[c].voters]
      BY <2>1 DEF Counted
    <3>3. r = cand[c]
      BY <1>0, <3>2 DEF Candidates
    <3> HIDE DEF r
    <3> QED
      BY <2>1, <3>1, <3>3, MovedRowless
  <2>2. \A c \in Accounts : cand'[c].row <=> cand[c].row
    BY <1>0, <1>9, VoteCustKeepsActive
  <2> QED
    BY <1>2, <2>1, <2>2
<1> QED
  BY <1>4, <1>5, <1>6, <1>7, <1>8, <1>9 DEF Next, UserNext, StakeStep

-----------------------------------------------------------------------------
(* The window *)

Window ==
  /\ step # "live" => maintenance
  /\ todo \subseteq Rows
  /\ step # "replay" => todo = {}
  /\ step = "stateReset" => tally = [weight |-> 0, votes |-> 0]
  /\ step = "candsReset" => TalliesExact(Tallies, Partial({}))
  /\ step \in {"replay", "rebuilt"} =>
       TalliesExact(Tallies, Partial(Accounts \ VotersAt(todo)))
  /\ \A i \in todo, j \in Rows : j >= i => j \in todo

(* Exact tallies stay exact where the replay's data do.                     *)
LEMMA SameTallies ==
  ASSUME Grounded, TypeOK', SameData, NEW D, TalliesExact(Tallies, Partial(D))
  PROVE  TalliesExact(Tallies, Partial(D))'
<1> DEFINE bt == Partial(D)
<1>1. /\ bt' = bt
      /\ \A c \in Accounts : VotersOf(bt, c)' = VotersOf(bt, c)
      /\ Casting(bt)' = Casting(bt)
  BY DEF SameData, Partial, VotersOf, Casting
<1>2. ASSUME NEW v \in Accounts, bt[v].cands # {}
      PROVE  ballot[v].row /\ weight'[v] = weight[v] /\ quorum'[v] = quorum[v]
  BY <1>2 DEF Partial, NoBallot, Grounded, Registered, SameData
<1>3. /\ \A v \in Casting(bt) : weight'[v] = weight[v] /\ quorum'[v] = quorum[v]
      /\ \A c \in Accounts : \A v \in VotersOf(bt, c) :
           weight'[v] = weight[v] /\ v \in Accounts
  BY <1>2 DEF Casting, VotersOf
<1> HIDE DEF bt
<1>4. ASSUME NEW c \in Accounts
      PROVE  /\ Total(weight', VotersOf(bt, c)) = Total(weight, VotersOf(bt, c))
             /\ Total(Aged(weight', bt), VotersOf(bt, c)) =
                  Total(Aged(weight, bt), VotersOf(bt, c))
  <2>1. \A v \in VotersOf(bt, c) : weight'[v] = weight[v]
    BY <1>3
  <2>2. \A v \in VotersOf(bt, c) : Aged(weight', bt)[v] = Aged(weight, bt)[v]
    BY <1>3 DEF Aged
  <2> QED
    BY <2>1, <2>2, TotalSame
<1>5. /\ Total(weight', Casting(bt)) = Total(weight, Casting(bt))
      /\ Total(quorum', Casting(bt)) = Total(quorum, Casting(bt))
  BY <1>3, TotalSame
<1>6. cand' \in [Accounts -> Candidates] /\ tally' \in [weight : Int, votes : Int]
  BY DEF TypeOK
<1>7. /\ tally'.votes = Total(weight', Casting(bt))
      /\ tally'.weight = Total(quorum', Casting(bt))
  BY <1>5 DEF TalliesExact, Tallies, SameData, bt
<1>8. ASSUME NEW c \in Accounts
      PROVE  /\ RowExact(cand'[c], weight', bt, c)
             /\ cand'[c].voters = Cardinality(VotersOf(bt, c))
  <2>1. /\ RowExact(cand[c], weight, bt, c)
        /\ cand[c].voters = Cardinality(VotersOf(bt, c))
    BY DEF TalliesExact, Tallies, bt
  <2>2. /\ cand'[c].power = cand[c].power /\ cand'[c].rwt = cand[c].rwt
        /\ cand'[c].avg = cand[c].avg /\ cand'[c].voters = cand[c].voters
    BY DEF SameData
  <2> DEFINE q == cand[c]
             n == cand'[c]
             p == Total(weight, VotersOf(bt, c))
             g == Total(Aged(weight, bt), VotersOf(bt, c))
  <2>3. /\ q.power = p /\ q.rwt = g
        /\ q.power > 0 => q.avg = q.rwt \div q.power
    BY <2>1 DEF RowExact
  <2>4. /\ Total(weight', VotersOf(bt, c)) = p
        /\ Total(Aged(weight', bt), VotersOf(bt, c)) = g
    BY <1>4
  <2>5. n \in Candidates
    BY <1>6
  <2>6. /\ n.power = q.power /\ n.rwt = q.rwt /\ n.avg = q.avg /\ n.voters = q.voters
    BY <2>2
  <2> HIDE DEF q, n, p, g
  <2>7. /\ n.power = p /\ n.rwt = g
        /\ n.power > 0 => n.avg = n.rwt \div n.power
    BY <2>3, <2>6
  <2>8. RowExact(n, weight', bt, c)
    BY <2>4, <2>5, <2>7 DEF RowExact
  <2> QED
    BY <2>1, <2>6, <2>8 DEF q, n
<1> QED
  <2>1. Tallies'.cand = cand' /\ Tallies'.tally = tally'
    BY DEF Tallies
  <2>2. Partial(D)' = bt
    BY <1>1 DEF bt
  <2>3. ASSUME NEW c \in Accounts
        PROVE  /\ Tallies'.cand[c].row <=> cand'[c].row
               /\ Tallies'.cand[c].active <=> cand'[c].active
               /\ RowExact(Tallies'.cand[c], weight', Partial(D)', c)
               /\ Tallies'.cand[c].voters = Cardinality(VotersOf(Partial(D)', c))
    BY <1>8, <2>1, <2>2
  <2>4. /\ Tallies'.cand \in [Accounts -> Candidates]
        /\ Tallies'.tally \in [weight : Int, votes : Int]
        /\ Tallies'.tally.votes = Total(weight', Casting(Partial(D)'))
        /\ Tallies'.tally.weight = Total(quorum', Casting(Partial(D)'))
    BY <1>6, <1>7, <2>1, <2>2
  <2> HIDE DEF Partial, Tallies
  <2> QED
    BY <2>3, <2>4 DEF TalliesExact

LEMMA WindowKept ==
  ASSUME Grounded, TypeOK', Window, UNCHANGED <<step, todo>>,
         step # "live" => SameData
  PROVE  Window'
<1>1. CASE step = "live"
  BY <1>1 DEF Window
<1>2. CASE step # "live"
  <2>1. SameData /\ UNCHANGED <<ballot, tally, maintenance>> /\ Rows' = Rows
    BY <1>2 DEF SameData, Rows, Places
  <2>2. /\ step' # "live" => maintenance'
        /\ todo' \subseteq Rows'
        /\ step' # "replay" => todo' = {}
        /\ step' = "stateReset" => tally' = [weight |-> 0, votes |-> 0]
        /\ \A i \in todo', j \in Rows' : j >= i => j \in todo'
    BY <2>1 DEF Window
  <2>3. ASSUME step' = "candsReset" PROVE TalliesExact(Tallies, Partial({}))'
    BY <2>1, <2>3, SameTallies DEF Window
  <2>4. ASSUME step' \in {"replay", "rebuilt"}
        PROVE  TalliesExact(Tallies, Partial(Accounts \ VotersAt(todo)))'
    <3>1. PICK D : D = Accounts \ VotersAt(todo)
      OBVIOUS
    <3>2. Accounts \ VotersAt(todo') = D
      BY <3>1
    <3>3. TalliesExact(Tallies, Partial(D))
      BY <2>4, <3>1 DEF Window
    <3>4. TalliesExact(Tallies, Partial(D))'
      BY <2>1, <3>3, SameTallies
    <3> QED
      BY <3>2, <3>4 DEF Partial
  <2> QED
    BY <2>2, <2>3, <2>4 DEF Window
<1> QED
  BY <1>1, <1>2

-----------------------------------------------------------------------------
(* The operators' steps                                                     *)

LEMMA EmptyBallots ==
  /\ \A v \in Accounts : Partial({})[v] = NoBallot
  /\ \A c : VotersOf(Partial({}), c) = {}
  /\ Casting(Partial({})) = {}
BY DEF Partial, NoBallot, VotersOf, Casting

LEMMA ResetCandsExact ==
  ASSUME Grounded, Rowless, ResetCands, tally = [weight |-> 0, votes |-> 0]
  PROVE  Grounded' /\ Rowless' /\ TalliesExact(Tallies, Partial({}))'
<1> DEFINE zero(r) == [r EXCEPT !.power = 0, !.voters = 0, !.rwt = 0, !.avg = 0]
<1>1. /\ cand \in [Accounts -> Candidates]
      /\ cand' = [c \in Accounts |-> IF cand[c].row THEN zero(cand[c]) ELSE cand[c]]
  BY DEF Grounded, TypeOK, ResetCands
<1>2. ASSUME NEW r \in Candidates
      PROVE  /\ zero(r) \in Candidates
             /\ zero(r).power = 0 /\ zero(r).rwt = 0 /\ zero(r).voters = 0
             /\ (zero(r).row <=> r.row) /\ (zero(r).active <=> r.active)
  BY DEF Candidates
<1> HIDE DEF zero
<1>3. ASSUME NEW c \in Accounts
      PROVE  /\ cand'[c] \in Candidates
             /\ (cand'[c].row <=> cand[c].row) /\ (cand'[c].active <=> cand[c].active)
             /\ cand'[c].power = 0 /\ cand'[c].rwt = 0 /\ cand'[c].voters = 0
  <2>1. cand[c] \in Candidates
    BY <1>1
  <2>2. CASE cand[c].row
    BY <1>1, <1>2, <2>1, <2>2
  <2>3. CASE ~cand[c].row
    <3>1. cand'[c] = cand[c]
      BY <1>1, <2>3
    <3>2. cand[c].power = 0 /\ cand[c].rwt = 0 /\ cand[c].voters = 0
      BY <2>3 DEF Rowless
    <3> QED
      BY <2>1, <3>1, <3>2
  <2> QED
    BY <2>2, <2>3
<1>4. cand' \in [Accounts -> Candidates]
  BY <1>1, <1>3
<1>5. /\ UNCHANGED <<now, member, stake, delay, multiplier, weight, quorum, ballot, tally,
                     nActive, maintenance>>
  BY DEF ResetCands, tokenVars, weightVars
<1>6. TypeOK'
  BY <1>4, <1>5 DEF Grounded, TypeOK
<1>7. Grounded'
  <2>1. \A a \in Accounts : weight'[a] = 0 => quorum'[a] = 0
    BY <1>5 DEF Grounded
  <2>2. ~StakeWeighted => quorum' = weight'
    BY <1>5 DEF Grounded
  <2>3. UNCHANGED <<now, member, ballot>>
    BY <1>5
  <2> QED
    BY <1>3, <1>6, <2>1, <2>2, <2>3, GroundedAlike, Zenon
<1>8. Rowless'
  BY <1>3 DEF Rowless
<1>9. TalliesExact(Tallies, Partial({}))'
  <2>1. Tallies'.cand = cand' /\ Tallies'.tally = tally'
    BY DEF Tallies
  <2>2. /\ \A c : VotersOf(Partial({})', c) = {}
        /\ Casting(Partial({})') = {}
    BY DEF Partial, NoBallot, VotersOf, Casting
  <2>3. ASSUME NEW c \in Accounts
        PROVE  /\ RowExact(cand'[c], weight', Partial({})', c)
               /\ cand'[c].voters = Cardinality(VotersOf(Partial({})', c))
    <3> DEFINE n == cand'[c]
               bt == Partial({})'
    <3>1. n \in Candidates /\ n.power = 0 /\ n.rwt = 0 /\ n.voters = 0
      BY <1>3
    <3>2. VotersOf(bt, c) = {}
      BY <2>2
    <3> HIDE DEF n, bt
    <3>3. /\ Total(weight', VotersOf(bt, c)) = 0
          /\ Total(Aged(weight', bt), VotersOf(bt, c)) = 0
          /\ Cardinality(VotersOf(bt, c)) = 0
      BY <3>2, TotalEmpty, FS_EmptySet
    <3>4. ~(n.power > 0)
      BY <3>1
    <3>5. RowExact(n, weight', bt, c)
      BY <3>1, <3>3, <3>4 DEF RowExact
    <3> QED
      BY <3>1, <3>3, <3>5 DEF n, bt
  <2>4. /\ tally' \in [weight : Int, votes : Int]
        /\ tally'.votes = Total(weight', Casting(Partial({})'))
        /\ tally'.weight = Total(quorum', Casting(Partial({})'))
    BY <1>5, <2>2, TotalEmpty
  <2> HIDE DEF Partial, Tallies
  <2> QED
    BY <1>4, <2>1, <2>3, <2>4 DEF TalliesExact
<1> QED
  BY <1>7, <1>8, <1>9

(* The accounts that have no row have no ballot to replay.                  *)
LEMMA FetchedExact ==
  ASSUME Grounded
  PROVE  Partial(Accounts \ VotersAt(Rows)) = Partial({})
<1>1. ASSUME NEW v \in Accounts \ VotersAt(Rows) PROVE ballot[v] = NoBallot
  <2>1. PICK i \in Places : Order[i] = v
    BY RebuildAssumption, LenOrder DEF RebuildAssumption
  <2>2. ~ballot[v].row
    BY <1>1, <2>1 DEF Rows, VotersAt
  <2> QED
    BY <2>2 DEF Grounded
<1> QED
  BY <1>1 DEF Partial

(* What the script replays next: all that is left to do, or what comes      *)
(* before the first voter of the batch after.                               *)
LEMMA NextBatch ==
  ASSUME Window, NEW from \in todo, Index(from) = 0,
         NEW to \in todo \cup {EndOfTable},
         to # EndOfTable => Index(to) = BatchSize
  PROVE  Batch(from, to) = {i \in todo : to = EndOfTable \/ i < to}
<1>1. /\ todo \subseteq Rows /\ todo \subseteq Places
      /\ \A i \in todo, j \in Rows : j >= i => j \in todo
  BY DEF Window, Rows
<1>2. Len(Order) \in Nat /\ \A i \in Places : i \in Nat /\ i >= 1
  BY LenOrder DEF Places
<1>3. IsFiniteSet(todo)
  <2>1. IsFiniteSet(Places)
    BY <1>2, FS_Interval DEF Places
  <2> QED
    BY <1>1, <2>1, FS_Subset
<1>4. \A j \in todo : j >= from
  <2> DEFINE S == {j \in todo : j < from}
  <2>1. IsFiniteSet(S) /\ Cardinality(S) = 0
    BY <1>3, FS_Subset DEF Index
  <2>2. S = {}
    BY <2>1, FS_EmptySet
  <2> QED
    BY <1>1, <1>2, <2>2
<1>5. RowsFrom(from) = todo
  BY <1>1, <1>4 DEF RowsFrom
<1>6. CASE to = EndOfTable
  <2>1. to \notin todo
    BY <1>1, <1>2, <1>6 DEF EndOfTable
  <2> QED
    BY <1>5, <1>6, <2>1 DEF Batch
<1>7. CASE to # EndOfTable
  <2>1. to \in todo
    BY <1>7
  <2>2. \E i \in todo : i < to
    <3> SUFFICES ASSUME {j \in todo : j < to} = {} PROVE FALSE
      OBVIOUS
    <3>1. Index(to) = 0
      BY FS_EmptySet DEF Index
    <3> QED
      BY <1>7, <3>1, RebuildAssumption DEF RebuildAssumption
  <2> QED
    BY <1>5, <1>7, <2>1, <2>2 DEF Batch
<1> QED
  BY <1>6, <1>7

(* A batch of what is left replayed, the tallies are those of the ballots   *)
(* of all but the voters that are still left.                               *)
LEMMA BatchLeft ==
  ASSUME Grounded, NEW S \in SUBSET Rows, NEW batch \in SUBSET S,
         TalliesExact(Tallies, Partial(Accounts \ VotersAt(S)))
  PROVE  TalliesExact(Replay(batch), Partial(Accounts \ VotersAt(S \ batch)))
<1> DEFINE D == Accounts \ VotersAt(S)
<1>1. /\ D \in SUBSET Accounts /\ batch \in SUBSET Places
      /\ \A i \in batch : Order[i] \notin D
  BY DEF VotersAt, Rows
<1>2. TalliesExact(Tallies, Partial(D))
  OBVIOUS
<1>3. D \cup VotersAt(batch) = Accounts \ VotersAt(S \ batch)
  <2>1. \A i \in Places : Order[i] \in Accounts
    BY LenOrder, RebuildAssumption DEF RebuildAssumption
  <2>2. \A i, j \in Places : Order[i] = Order[j] => i = j
    BY LenOrder, RebuildAssumption DEF RebuildAssumption
  <2>3. S \subseteq Places
    BY DEF Rows
  <2> QED
    BY <2>1, <2>2, <2>3 DEF VotersAt
<1> HIDE DEF D
<1>4. TalliesExact(Replay(batch), Partial(D \cup VotersAt(batch)))
  BY <1>1, <1>2, BatchExact
<1> QED
  BY <1>3, <1>4

(* collectvotes writes tallies that are exact for some of the ballots.      *)
LEMMA CollectedExact ==
  ASSUME Grounded, NEW from, NEW to, CollectVotes(from, to), NEW D,
         TalliesExact(Replay(Batch(from, to)), Partial(D))
  PROVE  Grounded' /\ Rowless' /\ TalliesExact(Tallies, Partial(D))'
<1> DEFINE t == Replay(Batch(from, to))
           bt == Partial(D)
<1>1. cand' = t.cand /\ tally' = t.tally
  BY DEF CollectVotes
<1>2. UNCHANGED <<now, member, stake, delay, multiplier, weight, quorum, ballot, nActive,
                  maintenance>>
  BY DEF CollectVotes, tokenVars, weightVars
<1>3. TalliesExact(t, bt)
  OBVIOUS
<1>4. \A c \in Accounts : ~cand[c].row => VotersOf(bt, c) = {}
  BY DEF Grounded, VotesForRows, Partial, VotersOf, NoBallot
<1>5. bt' = bt
  BY <1>2 DEF Partial
<1> HIDE DEF t, bt
<1>6. cand' \in [Accounts -> Candidates] /\ tally' \in [weight : Int, votes : Int]
  BY <1>1, <1>3 DEF TalliesExact
<1>7. ASSUME NEW c \in Accounts
      PROVE  /\ (cand'[c].row <=> cand[c].row) /\ (cand'[c].active <=> cand[c].active)
             /\ RowExact(cand'[c], weight, bt, c)
             /\ cand'[c].voters = Cardinality(VotersOf(bt, c))
  BY <1>1, <1>3 DEF TalliesExact
<1>8. Grounded'
  <2>1. TypeOK'
    BY <1>2, <1>6 DEF Grounded, TypeOK
  <2>2. \A a \in Accounts : weight'[a] = 0 => quorum'[a] = 0
    BY <1>2 DEF Grounded
  <2>3. ~StakeWeighted => quorum' = weight'
    BY <1>2 DEF Grounded
  <2>4. UNCHANGED <<now, member, ballot>>
    BY <1>2
  <2> QED
    BY <1>7, <2>1, <2>2, <2>3, <2>4, GroundedAlike, Zenon
<1>9. Rowless'
  <2>1. ASSUME NEW c \in Accounts, ~cand'[c].row
        PROVE  cand'[c].power = 0 /\ cand'[c].rwt = 0 /\ cand'[c].voters = 0
    <3>1. VotersOf(bt, c) = {}
      BY <1>4, <1>7, <2>1
    <3>2. /\ cand'[c].power = Total(weight, VotersOf(bt, c))
          /\ cand'[c].rwt = Total(Aged(weight, bt), VotersOf(bt, c))
          /\ cand'[c].voters = Cardinality(VotersOf(bt, c))
      BY <1>7 DEF RowExact
    <3> QED
      BY <3>1, <3>2, TotalEmpty, FS_EmptySet
  <2> QED
    BY <2>1 DEF Rowless
<1>10. TalliesExact(Tallies, bt)'
  <2>1. Tallies'.cand = cand' /\ Tallies'.tally = tally'
    BY DEF Tallies
  <2>2. ASSUME NEW c \in Accounts
        PROVE  /\ RowExact(cand'[c], weight', bt', c)
               /\ cand'[c].voters = Cardinality(VotersOf(bt', c))
    BY <1>2, <1>5, <1>7
  <2>3. /\ tally'.votes = Total(weight', Casting(bt'))
        /\ tally'.weight = Total(quorum', Casting(bt'))
    BY <1>1, <1>2, <1>3, <1>5 DEF TalliesExact
  <2> HIDE DEF Tallies
  <2> QED
    BY <1>6, <2>1, <2>2, <2>3 DEF TalliesExact
<1> QED
  BY <1>8, <1>9, <1>10 DEF bt

-----------------------------------------------------------------------------
(* The procedure                                                            *)

(* The inductive invariant of the repair                                    *)
Repair == Grounded /\ Rowless /\ Window

(* A step that writes no more than the maintenance mode. *)
LEMMA QuietWindow ==
  ASSUME Repair, UNCHANGED <<now, tokenVars, weightVars, ballot, cand, tally, nActive>>,
         maintenance' \in BOOLEAN
  PROVE  Grounded' /\ Rowless'
<1>1. TypeOK'
  BY DEF Repair, Grounded, TypeOK, tokenVars, weightVars
<1>2. UNCHANGED <<now, member, ballot, cand, weight, quorum>>
  BY DEF tokenVars, weightVars
<1>3. Grounded'
  BY <1>1, <1>2 DEF Repair, Grounded, Registered, VotesForRows
<1>4. Rowless'
  BY <1>2 DEF Repair, Rowless
<1> QED
  BY <1>3, <1>4

LEMMA StepReplayBatch == ASSUME Repair, ReplayBatch PROVE Repair'
<1>1. Grounded /\ Rowless /\ Window
  BY DEF Repair
<1>2. PICK from \in todo, to \in todo \cup {EndOfTable} :
        /\ step = "replay"
        /\ Index(from) = 0
        /\ IF to = EndOfTable THEN Cardinality(todo) <= BatchSize
                              ELSE Index(to) = BatchSize
        /\ CollectVotes(from, to)
        /\ todo' = {i \in todo : to # EndOfTable /\ i >= to}
        /\ step' = IF todo' = {} THEN "rebuilt" ELSE "replay"
  BY DEF ReplayBatch
<1> DEFINE batch == {i \in todo : to = EndOfTable \/ i < to}
           D == Accounts \ VotersAt(todo \ batch)
<1>3. Batch(from, to) = batch
  BY <1>1, <1>2, NextBatch
<1>4. todo \subseteq Rows /\ \A i \in todo : i \in Nat
  BY <1>1, LenOrder DEF Window, Rows, Places
<1>5. todo' = todo \ batch
  <2>1. to \in Nat
    BY <1>4 DEF EndOfTable
  <2>2. \A i \in todo : (to # EndOfTable /\ i >= to) <=> ~(to = EndOfTable \/ i < to)
    BY <1>4, <2>1
  <2>3. todo' = {i \in todo : to # EndOfTable /\ i >= to}
    BY <1>2
  <2> QED
    BY <2>2, <2>3
<1>6. TalliesExact(Tallies, Partial(Accounts \ VotersAt(todo)))
  BY <1>1, <1>2 DEF Window
<1>7. TalliesExact(Replay(batch), Partial(D))
  <2>1. todo \in SUBSET Rows /\ batch \in SUBSET todo
    BY <1>4
  <2> HIDE DEF batch
  <2> QED
    BY <1>1, <1>6, <2>1, BatchLeft
<1>8. PICK E : E = D
  OBVIOUS
<1>9. Grounded' /\ Rowless' /\ TalliesExact(Tallies, Partial(E))'
  <2>1. CollectVotes(from, to) /\ TalliesExact(Replay(Batch(from, to)), Partial(E))
    BY <1>2, <1>3, <1>7, <1>8
  <2> HIDE DEF batch, D
  <2> QED
    BY <1>1, <2>1, CollectedExact
<1>10. UNCHANGED <<ballot, maintenance>> /\ Rows' = Rows /\ maintenance
  BY <1>2 DEF CollectVotes, Rows, Places
<1>11. Accounts \ VotersAt(todo') = E
  BY <1>5, <1>8
<1>12. TalliesExact(Tallies, Partial(Accounts \ VotersAt(todo)))'
  BY <1>9, <1>11 DEF Partial
<1>13. Window'
  <2>1. /\ todo' \subseteq Rows' /\ maintenance'
        /\ step' \in {"replay", "rebuilt"} /\ (step' # "replay" => todo' = {})
    BY <1>2, <1>4, <1>5, <1>10
  <2>2. \A i \in todo', j \in Rows' : j >= i => j \in todo'
    <3>1. ASSUME NEW i \in todo', NEW j \in Rows, j >= i PROVE j \in todo'
      <4>1. i \in todo /\ to # EndOfTable /\ i >= to /\ to \in todo
        BY <1>2
      <4>2. j \in todo
        BY <1>1, <3>1, <4>1 DEF Window
      <4>3. i \in Nat /\ j \in Nat /\ to \in Nat
        BY <1>4, <4>1, <4>2
      <4>4. j >= to
        BY <3>1, <4>1, <4>3
      <4> QED
        BY <1>2, <4>1, <4>2, <4>4
    <3> QED
      BY <1>10, <3>1
  <2> HIDE DEF batch, D
  <2> QED
    BY <1>12, <2>1, <2>2 DEF Window
<1> QED
  BY <1>9, <1>13 DEF Repair

LEMMA StepFetchVoters == ASSUME Repair, FetchVoters PROVE Repair'
<1>1. /\ Grounded /\ Rowless /\ Window /\ UNCHANGED vars
      /\ step = "candsReset" /\ todo' = Rows
      /\ step' = IF todo' = {} THEN "rebuilt" ELSE "replay"
  BY DEF Repair, FetchVoters
<1>2. UNCHANGED <<now, tokenVars, weightVars, ballot, cand, tally, nActive, maintenance>>
  BY <1>1 DEF vars, voteVars
<1>3. maintenance \in BOOLEAN /\ maintenance
  BY <1>1 DEF Grounded, TypeOK, Window
<1>4. Grounded' /\ Rowless'
  BY <1>2, <1>3, QuietWindow
<1>5. Rows' = Rows
  BY <1>2 DEF Rows, Places
<1>6. TalliesExact(Tallies, Partial(Accounts \ VotersAt(todo)))'
  <2>1. PICK E : E = Accounts \ VotersAt(Rows)
    OBVIOUS
  <2>2. TalliesExact(Tallies, Partial(E))
    BY <1>1, <2>1, FetchedExact DEF Window
  <2>3. SameData /\ TypeOK'
    BY <1>2, <1>4 DEF SameData, weightVars, Grounded
  <2>4. TalliesExact(Tallies, Partial(E))'
    BY <1>1, <2>2, <2>3, SameTallies
  <2>5. Accounts \ VotersAt(todo') = E
    BY <1>1, <2>1
  <2> QED
    BY <2>4, <2>5 DEF Partial
<1>7. Window'
  BY <1>1, <1>2, <1>3, <1>5, <1>6 DEF Window
<1> QED
  BY <1>4, <1>7 DEF Repair

(* Every step of the operators keeps the invariant.                         *)
LEMMA StepOperators == ASSUME Repair, Operators PROVE Repair'
<1>1. Grounded /\ Rowless /\ Window /\ maintenance \in BOOLEAN
  BY DEF Repair, Grounded, TypeOK
<1>2. CASE StartMaintenance
  <2>1. /\ UNCHANGED <<now, tokenVars, weightVars, ballot, cand, tally, nActive>>
        /\ maintenance' = TRUE /\ step = "live" /\ step' = "maintenance" /\ todo' = todo
    BY <1>2 DEF StartMaintenance, Maintenance
  <2>2. Grounded' /\ Rowless'
    BY <2>1, QuietWindow
  <2>3. Window'
    BY <1>1, <2>1 DEF Window
  <2> QED
    BY <2>2, <2>3 DEF Repair
<1>3. CASE StepResetState
  <2>1. /\ UNCHANGED <<now, tokenVars, weightVars, ballot, cand, nActive, maintenance>>
        /\ tally' = [weight |-> 0, votes |-> 0]
        /\ step = "maintenance" /\ step' = "stateReset" /\ todo' = todo /\ maintenance
    BY <1>3 DEF StepResetState, ResetState
  <2>2. UNCHANGED <<now, member, ballot, cand, weight, quorum>>
    BY <2>1 DEF tokenVars, weightVars
  <2>3. TypeOK'
    BY <1>1, <2>1 DEF Grounded, TypeOK, tokenVars, weightVars
  <2>4. Grounded'
    BY <1>1, <2>2, <2>3 DEF Grounded, Registered, VotesForRows
  <2>5. Rowless'
    BY <1>1, <2>2 DEF Rowless
  <2>6. Window'
    BY <1>1, <2>1 DEF Window
  <2> QED
    BY <2>4, <2>5, <2>6 DEF Repair
<1>4. CASE StepResetCands
  <2>1. /\ ResetCands /\ step = "stateReset" /\ step' = "candsReset" /\ todo' = todo
        /\ maintenance /\ maintenance' = maintenance
        /\ tally = [weight |-> 0, votes |-> 0]
    BY <1>1, <1>4 DEF StepResetCands, ResetCands, Window
  <2>2. Grounded' /\ Rowless' /\ TalliesExact(Tallies, Partial({}))'
    BY <1>1, <2>1, ResetCandsExact
  <2>3. Window'
    BY <1>1, <2>1, <2>2 DEF Window
  <2> QED
    BY <2>2, <2>3 DEF Repair
<1>5. CASE Rerun
  <2>1. /\ UNCHANGED <<now, tokenVars, weightVars, ballot, cand, tally, nActive,
                       maintenance>>
        /\ step # "live" /\ step' = "maintenance" /\ todo' = {}
    BY <1>5 DEF Rerun, vars, voteVars
  <2>2. Grounded' /\ Rowless'
    BY <1>1, <2>1, QuietWindow
  <2>3. Window'
    BY <1>1, <2>1 DEF Window
  <2> QED
    BY <2>2, <2>3 DEF Repair
<1>6. CASE EndMaintenance
  <2>1. /\ UNCHANGED <<now, tokenVars, weightVars, ballot, cand, tally, nActive>>
        /\ maintenance' = FALSE /\ step = "rebuilt" /\ step' = "live" /\ todo' = todo
    BY <1>6 DEF EndMaintenance, Maintenance
  <2>2. Grounded' /\ Rowless'
    BY <2>1, QuietWindow
  <2>3. Window'
    BY <1>1, <2>1 DEF Window
  <2> QED
    BY <2>2, <2>3 DEF Repair
<1> QED
  BY <1>2, <1>3, <1>4, <1>5, <1>6, StepFetchVoters, StepReplayBatch DEF Operators

LEMMA StepRepair ==
  ASSUME StakeWeighted \/ Issuer \notin Joiners, Repair, [RebuildNext]_rebuildVars
  PROVE  Repair'
<1>1. Grounded /\ Rowless /\ Window
  BY DEF Repair
<1>2. CASE UserNext /\ UNCHANGED <<step, todo>>
  <2>1. [Next]_vars
    BY <1>2 DEF Next
  <2>2. Grounded' /\ Rowless'
    BY <1>1, <2>1, NextGrounded, NextRowless
  <2>3. step # "live" => SameData
    BY <1>1, <1>2, WindowStep DEF Window
  <2>4. Window'
    BY <1>1, <1>2, <2>2, <2>3, WindowKept DEF Grounded
  <2> QED
    BY <2>2, <2>4 DEF Repair
<1>3. CASE UNCHANGED rebuildVars
  <2>1. UNCHANGED vars /\ UNCHANGED <<step, todo>>
    BY <1>3 DEF rebuildVars
  <2>2. [Next]_vars
    BY <2>1
  <2>3. Grounded' /\ Rowless'
    BY <1>1, <2>2, NextGrounded, NextRowless
  <2>4. SameData
    BY <2>1 DEF SameData, vars, voteVars, weightVars
  <2>5. Window'
    BY <1>1, <2>1, <2>3, <2>4, WindowKept DEF Grounded
  <2> QED
    BY <2>3, <2>5 DEF Repair
<1> QED
  BY <1>2, <1>3, StepOperators DEF RebuildNext

LEMMA InitRepair == RebuildInit => Repair
<1> SUFFICES ASSUME RebuildInit PROVE Repair
  OBVIOUS
<1>1. Init /\ step = "live" /\ todo = {}
  BY DEF RebuildInit
<1>2. Grounded
  BY <1>1, InitGrounded
<1>3. Rowless
  BY <1>1 DEF Init, Rowless, NoCandidate
<1>4. Window
  BY <1>1 DEF Window
<1> QED
  BY <1>2, <1>3, <1>4 DEF Repair

LEMMA AlwaysRepair ==
  ASSUME StakeWeighted \/ Issuer \notin Joiners
  PROVE  RebuildSpec => []Repair
<1>1. RebuildInit => Repair
  BY InitRepair
<1>2. Repair /\ [RebuildNext]_rebuildVars => Repair'
  BY StepRepair
<1> QED
  BY <1>1, <1>2, PTL DEF RebuildSpec

(* When every batch is replayed, the tallies are those of the ballots,      *)
(* whatever they were before and whatever the members did meanwhile         *)
(* (resetstate, resetcands, collectvotes).                                  *)
THEOREM RebuildCorrect ==
  ASSUME StakeWeighted \/ Issuer \notin Joiners
  PROVE  RebuildSpec => []RebuildExact
<1>1. Repair => RebuildExact
  <2> SUFFICES ASSUME Repair, step = "rebuilt"
               PROVE  PowerIsSum /\ AgeIsSum /\ VotesTotalIsSum /\ QuorumTotalAlwaysIsSum
    BY DEF RebuildExact
  <2>1. Accounts \ VotersAt(todo) = Accounts
    BY DEF Repair, Window, VotersAt
  <2>2. Partial(Accounts) = ballot
    BY DEF Repair, Grounded, TypeOK, Partial
  <2>3. TalliesExact(Tallies, ballot)
    BY <2>1, <2>2 DEF Repair, Window
  <2>4. Tallies.cand = cand /\ Tallies.tally = tally
    BY DEF Tallies
  <2>5. /\ \A c \in Accounts : /\ RowExact(cand[c], weight, ballot, c)
                               /\ cand[c].voters = Cardinality(VotersOf(ballot, c))
        /\ tally.votes = Total(weight, Casting(ballot))
        /\ tally.weight = Total(quorum, Casting(ballot))
    BY <2>3, <2>4 DEF TalliesExact
  <2> QED
    BY <2>5 DEF RowExact, PowerIsSum, AgeIsSum, VotesTotalIsSum, QuorumTotalAlwaysIsSum
<1>2. RebuildSpec => []Repair
  BY AlwaysRepair
<1> QED
  BY <1>1, <1>2, PTL

(* The ballots and weights that the replay reads hold still in the window:  *)
(* votecust and weightobsv refuse, and no helper writes them. (Without      *)
(* stakevote, issue credits the issuer even then.)                          *)
THEOREM WindowFreezesCorrect ==
  ASSUME StakeWeighted
  PROVE  RebuildSpec => WindowFreezes
<1>1. Repair /\ [RebuildNext]_rebuildVars
        => [maintenance => UNCHANGED <<ballot, weight, quorum>>]_rebuildVars
  <2> SUFFICES ASSUME Repair, RebuildNext, maintenance
               PROVE  UNCHANGED <<ballot, weight, quorum>>
    OBVIOUS
  <2>1. CASE UserNext
    BY <2>1, WindowStep DEF Repair, SameData
  <2>2. CASE Operators
    BY <2>2 DEF Operators, StartMaintenance, StepResetState, StepResetCands, FetchVoters,
       ReplayBatch, Rerun, EndMaintenance, Maintenance, ResetState, ResetCands,
       CollectVotes, vars, weightVars, voteVars
  <2> QED
    BY <2>1, <2>2 DEF RebuildNext
<1>2. RebuildSpec => []Repair
  BY AlwaysRepair
<1> QED
  BY <1>1, <1>2, PTL DEF RebuildSpec, WindowFreezes

=============================================================================
