------------------------------ MODULE DacVoting ------------------------------
(***************************************************************************)
(* One DAC's votes: the candidates, votes and global tallies of            *)
(* daccustodian, the weights table of stakevote, and what they observe of  *)
(* the token contract (memberships, stakes and stake times).               *)
(*                                                                         *)
(* Every EOSIO action is one atomic transaction: an action here is the     *)
(* handler together with the notifications and inline actions it sends, in *)
(* the order they run; a failed check() aborts the whole, so it is a guard.*)
(*                                                                         *)
(* The source of vote weights is stakevote's table if the directory        *)
(* registers a VOTE_WEIGHT account (StakeWeighted), and the token balances *)
(* otherwise.                                                              *)
(***************************************************************************)
EXTENDS Totals

CONSTANTS
  Accounts,       \* accounts that hold tokens, vote or stand as candidates
  Joiners,        \* those that ever register as members of the DAC
  Issuer,         \* the issuer of the DAC's token
  StakeWeighted,  \* a VOTE_WEIGHT account (stakevote) is registered
  MaxVotes,       \* globals.maxvotes
  LockupStake,    \* globals.lockupasset
  LockupDelay,    \* globals.lockup_release_time_delay
  MinStakeTime,   \* stakeconfig.min_stake_time
  MaxStakeTime,   \* stakeconfig.max_stake_time
  Multiplier0,    \* the first time_multiplier of stakevote
  Supply0,        \* the first balance of every account (token-weighted DAC)
  MaxStake,       \* bound: the largest stake of an account
  MaxBalance,     \* bound: the largest balance of an account (token-weighted)
  MaxMultiplier,  \* bound: the largest time_multiplier
  MaxTime         \* bound: the last second of a behaviour

ASSUME ConstantsAssumption ==
  /\ IsFiniteSet(Accounts)
  /\ Joiners \subseteq Accounts
  /\ Issuer \in Accounts
  /\ StakeWeighted \in BOOLEAN
  /\ MaxVotes \in Nat
  /\ LockupStake \in Nat /\ LockupDelay \in Nat
  /\ MinStakeTime \in Nat
  /\ MaxStakeTime \in Nat \ {0}
  /\ MinStakeTime <= MaxStakeTime
  /\ Multiplier0 \in Nat \ {0}
  /\ Supply0 \in Nat
  /\ MaxStake \in Nat /\ MaxBalance \in Nat
  /\ MaxMultiplier \in Nat /\ MaxTime \in Nat

VARIABLES
  now,          \* the head block's time, in seconds
  member,       \* registration with the member terms, by account
  stake,        \* the token contract's stakes, by account
  delay,        \* what staketime_info::get_delay returns, by account
  multiplier,   \* stakevote's time_multiplier
  weight,       \* the voter's weight, as get_vote_weight returns it
  quorum,       \* the voter's weight for the quorum
  ballot,       \* daccustodian's votes table
  cand,         \* daccustodian's candidates table
  tally,        \* total_weight_of_votes, total_votes_on_candidates
  nActive,      \* number_active_candidates
  maintenance   \* maintenance_mode

tokenVars == <<member, stake, delay>>
weightVars == <<multiplier, weight, quorum>>
voteVars == <<ballot, cand, tally, nActive, maintenance>>
vars == <<now, tokenVars, weightVars, voteVars>>

-----------------------------------------------------------------------------
(* Tables *)

Memberships == {"none", "lapsed", "current"}

Ballots == [row : BOOLEAN, cands : SUBSET Accounts, ts : Nat]
NoBallot == [row |-> FALSE, cands |-> {}, ts |-> 0]

Candidates == [row : BOOLEAN, active : BOOLEAN, power : Nat, voters : Nat,
               rwt : Nat, avg : Nat]
NoCandidate == [row |-> FALSE, active |-> FALSE, power |-> 0, voters |-> 0,
                rwt |-> 0, avg |-> 0]

(* The accounts whose vote names c, and those whose vote names anyone. *)
VotersOf(bt, c) == {v \in Accounts : c \in bt[v].cands}
Casting(bt) == {v \in Accounts : bt[v].cands # {}}

-----------------------------------------------------------------------------
(* How a vote's weight moves *)

(* Operators named Operation_Slip are slips one could make in Operation; no *)
(* specification uses them.                                                 *)

(* The check of maintenance_mode that opens votecust and weightobsv. *)
Open_Unchecked == TRUE
Open == ~maintenance

(* updateVoteWeight: one candidate gains w (loses -w) cast at time ts.      *)
AddWeight_ActiveOnly(r, w, ts) ==
  IF ~r.active THEN r
  ELSE [r EXCEPT !.power = @ + w, !.rwt = @ + w * ts,
                 !.avg = IF r.power + w = 0 THEN 0
                         ELSE (r.rwt + w * ts) \div (r.power + w)]

AddWeight(r, w, ts) ==
  LET power == r.power + w
      rwt == r.rwt + w * ts
  IN  IF w = 0 \/ ~r.row THEN r
      ELSE IF power <= 0 THEN [r EXCEPT !.power = 0, !.rwt = 0, !.avg = 0]
      ELSE [r EXCEPT !.power = power, !.rwt = rwt, !.avg = rwt \div power]

(* ... and the checks it makes: the tolerance of 4, the unsigned            *)
(* accumulator, the average not in the future.                              *)
Accepts(r, w, ts) ==
  LET power == r.power + w
      rwt == r.rwt + w * ts
  IN  w # 0 /\ r.row =>
        /\ power > -5
        /\ power > 0 => rwt >= 0 /\ rwt \div power <= now

(* modifyVoteWeights on one candidate: the old vote's weight leaves at the  *)
(* old time, then the new vote's arrives at the new time.                   *)
Left_Kept(r, c, dw, old, oldTs) == r

Left_AtNow(r, c, dw, old, oldTs) ==
  IF c \in old THEN AddWeight(r, -dw, now) ELSE r

Left(r, c, dw, old, oldTs) ==
  IF c \in old THEN AddWeight(r, -dw, oldTs) ELSE r

Moved(r, c, dw, old, oldTs, new, newTs) ==
  LET r1 == Left(r, c, dw, old, oldTs)
  IN  IF c \in new THEN AddWeight(r1, dw, newTs) ELSE r1

MoveAllowed(cd, dw, old, oldTs, new, newTs) ==
  /\ \A c \in old : Accepts(cd[c], -dw, oldTs)
  /\ \A c \in new : Accepts(Left(cd[c], c, dw, old, oldTs), dw, newTs)

(* ... and on the global tallies; nothing at all happens when dw is 0.      *)
Tallied_EachVote(tt, dw, dq, old, new) ==
  LET sign == IF new = {} THEN -1 ELSE 1
  IN  [weight |-> tt.weight + sign * dq, votes |-> tt.votes + sign * dw]

Tallied(tt, dw, dq, old, new) ==
  LET sign == (IF old = {} THEN 1 ELSE 0) - (IF new = {} THEN 1 ELSE 0)
  IN  IF dw = 0 THEN tt
      ELSE [weight |-> tt.weight + sign * dq, votes |-> tt.votes + sign * dw]

(* weightobsv for one account: its weight moved by dw with its vote as cast.*)
ObservedCands(cd, b, dw) ==
  [c \in Accounts |-> Moved(cd[c], c, dw, {}, 0, b.cands, b.ts)]
ObservedTally_VoteWeight(tt, b, dw, dq) ==
  IF b.row THEN Tallied(tt, dw, dw, {}, b.cands) ELSE tt

ObservedTally(tt, b, dw, dq) ==
  IF b.row THEN Tallied(tt, dw, dq, {}, b.cands) ELSE tt
ObserveAllowed(cd, b, dw) == MoveAllowed(cd, dw, {}, 0, b.cands, b.ts)

-----------------------------------------------------------------------------
Init ==
  /\ now = 1
  /\ member = [a \in Accounts |-> "none"]
  /\ stake = [a \in Accounts |-> 0]
  /\ delay = [a \in Accounts |-> MinStakeTime]
  /\ multiplier = Multiplier0
  /\ weight = [a \in Accounts |-> IF StakeWeighted THEN 0 ELSE Supply0]
  /\ quorum = weight
  /\ ballot = [a \in Accounts |-> NoBallot]
  /\ cand = [a \in Accounts |-> NoCandidate]
  /\ tally = [weight |-> 0, votes |-> 0]
  /\ nActive = 0
  /\ maintenance = FALSE

Tick ==
  /\ now < MaxTime
  /\ now' = now + 1
  /\ UNCHANGED <<tokenVars, weightVars, voteVars>>

-----------------------------------------------------------------------------
(* Members: the token contract's memberreg, memberunreg and newmemterms *)

MemberReg(a) ==
  /\ a \in Joiners
  /\ member' = [member EXCEPT ![a] = "current"]
  /\ UNCHANGED <<now, stake, delay, weightVars, voteVars>>

MemberUnreg_Anyone(a) ==
  /\ member[a] # "none"
  /\ member' = [member EXCEPT ![a] = "none"]
  /\ UNCHANGED <<now, stake, delay, weightVars, voteVars>>

MemberUnreg(a) ==
  /\ member[a] # "none"
  /\ ~cand[a].active
  /\ member' = [member EXCEPT ![a] = "none"]
  /\ UNCHANGED <<now, stake, delay, weightVars, voteVars>>

NewMemTerms ==
  /\ member' = [a \in Accounts |->
                  IF member[a] = "current" THEN "lapsed" ELSE member[a]]
  /\ UNCHANGED <<now, stake, delay, weightVars, voteVars>>

-----------------------------------------------------------------------------
(* Weights *)

StakeWeight_Minus(s, d, m) == (s * (MaxStakeTime - d * m)) \div MaxStakeTime

(* calculate_weight_and_quorum_deltas, truncated as the double is. *)
StakeWeight(s, d, m) == (s * (MaxStakeTime + d * m)) \div MaxStakeTime

(* The token contract tells that a now has s staked for the stake time d.   *)
(* stakevote forwards the notice to daccustodian, which refuses it if an    *)
(* active candidate would unstake, then stores the new weight and sends     *)
(* weightobsv.                                                              *)
StakeObserved(a, s, d) ==
  LET w == StakeWeight(s, d, multiplier)
      dw == w - weight[a]
      dq == s - quorum[a]
  IN  /\ s < stake[a] => ~cand[a].active
      /\ stake' = [stake EXCEPT ![a] = s]
      /\ delay' = [delay EXCEPT ![a] = d]
      /\ IF StakeWeighted
         THEN /\ Open
              /\ ObserveAllowed(cand, ballot[a], dw)
              /\ weight' = [weight EXCEPT ![a] = w]
              /\ quorum' = [quorum EXCEPT ![a] = IF w = 0 THEN 0 ELSE s]
              /\ cand' = ObservedCands(cand, ballot[a], dw)
              /\ tally' = ObservedTally(tally, ballot[a], dw, dq)
         ELSE UNCHANGED <<weight, quorum, cand, tally>>
      /\ UNCHANGED <<now, member, multiplier, ballot, nActive, maintenance>>

(* stake, and cancel of an unstake. get_liquid drops the stake time of an   *)
(* account that has nothing staked any more.                                *)
Stake(a, q, d) ==
  /\ q > 0
  /\ d = delay[a] \/ (stake[a] = 0 /\ d = MinStakeTime)
  /\ StakeObserved(a, stake[a] + q, d)

Unstake(a, q) ==
  /\ q > 0 /\ q <= stake[a]
  /\ StakeObserved(a, stake[a] - q, delay[a])

(* A stake time is only ever raised while there is a stake. *)
StakeTime(a, d) ==
  /\ stake[a] > 0 => d >= delay[a]
  /\ StakeObserved(a, stake[a], d)

(* stakevote's updateconfig: the weights are not recomputed. *)
UpdateConfig(m) ==
  /\ StakeWeighted
  /\ m > multiplier
  /\ multiplier' = m
  /\ UNCHANGED <<now, tokenVars, weight, quorum, voteVars>>

(* transfer in a token-weighted DAC: balanceobsv with two deltas, applied   *)
(* one after the other.                                                     *)
Transfer(from, to, q) ==
  LET cd1 == ObservedCands(cand, ballot[from], -q)
      tt1 == ObservedTally(tally, ballot[from], -q, -q)
  IN  /\ ~StakeWeighted
      /\ from # to
      /\ q > 0 /\ q <= weight[from]
      /\ Open
      /\ ObserveAllowed(cand, ballot[from], -q)
      /\ ObserveAllowed(cd1, ballot[to], q)
      /\ weight' = [weight EXCEPT ![from] = @ - q, ![to] = @ + q]
      /\ quorum' = weight'
      /\ cand' = ObservedCands(cd1, ballot[to], q)
      /\ tally' = ObservedTally(tt1, ballot[to], q, q)
      /\ UNCHANGED <<now, tokenVars, multiplier, ballot, nActive, maintenance>>

Burn(from, q) ==
  /\ ~StakeWeighted
  /\ q > 0 /\ q <= weight[from]
  /\ Open
  /\ ObserveAllowed(cand, ballot[from], -q)
  /\ weight' = [weight EXCEPT ![from] = @ - q]
  /\ quorum' = weight'
  /\ cand' = ObservedCands(cand, ballot[from], -q)
  /\ tally' = ObservedTally(tally, ballot[from], -q, -q)
  /\ UNCHANGED <<now, tokenVars, multiplier, ballot, nActive, maintenance>>

(* issue credits the issuer and tells nobody. *)
Issue(q) ==
  /\ ~StakeWeighted
  /\ q > 0
  /\ weight' = [weight EXCEPT ![Issuer] = @ + q]
  /\ quorum' = weight'
  /\ UNCHANGED <<now, tokenVars, multiplier, voteVars>>

-----------------------------------------------------------------------------
(* Candidates *)

Nominate(c) ==
  /\ member[c] = "current"
  /\ LockupStake > 0 => stake[c] >= LockupStake /\ delay[c] >= LockupDelay
  /\ ~cand[c].active
  /\ nActive' = nActive + 1
  /\ cand' = [cand EXCEPT ![c].row = TRUE, ![c].active = TRUE]
  /\ UNCHANGED <<now, tokenVars, weightVars, ballot, tally, maintenance>>

Withdraw_Erased(c) ==
  /\ cand[c].active
  /\ nActive' = nActive - 1
  /\ cand' = [cand EXCEPT ![c] = NoCandidate]
  /\ UNCHANGED <<now, tokenVars, weightVars, ballot, tally, maintenance>>

(* disableCandidate: the row stays, with its votes. *)
Withdraw(c) ==
  /\ cand[c].active
  /\ nActive' = nActive - 1
  /\ cand' = [cand EXCEPT ![c].active = FALSE]
  /\ UNCHANGED <<now, tokenVars, weightVars, ballot, tally, maintenance>>

-----------------------------------------------------------------------------
(* Votes *)

(* update_number_of_votes, on one candidate *)
Counted(r, c, old, new) ==
  LET n1 == IF c \in old /\ r.row THEN r.voters - 1 ELSE r.voters
      n2 == IF c \in new /\ r.row THEN n1 + 1 ELSE n1
  IN  [r EXCEPT !.voters = n2]

(* votecust (removecstvte when new is empty). A second empty vote erases    *)
(* the row that the first one made.                                         *)
VoteCust(a, new) ==
  LET old == ballot[a].cands
      counted == [c \in Accounts |-> Counted(cand[c], c, old, new)]
      w == weight[a]
  IN  /\ Open
      /\ member[a] = "current"
      /\ Cardinality(new) <= MaxVotes
      /\ \A c \in new : member[c] = "current" /\ cand[c].active
      /\ \A c \in old : cand[c].row => cand[c].voters >= 1
      /\ MoveAllowed(counted, w, old, ballot[a].ts, new, now)
      /\ cand' = [c \in Accounts |->
                    Moved(counted[c], c, w, old, ballot[a].ts, new, now)]
      /\ tally' = Tallied(tally, w, quorum[a], old, new)
      /\ ballot' = [ballot EXCEPT ![a] =
                      IF ballot[a].row /\ new = {} THEN NoBallot
                      ELSE [row |-> TRUE, cands |-> new, ts |-> now]]
      /\ UNCHANGED <<now, tokenVars, weightVars, nActive, maintenance>>

(* The operators' switch that refuses votes and weight changes. *)
Maintenance(on) ==
  /\ maintenance' = on
  /\ UNCHANGED <<now, tokenVars, weightVars, ballot, cand, tally, nActive>>

-----------------------------------------------------------------------------
(* What anyone but the operators may do. *)
UserNext ==
  \/ Tick
  \/ NewMemTerms
  \/ \E a \in Accounts : \/ MemberReg(a)
                         \/ MemberUnreg(a)
                         \/ Nominate(a)
                         \/ Withdraw(a)
  \/ \E a \in Accounts, q \in 1 .. MaxStake, d \in MinStakeTime .. MaxStakeTime :
        stake[a] + q <= MaxStake /\ Stake(a, q, d)
  \/ \E a \in Accounts, q \in 1 .. MaxStake : Unstake(a, q)
  \/ \E a \in Accounts, d \in MinStakeTime .. MaxStakeTime : StakeTime(a, d)
  \/ \E m \in 1 .. MaxMultiplier : UpdateConfig(m)
  \/ \E f, t \in Accounts, q \in 1 .. MaxBalance :
        weight[t] + q <= MaxBalance /\ Transfer(f, t, q)
  \/ \E f \in Accounts, q \in 1 .. MaxBalance : Burn(f, q)
  \/ \E q \in 1 .. MaxBalance : weight[Issuer] + q <= MaxBalance /\ Issue(q)
  \/ \E a \in Accounts, new \in SUBSET Accounts : VoteCust(a, new)

Next == UserNext \/ \E on \in BOOLEAN : Maintenance(on)

Spec == Init /\ [][Next]_vars

-----------------------------------------------------------------------------
(* Properties *)

TypeOK ==
  /\ now \in Nat
  /\ member \in [Accounts -> Memberships]
  /\ stake \in [Accounts -> Nat]
  /\ delay \in [Accounts -> MinStakeTime .. MaxStakeTime]
  /\ multiplier \in Nat \ {0}
  /\ weight \in [Accounts -> Nat]
  /\ quorum \in [Accounts -> Nat]
  /\ ballot \in [Accounts -> Ballots]
  /\ cand \in [Accounts -> Candidates]
  /\ tally \in [weight : Int, votes : Int]
  /\ nActive \in Int
  /\ maintenance \in BOOLEAN

(* The weight an account brought to a vote, times the second it voted in. *)
Aged(wt, bt) == [v \in Accounts |-> wt[v] * bt[v].ts]

(* A candidate's vote power and number of voters are those of the ballots   *)
(* that name it, at the weights the voters have now (updateVoteWeight,      *)
(* update_number_of_votes, weightobsv): no sequence of votes, transfers,    *)
(* stakes, withdrawals and new nominations loses or doubles a weight.       *)
PowerIsSum ==
  \A c \in Accounts : cand[c].row =>
    /\ cand[c].power = Total(weight, VotersOf(ballot, c))
    /\ cand[c].voters = Cardinality(VotersOf(ballot, c))

(* The accumulated weight * time, and so the average vote time that breaks  *)
(* a tie of power, is that of the same ballots.                             *)
AgeIsSum ==
  \A c \in Accounts : cand[c].row =>
    /\ cand[c].rwt = Total(Aged(weight, ballot), VotersOf(ballot, c))
    /\ cand[c].power > 0 => cand[c].avg = cand[c].rwt \div cand[c].power

(* total_votes_on_candidates is the weight of the accounts that vote for    *)
(* anyone, each once, however many candidates it names.                     *)
VotesTotalIsSum == tally.votes = Total(weight, Casting(ballot))

(* total_weight_of_votes, which the election's quorum is measured against,  *)
(* is their quorum weight, as long as the time multiplier never changed.    *)
QuorumTotalIsSum ==
  multiplier = Multiplier0 => tally.weight = Total(quorum, Casting(ballot))

(* The same without that condition.                                         *)
QuorumTotalAlwaysIsSum == tally.weight = Total(quorum, Casting(ballot))

(* What a ballot brought is always there to take back: updateVoteWeight and *)
(* update_number_of_votes find the row, the voter, the power and the        *)
(* accumulated age when the voter changes its vote, unstakes or transfers,  *)
(* so neither the clamp at zero nor the "too negative" check ever bites.    *)
WeightsCovered ==
  \A a, c \in Accounts : c \in ballot[a].cands =>
    /\ cand[c].row
    /\ cand[c].voters >= 1
    /\ cand[c].power >= weight[a]
    /\ cand[c].rwt >= weight[a] * ballot[a].ts

(* number_active_candidates counts the active candidates. *)
ActiveCounted == nActive = Cardinality({c \in Accounts : cand[c].active})

(* While a candidate is active, it stays a registered member of the DAC and *)
(* keeps the stake and the stake time it had to show: memberunreg, stakeobsv*)
(* and staketime refuse, and get_liquid drops no stake time of a staker.    *)
ActiveKeepsStake ==
  \A c \in Accounts : cand[c].active =>
    /\ cand[c].row
    /\ member[c] # "none"
    /\ stake[c] >= LockupStake
    /\ LockupStake > 0 => delay[c] >= LockupDelay

=============================================================================
