----------------------------- MODULE Referendum -----------------------------
(***************************************************************************)
(* The referendum contract for one DAC: deposits and fees, referendums,    *)
(* votes weighted by stake, and the tallies that follow the stakes through *)
(* the notices of the token contract.                                      *)
(*                                                                         *)
(* The stakes are an input: TokenStakes says how they move.  Proposers and *)
(* voters are members with the DAC's latest terms.  A token stands for an  *)
(* extended symbol.  The msigs that executed referendums propose are known *)
(* by their name, which is the id of the referendum.                       *)
(*                                                                         *)
(* Operators named Operation_Slip are variants that no step uses.          *)
(***************************************************************************)
EXTENDS Totals

CONSTANTS
  Accounts,    \* members that vote
  Proposers,   \* those of them that pay deposits and propose
  Types,       \* subset of {"binding", "semibinding", "opinion"}
  Tokens,
  NoToken,     \* the token of no deposit
  NoConfig,    \* the config singleton when it is not there
  Configs,     \* the settings updateconfig may be given
  MaxVotes,    \* the referendums one may vote on at a time (20)
  Word,        \* tallies are unsigned integers below this (2^64)
  MaxStake,    \* bound: the largest stake of an account
  MaxDeposit,  \* bound: the largest deposit of an account
  FollowStale, \* bound: whether votes are followed on a referendum that was
               \* executed, and settings given again after clearconfig
  MaxId        \* bound: the largest referendum id

Ids == 1 .. MaxId
Countings == {"token", "account"}
Choices == {"yes", "no", "abstain"}
Keys == Choices \cup {"remove"}

Settings ==
  [duration : Nat,
   fee : [Types -> [token : Tokens, amount : Nat]],
   pass : [Types -> Nat],              \* percent
   quorum : [Countings -> [Types -> Nat]],
   allow_per_account_voting : [Types -> BOOLEAN],
   allow_vote_type : [Types -> BOOLEAN]]

ASSUME ReferendumAssumption ==
  /\ IsFiniteSet(Accounts) /\ Proposers \subseteq Accounts
  /\ Types \subseteq {"binding", "semibinding", "opinion"}
  /\ NoToken \notin Tokens /\ NoConfig \notin Settings
  /\ Configs \subseteq Settings
  /\ MaxVotes \in Nat /\ Word \in Nat \ {0}
  /\ MaxStake \in Nat /\ MaxDeposit \in Nat
  /\ FollowStale \in BOOLEAN /\ MaxId \in Nat

VARIABLES
  config,    \* the config singleton, NoConfig if it was removed
  next_id,   \* config.next_referendum_id
  refs,      \* the referendums table
  voters,    \* the accounts with a row in the votes table
  votes,     \* vote_info.votes: for each account the map from ids to choices
  stake,     \* what the token contract's stakes table holds
  deposits,  \* the deposits table
  held,      \* the contract's balance of each token
  msigs,     \* the names of referendums' msigs in msigworlds' table
  stale      \* history: ids executed once, or free after clearconfig

voteVars == <<refs, voters, votes>>
moneyVars == <<deposits, held>>
vars == <<config, next_id, voteVars, stake, moneyVars, msigs, stale>>

NoVotes == [k \in Keys |-> 0]
NoRef == [row |-> FALSE, proposer |-> NoToken, type |-> "opinion",
          voting_type |-> "token", status |-> "open", token_votes |-> NoVotes,
          account_votes |-> NoVotes, left |-> -1]
NoDeposit == [token |-> NoToken, amount |-> 0]

Wrapped(n) == n % Word

-----------------------------------------------------------------------------
(* get_status *)

VotesOf(r) == IF r.voting_type = "token" THEN r.token_votes ELSE r.account_votes

(* What is compared with the quorum, and what the yes votes are a share of. *)
Sum(v) == v["yes"] + v["no"] + v["abstain"] + v["remove"]
CurrentAll(v) == v["yes"] + v["no"] + v["abstain"]

(* Seconds are left: the clock is before the expiry. *)
Over(r) == r.left <= 0

(* The sums are checked, and a share of nothing has no value. *)
StatusKnown(r) ==
  /\ config # NoConfig
  /\ Sum(VotesOf(r)) < Word
  /\ \/ Over(r)
     \/ Sum(VotesOf(r)) < config.quorum[r.voting_type][r.type]
     \/ CurrentAll(VotesOf(r)) > 0

StatusOf(r) ==
  LET v == VotesOf(r) IN
  IF Over(r) THEN "expired"
  ELSE IF Sum(v) < config.quorum[r.voting_type][r.type] THEN "quorum.unmet"
  ELSE IF (100 * v["yes"]) \div CurrentAll(v) >= config.pass[r.type]
  THEN "passing" ELSE "failing"

Updated(r) == [r EXCEPT !.status = StatusOf(r)]

(* Votes on these no longer follow the stakes and may be dropped. *)
Settled(i) == ~refs[i].row \/ refs[i].status \in {"expired", "executed"}

-----------------------------------------------------------------------------
Init ==
  /\ config = NoConfig
  /\ next_id = 1
  /\ refs = [i \in Ids |-> NoRef]
  /\ voters = {}
  /\ votes = [a \in Accounts |-> [i \in Ids |-> "none"]]
  /\ stake \in [Accounts -> 0 .. MaxStake]
  /\ deposits = [a \in Accounts |-> NoDeposit]
  /\ held = [t \in Tokens |-> 0]
  /\ msigs = {}
  /\ stale = {}

Tick ==
  /\ refs' = [i \in Ids |->
       [refs[i] EXCEPT !.left = IF @ >= 0 THEN @ - 1 ELSE -1]]
  /\ UNCHANGED <<config, next_id, voters, votes, stake, moneyVars, msigs, stale>>

(* receive: one row for each account, which keeps its first token. *)
Receive_AnyToken(a, t, n) ==
  /\ n > 0 /\ deposits[a].amount + n <= MaxDeposit
  /\ deposits' = [deposits EXCEPT ![a] = [token |-> t, amount |-> @.amount + n]]
  /\ held' = [held EXCEPT ![t] = @ + n]
  /\ UNCHANGED <<config, next_id, voteVars, stake, msigs, stale>>

Receive(a, t, n) ==
  /\ n > 0 /\ deposits[a].amount + n <= MaxDeposit
  /\ deposits[a].token \in {NoToken, t}
  /\ deposits' = [deposits EXCEPT ![a] = [token |-> t, amount |-> @.amount + n]]
  /\ held' = [held EXCEPT ![t] = @ + n]
  /\ UNCHANGED <<config, next_id, voteVars, stake, msigs, stale>>

(* The money is there, as for every transfer of a token. *)
Refund(a) ==
  /\ deposits[a] # NoDeposit
  /\ held[deposits[a].token] >= deposits[a].amount
  /\ held' = [held EXCEPT ![deposits[a].token] = @ - deposits[a].amount]
  /\ deposits' = [deposits EXCEPT ![a] = NoDeposit]
  /\ UNCHANGED <<config, next_id, voteVars, stake, msigs, stale>>

UpdateConfig(c) ==
  /\ (config = NoConfig /\ stale = Ids) => FollowStale
  /\ config' = c
  /\ UNCHANGED <<next_id, voteVars, stake, moneyVars, msigs, stale>>

(* clearconfig: the next id goes with the settings. *)
ClearConfig ==
  /\ config' = NoConfig
  /\ next_id' = 1
  /\ stale' = Ids
  /\ UNCHANGED <<voteVars, stake, moneyVars, msigs>>

-----------------------------------------------------------------------------
(* What propose takes from the deposit and sends to the treasury. *)
Charged(a, fee) ==
  IF fee.amount = 0 THEN UNCHANGED moneyVars
  ELSE /\ deposits[a].token = fee.token /\ deposits[a].amount >= fee.amount
       /\ deposits' = [deposits EXCEPT ![a] =
            IF @ = fee THEN NoDeposit
            ELSE [token |-> fee.token, amount |-> @.amount - fee.amount]]
       /\ held[fee.token] >= fee.amount
       /\ held' = [held EXCEPT ![fee.token] = @ - fee.amount]

Propose(a, type, counting) ==
  /\ config # NoConfig
  /\ config.allow_vote_type[type]
  /\ counting = "account" => config.allow_per_account_voting[type]
  /\ Charged(a, config.fee[type])
  /\ next_id \in Ids /\ ~refs[next_id].row
  /\ refs' = [refs EXCEPT ![next_id] =
       [row |-> TRUE, proposer |-> a, type |-> type, voting_type |-> counting,
        status |-> "open", token_votes |-> NoVotes, account_votes |-> NoVotes,
        left |-> config.duration]]
  /\ next_id' = next_id + 1
  /\ UNCHANGED <<config, voters, votes, stake, msigs, stale>>

(* An entry that is not there counts as "remove". *)
OldVote(a, i) == IF votes[a][i] = "none" THEN "remove" ELSE votes[a][i]

(* The first row stores any vote; later ones drop the entry on "remove".    *)
NewEntry(a, choice) ==
  IF a \in voters /\ choice = "remove" THEN "none" ELSE choice

MayAdd(a, i, choice) ==
  (a \in voters /\ choice # "remove" /\ OldVote(a, i) = "remove") =>
    Cardinality({j \in Ids : votes[a][j] # "none"}) < MaxVotes

(* How the tally v changes when n moves from the old to the new choice.     *)
Moved_Added(v, old, new, n) ==
  [k \in Keys |-> Wrapped(v[k] + (IF k = new /\ k # "remove" THEN n ELSE 0))]

Moved(v, old, new, n) ==
  [k \in Keys |-> Wrapped(v[k] - (IF k = old /\ k # "remove" THEN n ELSE 0)
                               + (IF k = new /\ k # "remove" THEN n ELSE 0))]

(* vote: allowed in the very second of the expiry; the inline updatestatus  *)
(* must succeed.                                                            *)
Vote(a, i, choice) ==
  LET old == OldVote(a, i)
      z == refs[i]
      r == [z EXCEPT !.token_votes = Moved(@, old, choice, stake[a]),
                     !.account_votes = Moved(@, old, choice, 1)]
  IN
  /\ i \in stale => FollowStale
  /\ refs[i].row /\ refs[i].left >= 0
  /\ MayAdd(a, i, choice)
  /\ StatusKnown(r)
  /\ refs' = [refs EXCEPT ![i] = Updated(r)]
  /\ votes' = [votes EXCEPT ![a][i] = NewEntry(a, choice)]
  /\ voters' = voters \cup {a}
  /\ UNCHANGED <<config, next_id, stake, moneyVars, msigs, stale>>

(* updatestatus: by anyone, whatever the status was. *)
UpdateStatus(i) ==
  /\ refs[i].row /\ StatusKnown(refs[i])
  /\ refs' = [refs EXCEPT ![i] = Updated(@)]
  /\ UNCHANGED <<config, next_id, voters, votes, stake, moneyVars, msigs, stale>>

Removed(i) ==
  /\ refs' = [refs EXCEPT ![i] = NoRef]
  /\ UNCHANGED <<config, next_id, voters, votes, stake, moneyVars, msigs, stale>>

Cancel(i, a) == refs[i].row /\ refs[i].proposer = a /\ Removed(i)

RmvExpired(i) ==
  /\ refs[i].row /\ StatusKnown(refs[i])
  /\ StatusOf(refs[i]) = "expired"
  /\ Removed(i)

RmvExecuted(i) == refs[i].row /\ refs[i].status = "executed" /\ Removed(i)

(* proposeMsig: the name must be free. *)
ProposeMsig(i) == i \notin msigs /\ msigs' = msigs \cup {i}

(* exec: the status is computed anew, also of an executed referendum.  The  *)
(* actions of a binding one are not sent.                                   *)
Exec_Stored(i) ==
  /\ refs[i].row /\ refs[i].status = "passing"
  /\ IF refs[i].type = "semibinding" THEN ProposeMsig(i) ELSE msigs' = msigs
  /\ refs' = [refs EXCEPT ![i].status = "executed"]
  /\ stale' = stale \cup {i}
  /\ UNCHANGED <<config, next_id, voters, votes, stake, moneyVars>>

Exec(i) ==
  /\ refs[i].row /\ StatusKnown(refs[i])
  /\ StatusOf(refs[i]) = "passing"
  /\ IF refs[i].type = "semibinding" THEN ProposeMsig(i) ELSE msigs' = msigs
  /\ refs' = [refs EXCEPT ![i].status = "executed"]
  /\ stale' = stale \cup {i}
  /\ UNCHANGED <<config, next_id, voters, votes, stake, moneyVars>>

(* msigworlds' cleanup frees the name. *)
MsigGone(i) ==
  /\ i \in msigs /\ msigs' = msigs \ {i}
  /\ UNCHANGED <<config, next_id, voteVars, stake, moneyVars, stale>>

-----------------------------------------------------------------------------
(* stakeobsv: each entry of the voter moves the choice it names, "remove"   *)
(* too; entries on settled referendums are dropped.                         *)
StakeObserved(a, delta) ==
  /\ refs' = [i \in Ids |->
       IF votes[a][i] = "none" \/ Settled(i) THEN refs[i]
       ELSE [refs[i] EXCEPT !.token_votes[votes[a][i]] = Wrapped(@ + delta)]]
  /\ votes' = [votes EXCEPT ![a] =
       [i \in Ids |-> IF Settled(i) THEN "none" ELSE votes[a][i]]]

(* A stake, unstake or cancel in the token contract. *)
StakeChange(a, n) ==
  /\ n # stake[a]
  /\ stake' = [stake EXCEPT ![a] = n]
  /\ StakeObserved(a, n - stake[a])
  /\ UNCHANGED <<config, next_id, voters, moneyVars, msigs, stale>>

Clean(a) ==
  /\ a \in voters
  /\ votes' = [votes EXCEPT ![a] =
       [i \in Ids |-> IF Settled(i) THEN "none" ELSE votes[a][i]]]
  /\ voters' = IF \A i \in Ids : votes'[a][i] = "none"
               THEN voters \ {a} ELSE voters
  /\ UNCHANGED <<config, next_id, refs, stake, moneyVars, msigs, stale>>

-----------------------------------------------------------------------------
MoneyStep ==
  \/ \E a \in Proposers, t \in Tokens, n \in 1 .. MaxDeposit : Receive(a, t, n)
  \/ \E a \in Proposers : Refund(a)
  \/ \E a \in Proposers, ty \in Types, c \in Countings : Propose(a, ty, c)

VoteStep ==
  \/ \E a \in Accounts, i \in Ids, k \in Keys : Vote(a, i, k)
  \/ \E a \in Accounts, n \in 0 .. MaxStake : StakeChange(a, n)
  \/ \E a \in Accounts : Clean(a)

CloseStep ==
  \E i \in Ids :
    \/ UpdateStatus(i) \/ RmvExpired(i) \/ Exec(i) \/ RmvExecuted(i) \/ MsigGone(i)
    \/ \E a \in Accounts : Cancel(i, a)

Next ==
  \/ Tick
  \/ MoneyStep \/ VoteStep \/ CloseStep
  \/ \E c \in Configs : UpdateConfig(c)
  \/ ClearConfig

Spec == Init /\ [][Next]_vars

-----------------------------------------------------------------------------
(* Properties *)

Tallies == [Keys -> 0 .. Word - 1]
Refs == [row : BOOLEAN, proposer : Accounts \cup {NoToken}, type : Types \cup {"opinion"},
         voting_type : Countings,
         status : {"open", "passing", "failing", "quorum.unmet", "expired", "executed"},
         token_votes : Tallies, account_votes : Tallies, left : Nat \cup {-1}]

TypeOK ==
  /\ config \in Configs \cup {NoConfig}
  /\ next_id \in Nat \ {0}
  /\ refs \in [Ids -> Refs]
  /\ voters \subseteq Accounts
  /\ votes \in [Accounts -> [Ids -> Keys \cup {"none"}]]
  /\ \A a \in Accounts \ voters, i \in Ids : votes[a][i] = "none"
  /\ stake \in [Accounts -> 0 .. MaxStake]
  /\ msigs \subseteq Ids /\ stale \subseteq Ids

Supporters(i, k) == {a \in Accounts : votes[a][i] = k}

(* Until a referendum is executed or expired, its tallies are the stakes    *)
(* and the number of the accounts that vote each way, however votes change, *)
(* stakes move, and rows are cleaned; unless clearconfig let ids be reused. *)
TallyIsSum ==
  \A i \in Ids \ stale :
    refs[i].row /\ refs[i].status # "expired" =>
      \A k \in Choices :
        /\ refs[i].token_votes[k] = Total(stake, Supporters(i, k))
        /\ refs[i].account_votes[k] = Cardinality(Supporters(i, k))

(* The first execution of a referendum is before its expiry, with somebody  *)
(* voting and the share of yes votes in the stakes (or the accounts) of     *)
(* that moment, though the stored status may be older than the tally.  The  *)
(* quorum is met by the votes in accounts; in stakes it is met by the votes *)
(* together with the "remove" tally, which get_status sums as well          *)
(* (referendum.hpp:162) and stakeobsv moves (referendum.cpp:351), so there  *)
(* it may be met without the votes: see QuorumOfVotes.                      *)
Strength(i, k) ==
  IF refs[i].voting_type = "token" THEN Total(stake, Supporters(i, k))
  ELSE Cardinality(Supporters(i, k))
Turnout(i) == Strength(i, "yes") + Strength(i, "no") + Strength(i, "abstain")
Stray(i) == IF refs[i].voting_type = "token" THEN refs[i].token_votes["remove"] ELSE 0

Backed(i) ==
  /\ refs[i].left > 0
  /\ Turnout(i) > 0
  /\ Turnout(i) + Stray(i) >= config.quorum[refs[i].voting_type][refs[i].type]
  /\ 100 * Strength(i, "yes") >= config.pass[refs[i].type] * Turnout(i)

ExecutedWithSupport ==
  [][\A i \in Ids \ stale : refs'[i].status = "executed" => Backed(i)]_vars

(* The contract can pay back every deposit and holds nothing else: fees     *)
(* leave in the token they were paid in.                                    *)
InToken(t) == [a \in Accounts |-> IF deposits[a].token = t THEN deposits[a].amount ELSE 0]

DepositsCovered == \A t \in Tokens : held[t] = Total(InToken(t), Accounts)

(* What the settings' comment says a quorum is: the sum of the yes, no and  *)
(* abstain votes.                                                           *)
QuorumOfVotes == \A i \in Ids : Sum(VotesOf(refs[i])) = CurrentAll(VotesOf(refs[i]))

=============================================================================
