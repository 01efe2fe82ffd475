# A TLA+ verification of the eosDAC / Alien Worlds contracts

The repository holds the smart contracts that run a DAC (a decentralised
autonomous community) on an EOSIO chain: members hold and stake a token, vote
for candidates, the elected custodians get the permissions of the DAC's
account, and proposals, escrows and referendums spend its funds. This directory
models the contracts in TLA+, model-checks them on small instances with TLC and
proves theorems about them with TLAPS.

An EOSIO action is one transaction: the handler, the notifications and the
inline actions it sends run one after the other and are undone together when
any `check()` fails. So in every module one TLA+ action is one whole
transaction, its guard is the conjunction of all checks on the way, and what
interleaves are the transactions of different accounts.

## 1. Inventory

| Part | State | Operations | Talks to |
|---|---|---|---|
| Votes and tallies (`daccustodian`: voting, privatehelpers, external_observable_actions, registering) | `votes`, `candidates` (power, voters, running weight*time, average vote time, rank), `total_weight_of_votes`, `total_votes_on_candidates`, `number_active_candidates` | votecust, removecstvte, nominatecane, nominate, withdrawcane, removecand, weightobsv, balanceobsv, stakeobsv | called by `stakevote` and the token contract; reads their tables |
| Vote weights (`stakevote`) | `weights`, `config.time_multiplier` | stakeobsv, balanceobsv, updateconfig; in debug builds clearweights, collectwts | called by the token contract, calls `daccustodian` |
| Token contract (`eosdactokens`) | balances, `members`, `memberterms`, `stakes`, `unstakes`, `staketime`, `stakeconfig` | issue, burn, transfer, memberreg, memberunreg, newmemterms, stake, unstake, staketime, cancel, claimunstkes, stakeconfig | notifies the VOTE_WEIGHT account, or `daccustodian` when there is none |
| Elections (`daccustodian`: newperiod_components, registering, config) | `custodians`, `pendingcusts`, `lastperiodtime`, `pending_period_time`, settings | newperiod, resigncust, setdaogov, setperiodlen, setpenddelay | sets permissions with `updateauth`; `dacdirectory::hdlegovchg` |
| Pay and budget (`daccustodian`: newperiod_components, pay_handling) | `pendingpay`, requested pay, `lastclaimbudgettime` | distributeMeanPay in newperiod, claimpay, rejectcuspay, removecuspay, claimbudget, setpaymax, updatereqpay | transfers from the treasury |
| Repair of tallies (`daccustodian` debug helpers, `debugging/rebuild_vote_weights`) | as votes and tallies, `maintenance_mode`, the script's position | maintenance, resetstate, resetcands, collectvotes in batches | operators' scripts |
| Directory (`dacdirectory`) | the DACs, their accounts by type, their settings, the cache of budget NFTs | regdac, unregdac, regaccount, unregaccount, settitle, regref, setowner, setstatus, hdlegovchg, setsocials, NFT notices | read by all |
| Escrow (`dacescrow`) | `escrows` | transfer notice, init, approve, disapprove, cancel, refund, dispute | used by proposals |
| Worker proposals (`dacproposals`) | `proposals`, `propvotes`, arbiter whitelist | createprop, voteprop, delegatevote, startwork, completework, finalize, cancel, dispute, arbiter's rulings, clearexpprop | escrow, treasury, custodians table |
| Referendums (`referendum`) | `referendums`, `votes`, deposits, settings | propose, vote, updatestatus, exec, cancel, rmvexpired, clean, refund, stakeobsv | token notices, msig |
| Multisig (`msigworlds`) | `proposals`, approvals, invalidations | propose, approve, unapprove, deny, cancel, exec, invalidate | the chain |
| Airdrops (`distribution`) | `districonf`, `distri` lists | regdistri, populate, approve, send, claim, empty | token transfers |
| Left aside | | `safemath` (a test contract), `newperiodctl` (only an authority check), `atomicassets` and `external_contracts` (vendored), the contracts-common submodule (not in the tree: its checked arithmetic and singletons are modelled from their use) | |

Hard behaviours, by where they bite (PROJECT.json lists them line by line):

- *Derived totals.* Every candidate's power and three global totals are kept
  incrementally through votes, stakes, transfers, memberships and nominations;
  an error stays for ever, and a history of repair scripts shows that there
  were some. The weights are read from another contract's table, at a different
  moment than they were added.
- *Stale copies.* The permissions on the chain copy the custodians table;
  the waiting board copies candidates of an earlier moment; the pay refers to a
  setting that may have changed.
- *Two-step protocols with resignations and settings in between*: newperiod;
  proposals with their escrows; multisig approvals with invalidation.
- *Repairs that run over several transactions* while members act, and may stop
  and start again.
- *Clocks*: periods, pending delays, unstake times, expiries, all in whole
  seconds.

## 2. Modules

| Module | Models | Used by |
|---|---|---|
| `Totals` | the total of a function over a finite set | all that count |
| `TotalsTheorems` | lemmas about it | proofs |
| `DacVoting` | votes, tallies, weights, memberships, stakes as votes see them, one DAC | below |
| `DacVotingProofs` | its theorems, and those of its repair | |
| `DacVotingRebuild` | extends `DacVoting` by the repair in transactions and the operators' script | |
| `DacElections` | elections, custodians, permissions, settings of one DAC | below |
| `DacTreasury` | extends `DacElections` by pay, pending pay and the period budget | below |
| `DacTreasuryProofs` | theorems about both | |
| `TokenStakes` | the token contract: supply, balances, stakes, unstakes, stake times | below |
| `TokenStakesProofs` | its theorems | |
| `Settlement` | what an escrow promises, without clocks, tables and callers | `DacEscrow` implements it |
| `DacEscrow` | the escrow contract, one DAC's table | below |
| `DacEscrowProofs` | its theorems | |
| `DacProposals` | worker proposals and their votes, with an instance of `DacEscrow` | |
| `DacProposalsProofs` | its theorems, with an instance of `DacEscrowProofs` | |
| `Referendum` | the referendum contract of one DAC | below |
| `ReferendumProofs` | its theorems | |
| `MsigWorlds` | the multisignature contract, one DAC | below |
| `Distribution` | airdrops | below |
| `DacDirectory` | the directory of DACs | below |
| `Services` | `MsigWorlds` with instances of `Distribution` and `DacDirectory`: three contracts that share no state | |
| `ServicesProofs` | theorems about the three | |
| `MCDacVoting`, `MCDacVotingRebuild`, `MCDacElections`, `MCDacTreasury`, `MCTokenStakes`, `MCDacEscrow`, `MCDacProposals`, `MCReferendum` | instances for TLC | |
| `MCServices` | an instance of `Services`, in which a behaviour takes the steps of one of the three | |

Operators named `Operation_Slip` are variants of an operation with a plausible
slip; no specification uses them. Each property is known to fail when the
operation it guards is replaced by one of them (PROJECT.json, `mutants`).

### DacVoting

One variable per table or setting: `member`, `stake`, `delay` (token contract);
`multiplier`, `weight`, `quorum` (stakevote); `ballot`, `cand`, `tally`,
`nActive`, `maintenance` (daccustodian). The heart is
`AddWeight`, the translation of `updateVoteWeight`: it changes a candidate's
power, its accumulated weight * time and the average, clamps at zero, and its
checks are `Accepts`. `Moved` and `Tallied` are `modifyVoteWeights`;
`ObservedCands`/`ObservedTally` are `weightobsv`. The actions are those of the
members (`MemberReg`, `MemberUnreg`, `NewMemTerms`, `Stake`, `Unstake`,
`StakeTime`, `Transfer`, `Burn`, `Issue`), of candidates (`Nominate`,
`Withdraw`), of voters (`VoteCust`) and of operators (`UpdateConfig`,
`Maintenance`). `StakeObserved` is the notice's whole way: token contract,
stakevote, daccustodian.

Abstractions: amounts are small integers, the stake weight's double arithmetic
is its exact quotient rounded down, names are model values, the rank is left to
the elections. `Stake` also stands for `cancel`, the unstake queue itself is
not here: a stake leaves the vote when the unstake is asked for, and that is
what the votes see; `TokenStakes` has the rest. `StakeWeighted` says which of
the two sources of weight the directory names; a DAC that switches is not
modelled. Nor are changes of the lockup (`setlockasset`, `setlockdelay`) and of
the stake times (`stakeconfig`) while there are candidates: `LockupStake`,
`LockupDelay`, `MinStakeTime` and `MaxStakeTime` are constants of a behaviour.

### DacVotingRebuild

`ResetState`, `ResetCands` and `CollectVotes(from, to)` are the debug actions;
`collectvotes` is a do-while: it replays the row of `from` unseen and stops
before the row of `to`. The operators' script is the other actor: it turns
maintenance on, resets, fetches the voters, replays them batch by batch
(`ReplayBatch`) and turns maintenance off, and may start again at any point of
the window (`Rerun`). Meanwhile the members do all that maintenance lets them.
A vote row stands for its place in `Order`, the accounts in the order of their
names, which is the table's; the script's `sort` is taken to order them alike.
`todo` is the set of places that the script fetched and has not replayed.
What there is to repair is the drift that
the code itself makes, the one of the run `multiplier`.

### DacElections

`standing`, `custodians`, `pending`, the age of the last seating and of the last
election, the settings, and `auth`, the permissions on the DAC's account.
`Prepare` and `Seat` are the two branches of `runnewperiod`, `Resign` is
`removeCustodian`. `AuthAccepted` is what the chain's `updateauth` asks of an
authority (its weights reach the threshold). Two inputs stand for the votes: the
ranking of the candidates that have votes, any injective sequence, as votes
change between any two actions; and the turnout. Three history variables
remember who resigned and whether `setdaogov` came after an election.

Abstractions: the auth thresholds high, mid and low are one (`setdaogov` sets
them alike; the permission `one` has threshold 1, weaker than any); a
custodian's own permission name is left out. The pay of the leaving board is in
`DacTreasury`.

### DacTreasury

`requested`, `custReq` and `pendReq` are the requested pay in the rows of the
candidates and of the two boards; `pendingPay` the table; `payMax`, the budget's
settings and the `treasury`. Each action of `DacElections` is taken together
with what it does here: `Elect` copies the requests into the waiting board's
rows, `SeatAndPay` is `newperiod` as a whole, which pays the board that leaves
(`DistributeMeanPay`) before it seats the next. `ClaimPay`, `DropPay`
(removecuspay, rejectcuspay), `SetPayMax`, `UpdateReqPay` and `ClaimBudget` are
the contract's own. `budgetOpen` and `claimedNow` say all that `claimbudget`'s
comparison of two times in whole seconds can tell.

Abstractions: the settings of the elections do not change here (they do in
`DacElections`); the balances of token contracts other than the one budgets are
in; whether the service account is sent the pay in the receiver's place.

### TokenStakes

`supply`, `issuer`, `locked`, `held` with `rows` (an account may have no row),
`stakes`, `unstakes` by key, `delays` (stake times), `config`, `denied`. The
centre is `get_liquid`: a value (`Liquid`) and what computing it does to the
tables (`GetLiquid`: it erases the released unstakes and perhaps the stake time),
so that every transfer, stake and claimunstkes changes them. Of an unstake's
release time only the seconds still to wait are kept; `NextId` is
`available_primary_key`, so a key may be used again. `loose` is a history
variable: the accounts that burnt tokens, or sent some while staking was
switched off, whose stakes may exceed their balance.

Abstractions: one token; the vote contracts' refusals (they are in `DacVoting`);
members and terms (there too).

### Referendum

`refs`, `votes` and `voters` (an account may have an empty row), `deposits`,
`held`, `config` with `next_id`, the stakes as an input, and the names of
referendums' proposals in `msigworlds`. `StatusOf` is `get_status` and `Vote`
contains the inline `updatestatus`; `StakeObserved` is `stakeobsv`, which moves
the tally of whatever an entry says, "remove" too, and drops the entries on
settled referendums. `Exec` is the handler with what it sends; the actions of a
binding referendum are not sent (`referendum.cpp:306` is a comment). Tallies are
unsigned and wrap (`Word`). `stale` is a history variable: ids that were
executed, or that `clearconfig` let be used again.

Abstractions: a token stands for an extended symbol; pass rates are in percent
instead of hundredths of one; safe arithmetic is from a submodule that is not in
the tree: sums are checked, and the share of no votes at all fails; titles and
actions are left out.

### MsigWorlds

`proposals`, `provided` (the time of each approval), `invals`, `blocked`, the
`board`, and the clock. `Counts` is the comparison in `get_approvals`,
`Authorized` stands for what the chain says of those approvals: enough
custodians in office among them. `NewBoard` is what `daccustodian` does, table
and permission together. `word`, `ready` and `upset` are history variables: what
each account said last, since when these words suffice, and whether the board
or an invalidation came in between.

Abstractions: approvals of the chain's own account (`eosio.code`), which skip
the test for custodians; signatures besides; serial numbers and metadata.

### Distribution

`confs`, `lists` and the contract's one balance `held`. `Pay` is one batch of
`send` or one `claim`. Only `eosio.token`'s notices fund a distribution, so
those of other tokens are never paid and are left out. `promised`, `paid` and
`left` are history variables.

### DacDirectory

`dacs`, `socials`, `caches`, and outside of the contract `holder`, who has each
NFT. An id is a number, and `DacForOwner` finds the smallest, as the index by
owner does. The notices of the NFT contract are `LogMint` and `LogTransfer`; it
sends none for a burn. `mixed` remembers the ids whose cache belongs to no one
owner any more (`setowner`, `unregdac`): nothing files the cache anew, so it is
stale until the NFTs move, and `CacheFollowsOwner` only speaks of the others.

### DacEscrow and Settlement

`escrows`, the balances of the accounts (`funds`) and of the contract (`held`).
`PayReceiver` and `PayArbiter` are the transfer notice with either memo;
`InitEscrow`, `Approve`, `Disapprove`, `Refund`, `Cancel`, `Dispute` the
actions of the same names; `Ruled` is a payment with the arbiter's pay,
`Returned` one without. `stranded` is a history variable: the arbiter pay whose
escrow is gone.

`Settlement` is the abstract specification: a deal between two ends with a
judge, in which a sum that is due leaves once and whole to one of the ends, and
a locked deal pays its judge. The refinement mapping (`Deals`) forgets the
clock; `Tick` is a stutter, `Approve` and `Disapprove` are settlements with a
fee, `Refund` one without, which the settlement allows only while the deal is
not locked.

Abstractions: one token (an escrow may hold two; nothing relates them), and
`left`, the time to the expiry, instead of the expiry.

### DacProposals

`proposals`, `votes` (the `propvotes` rows of a proposal: a vote or a delegate),
`catvotes` (those of a category), the settings, and the four variables of
`DacEscrow`, which it instantiates. `CountVotes` is `count_votes`, with `Pruned`
its removal of former custodians' rows; `Recount` is `updpropvotes`, which every
vote ends with. `StartWork` opens and funds the escrow in the same transaction;
`Finalize`, `DisputeProp`, `ArbApprove`, `ArbDeny` and `CancelWip` contain the
escrow's action. The rest are calls to `dacescrow` that `dacproposals` is not
told of: `SettleAside` (approve, disapprove, cancel, refund) and `DisputeAside`
are those of an escrow's parties, `OpenAside` is `init` and `PayAside` the
transfer notice. `init` asks for the sender's authority and a free key, so an
escrow that `startwork` did not open may lie under a proposal's id, before the
work or after it; as long as it is there, `startwork` and `cancelprop` fail.

Two history variables tell what a proposal can rely on: `aside` are the ids whose
escrow somebody ended in `dacescrow` itself, `own` the ids whose escrow is the
one that `startwork` opened. `WorkFunded` and `CompletedSettled` speak of the
latter: a proposal in work has it unless a party ended it, a completed one has
it no more, whatever else lies under its id. `PaidForWork`
speaks of any escrow under the id, also of one that `startwork` did not open, and
exempts only the very calls that its parties make to `dacescrow` itself.

Boards and memberships change from outside. Left out: the deposits for the
proposal fee, the two white lists, comments.

## 3. Runs

| Run | What it asks | Instance |
|---|---|---|
| `stake` | the tallies and the lockup in a DAC with stakevote | 2 accounts, both vote and stand; stakes 0..2, two stake times, two multipliers, three seconds; 0.8 million states |
| `token` | the tallies in a DAC whose weights are balances | 2 members and the issuer, which is none; balances 0..2, three seconds; 0.3 million states |
| `multiplier` | finding: the quorum total after a raised multiplier | as `stake`, multipliers up to 3 |
| `repair` | the repair after a real drift, interrupted and rerun | 2 accounts, stakes 0..2, multipliers 1..2, batches of 1, two seconds; 0.9 million states |
| `terms` | elections, permissions, terms and their progress | 3 candidates, boards of 2 (threshold 1) or 3 (threshold 2), periods of 1 or 2 seconds, delays up to the period; 0.5 million states |
| `pay` | who is paid, how much and in which row; the budget | 2 candidates for a board of 2, periods of 0 seconds, two maxima with one symbol in two contracts, requests of 1 and 2; 0.4 million states |
| `tokens` | supply, stakes and unstakes, stake times | 2 accounts, of which either may be issuer, 2 tokens, 2 unstakes, staking switched on and off; 0.6 million states |
| `escrow` | solvency, the settlement, and that money comes out again | 2 escrows, 3 accounts in every role, 3 tokens, expiry after a second; 0.1 million states |
| `work` | proposals, votes and delegations with their escrows, and escrows that others open under their ids | 1 proposal id used again and again, 2 custodians of which one may lose its seat and the other delegate to it, either a custodian or an outsider as arbiter, 2 settings, 3 tokens; one other deal that may be opened under the id, paid into by the proposer; 2.0 million states |
| `referendum` | tallies, executions, deposits | 2 voters, stakes 0..1, one of them proposes, 2 tokens, 1 id, deposits up to 2, word 3; 1.1 million states |
| `removed` | finding: removed votes count towards the quorum | as `referendum` |
| `services` | approvals and delays; airdrops; the NFT cache | 2 custodians, 1 proposal, 4 seconds; 2 distributions to 2 receivers, 3 tokens; 2 DACs, 2 owners, 1 NFT; 0.4 million states |

Bounds that the code does not have: `MaxStake`, `MaxBalance`, `MaxMultiplier` and
`MaxTime` (votes), `MaxPay` and `MaxTreasury` (pay), `MaxId` (keys of unstakes, ids of
referendums), `MaxStake`, `MaxDeposit` and `FollowStale` (referendums: whether votes are
followed on ids that the properties no longer speak of), `MaxTime` (multisignatures) and
`Supply` (airdrops). `DacElections` needs none, since ages are capped where no
comparison tells them apart. `Word`, `MaxVotes` and `MaxSupply` are the code's own
limits, made small.

Why these bounds are enough to be interesting: two accounts that both vote and
stand already give every pair of roles (voting for oneself, for another, for
one that withdrew, for both); two units of stake and two stake times make
rounding and a weight delta of zero happen; three seconds separate a first vote
from a later one and from a change of weight. In the elections three candidates
and boards of two make the waiting board differ from the one in office, and the
board of three with threshold two makes resignations stop at the threshold.
With two requests under a maximum that may fall below one of them, every way in
which a custodian counts for the mean pay occurs, and two contracts with one
symbol make the lookup of a row matter. Two tokens and two unstakes are enough
for a token to be staked, on its way and sent by another account, and for a key
to be used again. Two escrows and three tokens are the least in which one escrow
could be paid from the other's money, and so with two distributions. One
proposal id is enough because proposals only share the delegations by category,
the board and the treasury; it is cleared and proposed anew, with another
arbiter, while the old escrow may still be there; the same goes for the ids of
referendums and the names of multisignature proposals. A word of 3 makes an
unsigned tally wrap as soon as one vote is counted twice. Four seconds let an
approval, an invalidation and an execution fall in one second or in different
ones, before and after the delay and the expiry. What the bounds leave out the
theorems cover. Accounts are interchangeable in `stake`, `token`, `multiplier`
and `pay`, custodians in `services`; liveness is checked without symmetry.

The violations are disagreements between the code and its documents or comments,
each quoted in PROJECT.json, `findings`.

Other differences that were met while modelling and that no run repeats:

- *Votes.* `issue` sends no notice of the issuer's new balance
  (`eosdactokens.cpp:52`), so an issuer that votes by balance has a weight that
  is never counted. The written repair procedure shows batches that share their
  end (`vote_weight_rebuild_procedure.md:81`), while `collectvotes` takes the
  first row unseen and stops before the last (`debug.cpp:24`). It asks
  (`:111`) that `total_votes_on_candidates` equal the sum of the candidates'
  power; it counts each voter once, so the two differ as soon as a ballot names
  two candidates.
- *Elections.* `contracts/daccustodian/README.md` says (withdrawcane,
  resigncust) that a replacement is elected for a custodian that resigns; the
  code leaves the gap and says so (`registering.cpp:191`). With a threshold of 1
  the last custodian can resign too, although the comment at
  `registering.cpp:194` expects the permission to stop it
  (`newperiod_components.cpp:189`). The same README speaks of a time lock on the
  stake of a departing custodian; the code locks a stake only while its owner is
  an active candidate.
- *Pay.* With a share of 100 percent `claimbudget` takes the treasury's last
  unit (`newperiod_components.cpp:277`), which the comment below it wants to
  leave; `BudgetLeavesUnit` holds for smaller shares.
- *Escrow.* `cancel` and `refund` return the receiver's pay only, and the
  arbiter's stays in the contract (`dacescrow.cpp:141`, `:166`; compare
  `dacescrow.hpp:131`).
- *Proposals.* Abstentions are always refused (`dacproposals.cpp:108`, `:153`),
  although the header lists them (`dacproposals.hpp:214`).
- *Token.* A stake time that is set before the first stake is dropped by that
  very stake, since `get_liquid` removes the times of accounts with nothing
  staked. `burn` looks at the whole balance, so a stake may exceed it.
- *Referendums.* What `removed` shows has a consequence: `exec` sums a stored
  "remove" tally into the quorum, too (`referendum.hpp:162`), so in a referendum
  by stake it may be met without the votes. `ExecutedWithSupport` says how
  far an execution is supported then. The README says that the actions of a binding referendum are
  executed; the line that sends them is a comment (`referendum.cpp:306`).
- *Multisignatures.* `msigworlds.hpp:192` says that all requested approvals are
  needed, that the transaction is deferred and the proposal's row erased; the
  code asks whether the approvals there are suffice, executes inline and keeps
  the row. The delay does not start anew when the board changes or an approval
  is invalidated, and blocking an action does not stop what is already proposed.
- *Airdrops.* `approve` does not compare the list with the total, so a list that
  exceeds it cannot be sent out completely; `unregdistri` leaves what was not
  sent; `receive` only hears of `eosio.token`.

**Fairness.** Two modules have a liveness property. `DacElections!FairSpec`
assumes that time passes and that, while a board waits and could be seated,
somebody in the end calls `newperiod` when the turnout lets it: anybody may
call it "by design" (`newperiod_components.cpp:319`), nothing in the contracts
does it by itself. What `PendingResolved` then shows is that nothing else stands
in the way: no order of resignations leaves a waiting board below the auth
threshold. `DacEscrow!FairSpec` assumes that time passes, that a sender whose
escrow has expired in the end asks for its refund and that an arbiter in the end
rules: both are calls those accounts have an interest in, the money or the
arbiter's pay being theirs, and no other party has to do anything for
`FundsReleased`. In the other modules nothing must happen: every action is some
account's free choice, so no fairness is assumed and no liveness is stated.
Deadlock is
checked in every run but `services`, where it is switched off because an
approved distribution that nobody can fund any more, with the supply of the
instance spent, really stops.

## 4. Theorems

For every value of the constants that meets the module's assumption:

| Theorem | Says | Argument |
|---|---|---|
| `DacVotingProofs!TypeCorrect` | tables stay well formed, no unsigned tally goes below zero | the checks of `Accepts` bound each new power, accumulator and voter count |
| `PowerCorrect`, `AgeCorrect`, `VotesTotalCorrect`, `CoverCorrect` | power, voters, average vote time and the votes total are those of the ballots; what a ballot brought can always be taken back | one inductive invariant, `Exact`: every candidate's three numbers and the votes total are sums over ballots, and every ballot names rows that exist. From it follows that the clamp at zero and the tolerance never bite, which is what makes the next step exact again. Holds under `StakeWeighted \/ Issuer \notin Joiners`: an issuer's balance changes without a notice |
| `QuorumTotalCorrect` | the weight that counts for the quorum is that of the accounts that vote | `Quorate`: `Exact`, and the two weights of an account are zero together (`Weighed`), as a weight grows strictly with the stake (`StakeWeightGrows`); so a ballot enters and leaves both totals at once. Same assumption; `QuorumTotalIsSum` says nothing any more once the multiplier was changed |
| `ActiveCountCorrect`, `ActiveStakeCorrect` | the count of active candidates (no run repeats it); an active candidate keeps membership, stake and stake time | inductive invariant `Active`: nothing lowers a stake or a stake time of an active candidate |
| `RebuildCorrect` | after the last batch the tallies are those of the ballots, whatever had drifted, and whatever members did meanwhile | `Repair`: from the resets on, the tallies are exact for the ballots of those that are not `todo` any more (`TalliesExact`, `Partial`), and where the script stands nothing before is left to do (`Window`). One row replayed adds its voter's ballot, by the lemmas on a vote that is cast (`ReplayedExact`); a batch is a recursive function over the places, which exists and keeps that because the smallest place that broke it could not (`ReplayUpTo`, `BatchExact`). In the window members write no ballot and no weight of an account that cast one (`SameData`). Accounts without a candidate's row have no votes at all times (`Rowless`), which is why `resetcands` may skip them. Holds under `StakeWeighted \/ Issuer \notin Joiners` |
| `WindowFreezesCorrect` | in a DAC with stakevote no ballot and no weight changes under maintenance | from the same invariant, one case for each action. Without stakevote `issue` still credits the issuer |
| `DacTreasuryProofs!TypeCorrect` | well-formed boards; a delay never exceeds the period | the two setters check against each other |
| `AuthorityCorrect` | those in office hold the permissions and are enough | inductive by itself |
| `ResignedCorrect` | who resigned does not come back | needs that it is not a candidate either, as elections draw from those (`OutOfAll`) |
| `TermsCorrect` | nobody comes into office early | the two ages run together while a board waits (`Elapsed`) |
| `SeatableCorrect` | a waiting board can be seated | `Sizes`: whoever leaves the waiting board leaves the one in office too, which `updateauth` keeps at the threshold, and the waiting board is never smaller; `BoardStrong` and `PendingStrong` hold it for the time since `setdaogov` |
| `TreasuryElects` | elections with money are elections, so the five theorems above hold under `TreasurySpec` too | each step of `TreasuryNext` contains one of `Next` or leaves its variables alone |
| `OneRowCorrect`, `PaidForServiceCorrect` | an account has one row of pending pay in a token; only the leaving board is paid, at most the maximum | `Kept`: who is elected or in office has a request. Each row after the pay is an old one of somebody else, a raised one or one made where there was none (`RowPaid`), so an account's row stays the only one and grows by the mean; the mean is at most the maximum, as requests above it count in the divisor only (`MeanWithinMaximum`) |
| `BudgetCorrect` | `claimbudget` leaves a unit | a share below one hundred percent is, rounded down, less than the balance (`ShareBelow`) |
| `DacEscrowProofs!TypeCorrect`, `SolventCorrect` | escrows stay well formed; the contract holds what they promise | each needs the other (`Books`): a payment is covered because the balance is the sum of the promises, and only a well-formed row can be paid. Every operation but the clock replaces one row, and `BooksStep` says once what must hold of it |
| `SettlementCorrect` | `DacEscrow` implements `Settlement` | each operation is a step of it (`AgreeStep`, ..., `DropStep`), the clock a stutter, under `TypeOK` |
| `DacProposalsProofs!TypesAndBooks` | proposals stay well formed, and the escrow contract that they drive holds what its escrows promise (no run repeats it) | every step of `DacProposals` takes one of the escrow's operations or none, so the lemmas of `DacEscrowProofs` hold of its instance |
| `EachCountsOnceCorrect` | a custodian counts once, by itself or through its delegate | no invariant but the types: `CountVotes` maps each counted custodian to the one whose row decides, and the sizes of the fibres of that map add up to the number of custodians mapped (`TotalsTheorems!TotalFibres`) |
| `WorkFundedCorrect`, `DisputeLockedCorrect`, `CompletedSettledCorrect` | the escrow of a proposal in work is the one `startwork` opened, a disputed one is locked, a completed proposal has none left, whoever opens escrows under its id | `Kept`: what the state of a proposal says of the escrow under its id (`Fits`), unless a party went past `dacproposals` (`aside`), and whether it is the proposal's own (`own`); an escrow opened aside never takes the place of one that is there; an operation on one id leaves the others alone |
| `PaidForWorkCorrect` | `dacproposals` pays a proposer for approved work or by an arbiter's word only, from whatever escrow lies under the id | `Kept` and `EachCountsOnce`: `Finalize` counts the approvals of the moment, a refund gives nobody but the sender anything; other payments are calls to `dacescrow` itself (`EscrowCall`) |
| `TokenStakesProofs!TypeCorrect`, `SupplyCorrect` | tables stay well formed; the tokens in all balances are the supply | `Books`: every step moves between two balances or changes supply and one balance alike |
| `BackedCorrect` | a stake and what can still be cancelled are within the balance | `Backed`: what is on its way to an account is a sum over its rows of `unstakes`; `GetLiquid` erases released rows only and leaves the waiting ones, and the key of a new row is free (`NextIdFree`, by a least number), so the sum changes by that row alone |
| `LockupCorrect` | a stake time does not shrink; tokens become liquid by coming in or by waiting only | from the same invariants, one case for each operation: what leaves the stake enters the queue |
| `ReferendumProofs!DepositsCorrect` | the contract holds what its depositors can claim | `Banked`: each operation replaces one deposit and moves the balance of its token alike (`DepositBanked`); a fee leaves in the token of the deposit |
| `TallyCorrect`, `SupportCorrect` | tallies are the stakes and accounts of the votes; an execution has somebody voting, the share of yes votes and the quorum that `get_status` saw in the tallies; the quorum by stake is that of the votes and of the "remove" tally together (`Stray`), by accounts that of the votes alone, since no account is ever counted as "remove" | `Kept`: an id not given yet has no votes, an expired referendum stays expired, and the tallies of an open one are those sums; the votes that cleaning or a notice drops are on settled ones. Holds under `Fits` (all stakes together below the wrap, as the token's supply guarantees) and for ids that are not `stale` |
| `ServicesProofs!ClockedCorrect`, `LastWordCorrect` | nothing was approved in the future (no run repeats it); an execution rests on last words | `Words`: an approval that is newer than its giver's last invalidation is the giver's last word on that very proposal. Needs that no time lies in the future, or an old invalidation could outlive a new approval |
| `DelayCorrect` | approvals sufficed for the whole delay, unless the board changed or someone invalidated | `Delayed`: the earliest time is set exactly while approvals suffice, and is the moment they began to plus the delay. Holds under `Threshold > 0`: with 0 approvals suffice before there are any |
| `PaidAsApprovedCorrect`, `PayableCorrect` | a receiver gets what was approved, once; the contract holds what came in and was not sent, and can pay what a funded list still promises | `Banked`: a row of `districonf` with its list is `Sound` (paid and listed make up what was approved, nothing is sent before all is received), and the balance is the sum over the rows with what unregistered ones left. An operation replaces one row and moves the balance alike (`OneMoved`); a batch of `send` is the first rows of the list, whatever their number (`PayBanked`) |
| `CacheCorrect` | a cached NFT is that of the DAC's owner, or burnt | `Filed`: two DACs of one owner are both `mixed`, so outside `mixed` the one that `dac_for_owner` finds, the smallest id of an owner (`SmallestFound`), is the only one that can have the NFT cached |

`TotalsTheorems` proves, from facts about cardinalities and so without
induction, what the total of a function does when one argument changes or the
set gains or loses a member, and that a total over a subset is no larger. Sums
are defined without recursion for its sake.

Only model-checked:

- liveness (`PendingResolved`, `FundsReleased`), which is out of the prover's
  reach, as is `ENABLED`;
- the two statements of the documentation that the code does not keep.

Every other property of the runs is stated by a theorem.

## 5. What is left

Not modelled:

- `DacVoting` and `DacElections` composed: the product of their states is out of
  reach. The elections take any ranking and any turnout, so what they show holds
  for those the votes make.
- A directory that switches the source of vote weights while votes are cast.
- Changes of the lockup (`setlockasset`, `setlockdelay`) and of the stake times
  (`stakeconfig`) beside candidates that nominated under the old ones: they are
  constants in `DacVoting`. `TokenStakes` has `stakeconfig` itself.
- `newperiodctl`, an authority check without state, and `safemath`, a test
  contract.
- `atomicassets` and `external_contracts`: vendored, used by the directory's
  notices only. The contracts-common submodule is not in the tree.
- Helpers of development and debug builds other than the repair's: migrations,
  `updateconfige`, `appointcust`, `clearweights`, `collectwts`, `clearcands`,
  `clearcusts`.
- Profiles, white lists, comments and candidates' own permissions, on which no
  property depends.
