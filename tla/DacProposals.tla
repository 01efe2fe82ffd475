---------------------------- MODULE DacProposals ----------------------------
(***************************************************************************)
(* Worker proposals (dacproposals) and the escrows (dacescrow) that        *)
(* startwork funds for them: the custodians vote a proposal in, vote its   *)
(* completion, or leave it to an arbiter.  Accounts also call dacescrow    *)
(* themselves, which dacproposals is not told of: the parties of an escrow *)
(* end or lock it, and anyone may open and fund one under the id of a      *)
(* proposal as long as there is none.                                      *)
(*                                                                         *)
(* Who is a custodian and who a member of the DAC changes from outside     *)
(* (DacElections, DacVoting).  Left out: deposits for the proposal fee,    *)
(* the white lists (Proposers and Arbiters are on them) and comments.      *)
(*                                                                         *)
(* Operators named Operation_Slip are variants that no step uses.          *)
(***************************************************************************)
EXTENDS Totals

CONSTANTS
  Ids, Accounts, Nobody, Wealth,
  Treasury,    \* the DAC's PROP_FUNDS_SOURCE account
  Proposers, Arbiters,
  Jobs,        \* what is proposed: pay, arbiter's pay, duration, category
  Delegatees,  \* the accounts that votes are delegated to
  Boards,      \* the custodians that DacElections seats
  Leavers,     \* the accounts that leave and rejoin the DAC
  OtherDeals,  \* the parties of escrows that are opened in dacescrow itself
  Payers,      \* the accounts that pay into escrows there
  Configs,     \* thresholds and times that updateconfig sets
  OldAge       \* no config asks for a longer min_proposal_duration

Categories == {j.category : j \in Jobs}

(* What a row of propvotes may say of itself; otherwise it names the        *)
(* account that the vote is delegated to.                                   *)
VoteTypes == {"none", "propapprove", "propdeny", "finalapprove", "finaldeny"}

ASSUME ProposalsAssumption ==
  /\ IsFiniteSet(Ids) /\ IsFiniteSet(Accounts)
  /\ Nobody \notin Accounts /\ VoteTypes \cap Accounts = {}
  /\ Wealth \in [Accounts -> Nat]
  /\ Treasury \in Accounts
  /\ Proposers \subseteq Accounts /\ Arbiters \subseteq Accounts
  /\ Delegatees \subseteq Accounts /\ Leavers \subseteq Accounts
  /\ Payers \subseteq Accounts
  /\ OtherDeals \subseteq [sender : Accounts, receiver : Accounts, arb : Accounts]
  /\ Boards \subseteq SUBSET Accounts /\ Boards # {}
  /\ \A j \in Jobs : /\ j.pay \in Nat \ {0} /\ j.arbiter_pay \in Nat
                     /\ j.duration \in Nat
  /\ OldAge \in Nat /\ Configs # {}
  /\ Configs \subseteq
       [proposal_threshold : Nat, finalize_threshold : Nat,
        approval_duration : Nat, min_proposal_duration : 0 .. OldAge]

VARIABLES
  escrows, funds, held, stranded,  \* DacEscrow's
  own,         \* history: ids whose escrow is the one that startwork opened
  proposals,   \* the proposals table
  votes,       \* the propvotes rows of each proposal
  catvotes,    \* the propvotes rows of each category
  custodians, members, config,
  aside        \* history: escrows that ended without dacproposals' doing

escrowVars == <<escrows, funds, held, stranded, own>>
dacVars == <<custodians, members, config>>
vars == <<escrowVars, proposals, votes, catvotes, dacVars, aside>>

(* An escrow outlasts the work that it pays for by as much again. *)
Terms == {2 * j.duration : j \in Jobs}

Escrow == INSTANCE DacEscrow WITH Keys <- Ids, Lifetimes <- Terms

-----------------------------------------------------------------------------
Approving == {"pendingappr", "apprvtes"}
Finalizing == {"pendingfin", "apprfinvtes"}
Working == {"inprogress"} \cup Finalizing
States == Approving \cup Working
            \cup {"none", "expired", "indispute", "completed", "blocked"}

NoJob == [pay |-> 0, arbiter_pay |-> 0, duration |-> 0, category |-> Nobody]

(* left is the time to the expiry, age the time since created_at. *)
NoProposal ==
  [state |-> "none", proposer |-> Nobody, arbiter |-> Nobody,
   arbiter_agreed |-> FALSE, job |-> NoJob, left |-> 0, age |-> 0]

NoVotes == [c \in Accounts |-> "none"]

(* What an ending of an escrow leaves of those that startwork opened. *)
StillOwn == own' = {k \in own : escrows'[k].row}

Exists(id) == proposals[id].state # "none"
IsProposer(id) == proposals[id].proposer \in members
SetState(id, state) == proposals' = [proposals EXCEPT ![id].state = state]
Older(age) == IF age < OldAge THEN age + 1 ELSE age

-----------------------------------------------------------------------------
(* count_votes, on the rows b of a proposal: a custodian that approves      *)
(* counts once for itself, once for each custodian that delegated this      *)
(* proposal to it and once for each that delegated the category and said    *)
(* nothing on this proposal.                                                *)

Voted(b) == {c \in custodians : b[c] # "none"}

CategoryDelegators_All(b, category, a) ==
  {c \in custodians : catvotes[category][c] = a}

CategoryDelegators(b, category, a) ==
  {c \in custodians \ Voted(b) : catvotes[category][c] = a}

Weight(b, category, a) ==
  1 + Cardinality({c \in custodians : b[c] = a})
    + Cardinality(CategoryDelegators(b, category, a))

CountVotes(b, category, vote) ==
  LET approvers == {c \in custodians : b[c] = vote}
  IN  Total([a \in approvers |-> Weight(b, category, a)], approvers)

(* Counting removes the rows of who is no custodian any more. *)
Pruned(b) == [c \in Accounts |-> IF c \in custodians THEN b[c] ELSE "none"]

(* updpropvotes: the state says what the count was at the last vote. *)
Recount(id, b) ==
  LET p == proposals[id]
      approved == CountVotes(b, p.job.category, "propapprove")
      finalized == CountVotes(b, p.job.category, "finalapprove")
  IN
  \/ /\ p.state \in Approving /\ p.left = 0
     /\ SetState(id, "expired")
     /\ votes' = [votes EXCEPT ![id] = b]
  \/ /\ p.state \in Approving /\ p.left > 0
     /\ SetState(id, IF approved >= config.proposal_threshold
                     THEN "apprvtes" ELSE "pendingappr")
     /\ votes' = [votes EXCEPT ![id] = Pruned(b)]
  \/ /\ p.state \in Finalizing
     /\ SetState(id, IF finalized >= config.finalize_threshold
                     THEN "apprfinvtes" ELSE "pendingfin")
     /\ votes' = [votes EXCEPT ![id] = Pruned(b)]

-----------------------------------------------------------------------------
Init ==
  /\ Escrow!Init
  /\ own = {}
  /\ proposals = [id \in Ids |-> NoProposal]
  /\ votes = [id \in Ids |-> NoVotes]
  /\ catvotes = [t \in Categories |-> [c \in Accounts |-> Nobody]]
  /\ custodians \in Boards
  /\ members = Accounts
  /\ config \in Configs
  /\ aside = {}

Tick ==
  /\ Escrow!Tick
  /\ proposals' =
       [id \in Ids |->
          IF Exists(id)
          THEN [proposals[id] EXCEPT !.left = Escrow!Sooner(@), !.age = Older(@)]
          ELSE NoProposal]
  /\ UNCHANGED <<own, votes, catvotes, dacVars, aside>>

(* Elections and memberships *)

NewBoard(board) ==
  /\ custodians' = board
  /\ UNCHANGED <<escrowVars, proposals, votes, catvotes, members, config, aside>>

LeaveOrJoin(a) ==
  /\ members' = (members \ {a}) \cup ({a} \ members)
  /\ UNCHANGED <<escrowVars, proposals, votes, catvotes, custodians, config, aside>>

UpdateConfig(new) ==
  /\ config' = new
  /\ UNCHANGED <<escrowVars, proposals, votes, catvotes, custodians, members, aside>>

-----------------------------------------------------------------------------
(* Before the work *)

CreateProp(id, w, a, job) ==
  /\ ~Exists(id)
  /\ w \in members /\ w # a
  /\ proposals' = [proposals EXCEPT ![id] =
       [state |-> "pendingappr", proposer |-> w, arbiter |-> a,
        arbiter_agreed |-> FALSE, job |-> job,
        left |-> config.approval_duration, age |-> 0]]
  /\ UNCHANGED <<escrowVars, votes, catvotes, dacVars, aside>>

ArbAgree(id) ==
  /\ proposals[id].state \in Approving
  /\ proposals' = [proposals EXCEPT ![id].arbiter_agreed = TRUE]
  /\ UNCHANGED <<escrowVars, votes, catvotes, dacVars, aside>>

-----------------------------------------------------------------------------
(* Votes.  voteprop and votepropfin each translate a public vote, an        *)
(* abstention to the empty name.                                            *)

PropVote(vote) ==
  CASE vote = "approve" -> "propapprove"
    [] vote = "deny" -> "propdeny"
    [] vote = "abstain" -> ""

FinalVote(vote) ==
  CASE vote = "approve" -> "finalapprove"
    [] vote = "deny" -> "finaldeny"
    [] vote = "abstain" -> ""

(* _voteprop *)
CastVote(c, id, vote) ==
  /\ c \in custodians \cap members
  /\ \/ /\ proposals[id].state \in Approving /\ proposals[id].left > 0
        /\ vote \in {"propapprove", "propdeny"}
     \/ /\ proposals[id].state \in Finalizing
        /\ vote \in {"finalapprove", "finaldeny"}
  /\ Recount(id, [votes[id] EXCEPT ![c] = vote])
  /\ UNCHANGED <<escrowVars, catvotes, dacVars, aside>>

VoteProp(c, id, vote) == CastVote(c, id, PropVote(vote))

VotePropFin(c, id, vote) == CastVote(c, id, FinalVote(vote))

DelegateVote(c, id, to) ==
  /\ c \in custodians \cap members /\ c # to
  /\ proposals[id].left > 0
  /\ Recount(id, [votes[id] EXCEPT ![c] = to])
  /\ UNCHANGED <<escrowVars, catvotes, dacVars, aside>>

UpdPropVotes(id) ==
  /\ Recount(id, votes[id])
  /\ UNCHANGED <<escrowVars, catvotes, dacVars, aside>>

DelegateCat(c, category, to) ==
  /\ c \in custodians \cap members /\ c # to
  /\ catvotes' = [catvotes EXCEPT ![category][c] = to]
  /\ UNCHANGED <<escrowVars, proposals, votes, dacVars, aside>>

UndelegateCat(c, category) ==
  /\ catvotes[category][c] # Nobody
  /\ catvotes' = [catvotes EXCEPT ![category][c] = Nobody]
  /\ UNCHANGED <<escrowVars, proposals, votes, dacVars, aside>>

-----------------------------------------------------------------------------
(* The work *)

Enough(id, vote, threshold) ==
  CountVotes(votes[id], proposals[id].job.category, vote) >= threshold

PaidEscrow(receiver, arbiter, job) ==
  [row |-> TRUE, sender |-> Treasury, receiver |-> receiver, arb |-> arbiter,
   receiver_pay |-> job.pay, arbiter_pay |-> job.arbiter_pay,
   left |-> 2 * job.duration, disputed |-> FALSE]

EscrowFor_Swapped(p) == PaidEscrow(p.arbiter, p.proposer, p.job)

EscrowFor(p) == PaidEscrow(p.proposer, p.arbiter, p.job)

(* startwork: one transaction opens the escrow and pays both sums into it;  *)
(* init asks for an unused key and a later expiry, the token for positive   *)
(* sums that the treasury owns.                                             *)
StartWork(id) ==
  LET p == proposals[id] IN
  /\ p.state \in Approving /\ p.left > 0
  /\ IsProposer(id) /\ p.arbiter_agreed
  /\ Enough(id, "propapprove", config.proposal_threshold)
  /\ ~escrows[id].row /\ p.job.duration > 0
  /\ Treasury # p.arbiter
  /\ p.job.arbiter_pay > 0
  /\ funds[Treasury] >= p.job.pay + p.job.arbiter_pay
  /\ escrows' = [escrows EXCEPT ![id] = EscrowFor(p)]
  /\ funds' = [funds EXCEPT ![Treasury] = @ - p.job.pay - p.job.arbiter_pay]
  /\ held' = held + p.job.pay + p.job.arbiter_pay
  /\ own' = own \cup {id}
  /\ SetState(id, "inprogress")
  /\ votes' = [votes EXCEPT ![id] = Pruned(votes[id])]
  /\ aside' = aside \ {id}
  /\ UNCHANGED <<stranded, catvotes, dacVars>>

CompleteWork(id) ==
  /\ proposals[id].state = "inprogress"
  /\ IsProposer(id)
  /\ SetState(id, "pendingfin")
  /\ UNCHANGED <<escrowVars, votes, catvotes, dacVars, aside>>

Finalize_TrustsState(id) ==
  /\ proposals[id].state = "apprfinvtes"
  /\ proposals[id].age >= config.min_proposal_duration
  /\ Escrow!Approve(id, Treasury)
  /\ StillOwn
  /\ SetState(id, "completed")
  /\ votes' = [votes EXCEPT ![id] = Pruned(votes[id])]
  /\ UNCHANGED <<catvotes, dacVars, aside>>

(* finalize, by anybody: counts again, whatever the state says. *)
Finalize(id) ==
  /\ proposals[id].state \in Finalizing
  /\ proposals[id].age >= config.min_proposal_duration
  /\ Enough(id, "finalapprove", config.finalize_threshold)
  /\ Escrow!Approve(id, Treasury)
  /\ StillOwn
  /\ SetState(id, "completed")
  /\ votes' = [votes EXCEPT ![id] = Pruned(votes[id])]
  /\ UNCHANGED <<catvotes, dacVars, aside>>

-----------------------------------------------------------------------------
(* Disputes: the escrow is locked with the proposal. *)

DisputeProp_Unlocked(id) ==
  /\ proposals[id].state \in Finalizing
  /\ IsProposer(id)
  /\ Escrow!Funded(id)
  /\ SetState(id, "indispute")
  /\ UNCHANGED <<escrowVars, votes, catvotes, dacVars, aside>>

DisputeProp(id) ==
  /\ proposals[id].state \in Finalizing
  /\ IsProposer(id)
  /\ Escrow!Dispute(id, escrows[id].receiver)
  /\ SetState(id, "indispute")
  /\ UNCHANGED <<own, votes, catvotes, dacVars, aside>>

ArbiterRules(id) ==
  /\ proposals[id].state = "indispute"
  /\ escrows[id].disputed
  /\ SetState(id, "completed")
  /\ UNCHANGED <<votes, catvotes, dacVars, aside>>

ArbApprove(id) ==
  /\ ArbiterRules(id)
  /\ Escrow!Approve(id, proposals[id].arbiter)
  /\ StillOwn

ArbDeny_KeepsEscrow(id) ==
  /\ ArbiterRules(id)
  /\ UNCHANGED escrowVars

ArbDeny(id) ==
  /\ ArbiterRules(id)
  /\ Escrow!Disapprove(id, proposals[id].arbiter)
  /\ StillOwn

-----------------------------------------------------------------------------
(* The ways out.  clearprop removes the votes with the proposal. *)

Cleared(id) ==
  /\ proposals' = [proposals EXCEPT ![id] = NoProposal]
  /\ votes' = [votes EXCEPT ![id] = NoVotes]
  /\ UNCHANGED <<catvotes, dacVars, aside>>

CancelProp(id) ==
  /\ proposals[id].state \in Approving
  /\ ~escrows[id].row
  /\ IsProposer(id)
  /\ Cleared(id)
  /\ UNCHANGED escrowVars

(* cancelwip calls refund with the escrow contract's own authority, so it   *)
(* need not wait for the expiry.                                            *)
CancelWip(id) ==
  /\ proposals[id].state \in Working
  /\ IsProposer(id)
  /\ Escrow!Funded(id) /\ ~escrows[id].disputed
  /\ Escrow!Returned(id)
  /\ StillOwn
  /\ Cleared(id)

(* clearexpprop, by anybody: the expiry only matters if there is an escrow. *)
ClearExpProp(id) ==
  /\ Exists(id)
  /\ escrows[id].row => proposals[id].left = 0
  /\ Cleared(id)
  /\ UNCHANGED escrowVars

RmvCompleted(id) ==
  /\ proposals[id].state = "completed"
  /\ Cleared(id)
  /\ UNCHANGED escrowVars

(* blockprop, by the contract's own account. *)
BlockProp(id) ==
  /\ Exists(id)
  /\ SetState(id, "blocked")
  /\ UNCHANGED <<escrowVars, votes, catvotes, dacVars, aside>>

-----------------------------------------------------------------------------
(* What accounts do in dacescrow: its parties to the escrow that lies under *)
(* the id, whoever opened it, and anyone where there is none.               *)

SettleAside(id, caller) ==
  /\ \/ Escrow!Approve(id, caller) \/ Escrow!Disapprove(id, caller)
     \/ Escrow!Refund(id, caller) \/ Escrow!Cancel(id, caller)
  /\ StillOwn
  /\ aside' = aside \cup {id}
  /\ UNCHANGED <<proposals, votes, catvotes, dacVars>>

DisputeAside(id, caller) ==
  /\ Escrow!Dispute(id, caller)
  /\ UNCHANGED <<own, proposals, votes, catvotes, dacVars, aside>>

OpenAside(id, deal, left) ==
  /\ Escrow!InitEscrow(id, deal.sender, deal.receiver, deal.arb, left)
  /\ UNCHANGED <<own, proposals, votes, catvotes, dacVars, aside>>

PayAside(id, payer, n) ==
  /\ Escrow!PayReceiver(id, payer, n) \/ Escrow!PayArbiter(id, payer, n)
  /\ UNCHANGED <<own, proposals, votes, catvotes, dacVars, aside>>

-----------------------------------------------------------------------------
Propose ==
  \E id \in Ids, w \in Proposers, a \in Arbiters, job \in Jobs :
    CreateProp(id, w, a, job)

Voting ==
  \E c \in Accounts :
    \/ \E id \in Ids, vote \in {"approve", "deny", "abstain"} :
         VoteProp(c, id, vote) \/ VotePropFin(c, id, vote)
    \/ \E id \in Ids, to \in Delegatees : DelegateVote(c, id, to)
    \/ \E category \in Categories :
         \/ UndelegateCat(c, category)
         \/ \E to \in Delegatees : DelegateCat(c, category, to)

Handling ==
  \E id \in Ids :
    \/ ArbAgree(id) \/ UpdPropVotes(id) \/ StartWork(id) \/ CompleteWork(id)
    \/ Finalize(id) \/ DisputeProp(id) \/ ArbApprove(id) \/ ArbDeny(id)
    \/ CancelProp(id) \/ CancelWip(id) \/ ClearExpProp(id) \/ RmvCompleted(id)
    \/ BlockProp(id)

EscrowCall ==
  \E id \in Ids :
    \/ \E caller \in Accounts : SettleAside(id, caller) \/ DisputeAside(id, caller)
    \/ \E deal \in OtherDeals, left \in Terms : OpenAside(id, deal, left)
    \/ \E payer \in Payers : \E n \in 1 .. funds[payer] : PayAside(id, payer, n)

Next ==
  \/ Tick
  \/ \E board \in Boards : NewBoard(board)
  \/ \E a \in Leavers : LeaveOrJoin(a)
  \/ \E new \in Configs : UpdateConfig(new)
  \/ Propose
  \/ Voting
  \/ Handling
  \/ EscrowCall

Spec == Init /\ [][Next]_vars

-----------------------------------------------------------------------------
(* Properties *)

Proposals ==
  [state : States, proposer : Accounts \cup {Nobody},
   arbiter : Accounts \cup {Nobody}, arbiter_agreed : BOOLEAN,
   job : Jobs \cup {NoJob}, left : Nat, age : 0 .. OldAge]

WellMade(p) ==
  IF p.state = "none"
  THEN p = NoProposal
  ELSE /\ p.proposer \in Accounts /\ p.arbiter \in Accounts
       /\ p.proposer # p.arbiter /\ p.job \in Jobs

TypeOK ==
  /\ Escrow!TypeOK
  /\ proposals \in [Ids -> Proposals]
  /\ \A id \in Ids : WellMade(proposals[id])
  /\ votes \in [Ids -> [Accounts -> VoteTypes \cup Accounts]]
  /\ catvotes \in [Categories -> [Accounts -> Accounts \cup {Nobody}]]
  /\ custodians \in Boards /\ members \subseteq Accounts
  /\ config \in Configs /\ aside \subseteq Ids
  /\ own \subseteq {id \in Ids : escrows[id].row}

(* Each custodian of the moment has one vote, its own, that of who it       *)
(* delegated this proposal to or that of who it delegated the category to,  *)
(* in this order: however votes, delegations and elections follow each      *)
(* other, the count is the number of custodians whose vote is an approval.  *)
Agrees(b, category, vote, c) ==
  IF b[c] = "none"
  THEN \E a \in custodians : catvotes[category][c] = a /\ b[a] = vote
  ELSE b[c] = vote \/ \E a \in custodians : b[c] = a /\ b[a] = vote

Agreeing(id, vote) ==
  {c \in custodians : Agrees(votes[id], proposals[id].job.category, vote, c)}

EachCountsOnce ==
  \A id \in Ids : Exists(id) =>
    \A vote \in {"propapprove", "finalapprove"} :
      CountVotes(votes[id], proposals[id].job.category, vote) =
        Cardinality(Agreeing(id, vote))

(* While work is under way its pay lies in the escrow that startwork opened *)
(* for this proposer and arbiter, unless they or the treasury ended it by   *)
(* themselves; neither that a proposal was cleared and proposed anew under  *)
(* the same id nor that others open escrows there mixes them up.            *)
WorkFunded ==
  \A id \in Ids : proposals[id].state \in Working \cup {"indispute"} =>
    \/ id \in aside
    \/ /\ id \in own
       /\ escrows[id].receiver = proposals[id].proposer
       /\ escrows[id].arb = proposals[id].arbiter
       /\ escrows[id].sender = Treasury
       /\ escrows[id].receiver_pay = proposals[id].job.pay

(* A proposal in dispute has a locked escrow, so only the arbiter decides.  *)
DisputeLocked ==
  \A id \in Ids : proposals[id].state = "indispute" =>
    escrows[id].disputed \/ id \in aside

(* A completed proposal may be removed, "meaning all funds have been        *)
(* distributed" (dacproposals.hpp): the escrow that startwork opened for it *)
(* is over, whatever others may have opened under its id since.             *)
CompletedSettled ==
  \A id \in Ids : proposals[id].state = "completed" => id \notin own

(* A proposer is paid only for work that the custodians of the moment voted *)
(* complete after the minimum duration, or if the arbiter of a dispute says *)
(* so, or by a call that its parties make to dacescrow itself.  This goes   *)
(* for every escrow under the id, also one that startwork did not open.     *)
PaidNow(id) ==
  LET r == escrows[id].receiver
  IN  /\ escrows[id].row /\ ~escrows'[id].row
      /\ r \notin {Treasury, escrows[id].sender} /\ funds'[r] > funds[r]

PaidForWork ==
  [][\A id \in Ids : PaidNow(id) =>
       \/ escrows[id].disputed
       \/ EscrowCall
       \/ /\ Cardinality(Agreeing(id, "finalapprove"))
               >= config.finalize_threshold
          /\ proposals[id].age >= config.min_proposal_duration]_vars

=============================================================================
