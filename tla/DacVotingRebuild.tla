--------------------------- MODULE DacVotingRebuild ---------------------------
(***************************************************************************)
(* The repair of the vote tallies on a live contract: the DEBUG helpers of *)
(* daccustodian (resetstate, resetcands, collectvotes) driven in batches by*)
(* the operators' script, while the members go on doing all that the       *)
(* maintenance mode lets them do.                                          *)
(*                                                                         *)
(* collectvotes walks the votes table in the order of the voters' names    *)
(* from the first row not before `from`, which it always replays, up to and*)
(* without the row of `to`. The script passes the first voter of the next  *)
(* batch as `to`.                                                          *)
(***************************************************************************)
EXTENDS DacVoting, Sequences

CONSTANTS
  Order,        \* Accounts in the order of their names, as votes are kept
  BatchSize     \* voters per call of collectvotes

ASSUME RebuildAssumption ==
  /\ Order \in Seq(Accounts)
  /\ \A a \in Accounts : \E i \in DOMAIN Order : Order[i] = a
  /\ \A i, j \in DOMAIN Order : Order[i] = Order[j] => i = j
  /\ BatchSize \in Nat \ {0}

VARIABLES
  step,         \* where the operators are: "live", "maintenance",
                \* "stateReset", "candsReset", "replay" or "rebuilt"
  todo          \* where the voters stand they fetched and have not replayed

rebuildVars == <<vars, step, todo>>

(* A vote row by its voter's place in Order; no row is at EndOfTable.       *)
Places == 1 .. Len(Order)
Rows == {i \in Places : ballot[Order[i]].row}
EndOfTable == 0

-----------------------------------------------------------------------------
(* The helpers *)

Tallies == [cand |-> cand, tally |-> tally, accepted |-> TRUE]

(* One vote row again: update_number_of_votes, then modifyVoteWeights.      *)
Replayed(t, v) ==
  LET b == ballot[v]
      counted == [c \in Accounts |-> Counted(t.cand[c], c, {}, b.cands)]
  IN  [cand |-> [c \in Accounts |->
                   Moved(counted[c], c, weight[v], {}, 0, b.cands, b.ts)],
       tally |-> Tallied(t.tally, weight[v], quorum[v], {}, b.cands),
       accepted |-> t.accepted
                    /\ MoveAllowed(counted, weight[v], {}, 0, b.cands, b.ts)]

RowsFrom(from) == {i \in Rows : i >= from}

(* The do-while of collectvotes: the first row is replayed unseen, the next *)
(* ones until `to` comes up, or to the end of the table.                    *)
Batch(from, to) ==
  LET rows == RowsFrom(from)
      stops == to \in rows /\ \E i \in rows : i < to
  IN  {i \in rows : stops => i < to}

(* The tallies after the rows of a batch, one after the other.              *)
Replay(batch) ==
  LET upTo[i \in 0 .. Len(Order)] ==
        IF i = 0 THEN Tallies
        ELSE IF i \in batch THEN Replayed(upTo[i - 1], Order[i])
        ELSE upTo[i - 1]
  IN  upTo[Len(Order)]

ResetState ==
  /\ maintenance
  /\ tally' = [weight |-> 0, votes |-> 0]
  /\ UNCHANGED <<now, tokenVars, weightVars, ballot, cand, nActive, maintenance>>

ResetCands_ActiveOnly ==
  /\ maintenance
  /\ cand' = [c \in Accounts |->
                IF cand[c].active
                THEN [cand[c] EXCEPT !.power = 0, !.voters = 0, !.rwt = 0, !.avg = 0]
                ELSE cand[c]]
  /\ UNCHANGED <<now, tokenVars, weightVars, ballot, tally, nActive, maintenance>>

ResetCands ==
  /\ maintenance
  /\ cand' = [c \in Accounts |->
                IF cand[c].row
                THEN [cand[c] EXCEPT !.power = 0, !.voters = 0, !.rwt = 0, !.avg = 0]
                ELSE cand[c]]
  /\ UNCHANGED <<now, tokenVars, weightVars, ballot, tally, nActive, maintenance>>

CollectVotes(from, to) ==
  /\ maintenance
  /\ RowsFrom(from) # {}
  /\ Replay(Batch(from, to)).accepted
  /\ cand' = Replay(Batch(from, to)).cand
  /\ tally' = Replay(Batch(from, to)).tally
  /\ UNCHANGED <<now, tokenVars, weightVars, ballot, nActive, maintenance>>

-----------------------------------------------------------------------------
(* The procedure *)

StartMaintenance ==
  /\ step = "live"
  /\ Maintenance(TRUE)
  /\ step' = "maintenance"
  /\ UNCHANGED todo

StepResetState ==
  /\ step = "maintenance"
  /\ ResetState
  /\ step' = "stateReset"
  /\ UNCHANGED todo

StepResetCands ==
  /\ step = "stateReset"
  /\ ResetCands
  /\ step' = "candsReset"
  /\ UNCHANGED todo

(* The voters are fetched once, after the resets; the script skips a DAC    *)
(* that has none.                                                           *)
FetchVoters ==
  /\ step = "candsReset"
  /\ todo' = Rows
  /\ step' = IF todo' = {} THEN "rebuilt" ELSE "replay"
  /\ UNCHANGED vars

(* How many of the fetched voters come before one. *)
Index(i) == Cardinality({j \in todo : j < i})

(* The next BatchSize voters, up to the first one after them if there is one.*)
ReplayBatch ==
  \E from \in todo, to \in todo \cup {EndOfTable} :
    /\ step = "replay"
    /\ Index(from) = 0
    /\ IF to = EndOfTable THEN Cardinality(todo) <= BatchSize
                          ELSE Index(to) = BatchSize
    /\ CollectVotes(from, to)
    /\ todo' = {i \in todo : to # EndOfTable /\ i >= to}
    /\ step' = IF todo' = {} THEN "rebuilt" ELSE "replay"

(* "You can safely rerun Reset and Replay": at any moment of the window.    *)
Rerun ==
  /\ step \in {"stateReset", "candsReset", "replay", "rebuilt"}
  /\ step' = "maintenance"
  /\ todo' = {}
  /\ UNCHANGED vars

EndMaintenance ==
  /\ step = "rebuilt"
  /\ Maintenance(FALSE)
  /\ step' = "live"
  /\ UNCHANGED todo

RebuildInit == Init /\ step = "live" /\ todo = {}

Operators ==
  \/ StartMaintenance \/ StepResetState \/ StepResetCands \/ FetchVoters
  \/ ReplayBatch \/ Rerun \/ EndMaintenance

RebuildNext == (UserNext /\ UNCHANGED <<step, todo>>) \/ Operators

RebuildSpec == RebuildInit /\ [][RebuildNext]_rebuildVars

-----------------------------------------------------------------------------
(* Properties *)

(* When every batch is replayed, all tallies are those of the ballots,      *)
(* whatever had drifted before (resetstate, resetcands, collectvotes in     *)
(* half-open batches), and whatever candidates enrolled, withdrew or        *)
(* unregistered meanwhile.                                                  *)
RebuildExact ==
  step = "rebuilt" =>
    /\ PowerIsSum
    /\ AgeIsSum
    /\ VotesTotalIsSum
    /\ QuorumTotalAlwaysIsSum

(* The ballots and weights that the replay reads hold still in the window:  *)
(* votecust and weightobsv refuse, and nothing else writes them in a DAC    *)
(* with stakevote (without it, issue still credits the issuer).             *)
WindowFreezes ==
  [][maintenance => UNCHANGED <<ballot, weight, quorum>>]_rebuildVars

=============================================================================
