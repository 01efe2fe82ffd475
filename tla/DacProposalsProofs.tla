-------------------------- MODULE DacProposalsProofs --------------------------
(***************************************************************************)
(* Theorems about DacProposals, for any number of proposals, custodians    *)
(* and boards, and any votes and delegations.                              *)
(***************************************************************************)
EXTENDS DacProposals, TotalsTheorems

-----------------------------------------------------------------------------
(* The count *)

(* Each custodian's vote is counted where Agrees finds it, and only there:  *)
(* the sum of the weights is the size of a disjoint union.                  *)
LEMMA CountIs ==
  ASSUME ProposalsAssumption, custodians \in Boards,
         NEW b, NEW category, NEW vote \in VoteTypes \ {"none"}
  PROVE  CountVotes(b, category, vote) =
           Cardinality({c \in custodians : Agrees(b, category, vote, c)})
<1> DEFINE A == {c \in custodians : b[c] = vote}
           g == catvotes[category]
           Direct == MappedInto(b, custodians, A)
           Silent == custodians \ Voted(b)
           ByCategory == MappedInto(g, Silent, A)
           ones == [a \in A |-> 1]
           direct == [a \in A |-> Cardinality(FibreOf(b, custodians, a))]
           others == [a \in A |-> Cardinality(FibreOf(g, Silent, a))]
           given == [a \in A |-> direct[a] + others[a]]
           weight == [a \in A |-> Weight(b, category, a)]
<1>1. /\ IsFiniteSet(custodians) /\ custodians \subseteq Accounts
      /\ "none" \notin Accounts /\ vote \notin Accounts /\ vote # "none"
  <2>1. custodians \in SUBSET Accounts /\ IsFiniteSet(Accounts)
    BY DEF ProposalsAssumption
  <2> QED
    BY <2>1, FS_Subset DEF ProposalsAssumption, VoteTypes
<1>2. IsFiniteSet(A) /\ IsFiniteSet(Silent) /\ IsFiniteSet(Direct) /\ IsFiniteSet(ByCategory)
  <2>1. A \in SUBSET custodians /\ Silent \in SUBSET custodians
        /\ Direct \in SUBSET custodians /\ ByCategory \in SUBSET custodians
    BY DEF MappedInto
  <2> QED
    BY <1>1, <2>1, FS_Subset
<1> HIDE DEF A, Silent, g
<1>3. \A a \in A : /\ direct[a] \in Nat /\ others[a] \in Nat /\ ones[a] = 1
                   /\ given[a] = direct[a] + others[a]
  <2> SUFFICES ASSUME NEW a \in A PROVE direct[a] \in Nat /\ others[a] \in Nat
    OBVIOUS
  <2>1. /\ FibreOf(b, custodians, a) \in SUBSET custodians
        /\ FibreOf(g, Silent, a) \in SUBSET Silent
    BY DEF FibreOf
  <2>2. /\ IsFiniteSet(FibreOf(b, custodians, a))
        /\ IsFiniteSet(FibreOf(g, Silent, a))
    BY <1>1, <1>2, <2>1, FS_Subset
  <2> QED
    BY <2>2, FS_CardinalityType
<1>4. \A a \in A : weight[a] = ones[a] + given[a]
  <2> SUFFICES ASSUME NEW a \in A PROVE weight[a] = 1 + (direct[a] + others[a])
    OBVIOUS
  <2>1. /\ CategoryDelegators(b, category, a) = FibreOf(g, Silent, a)
        /\ {c \in custodians : b[c] = a} = FibreOf(b, custodians, a)
    BY DEF CategoryDelegators, Silent, g, FibreOf
  <2>2. weight[a] = 1 + direct[a] + others[a]
    BY <2>1 DEF Weight
  <2> QED
    BY <1>3, <2>2
<1>5. Total(direct, A) = Cardinality(Direct)
  <2>1. \A a \in A : direct[a] = Cardinality(FibreOf(b, custodians, a))
    OBVIOUS
  <2> HIDE DEF direct
  <2> QED
    BY <1>1, <1>2, <2>1, TotalFibres
<1>6. Total(others, A) = Cardinality(ByCategory)
  <2>1. \A a \in A : others[a] = Cardinality(FibreOf(g, Silent, a))
    OBVIOUS
  <2> HIDE DEF others
  <2> QED
    BY <1>2, <2>1, TotalFibres
<1>7. Total(ones, A) = Cardinality(A) * 1
  BY <1>2, TotalConstant
<1> HIDE DEF direct, others, ones, given, weight
<1>8. Total(given, A) = Total(direct, A) + Total(others, A)
  BY <1>2, <1>3, TotalPlus
<1>9. Total(weight, A) = Total(ones, A) + Total(given, A)
  <2>1. \A a \in A : ones[a] \in Nat /\ given[a] \in Nat
    BY <1>3
  <2> QED
    BY <1>2, <1>4, <2>1, TotalPlus
<1>10. CountVotes(b, category, vote) = Total(weight, A)
  BY DEF CountVotes, weight, A
<1>11. /\ Cardinality(A) \in Nat /\ Cardinality(Direct) \in Nat
       /\ Cardinality(ByCategory) \in Nat
  BY <1>2, FS_CardinalityType
<1>12. CountVotes(b, category, vote) =
         Cardinality(A) + Cardinality(Direct) + Cardinality(ByCategory)
  BY <1>5, <1>6, <1>7, <1>8, <1>9, <1>10, <1>11
<1> USE DEF MappedInto
<1>13. /\ A \cap Direct = {}
       /\ (A \cup Direct) \cap ByCategory = {}
       /\ {c \in custodians : Agrees(b, category, vote, c)} = A \cup Direct \cup ByCategory
  <2>1. \A c \in custodians : c \in A <=> b[c] = vote
    BY DEF A
  <2>2. A \subseteq custodians
    BY DEF A
  <2>3. \A c \in A : b[c] \notin A
    BY <1>1, <2>1, <2>2
  <2>4. \A c : c \in Silent <=> c \in custodians /\ b[c] = "none"
    BY DEF Silent, Voted
  <2>5. \A c \in Silent : c \notin A /\ b[c] \notin A
    BY <1>1, <2>1, <2>2, <2>4
  <2>6. \A c \in custodians : Agrees(b, category, vote, c) <=>
          IF b[c] = "none" THEN g[c] \in A ELSE c \in A \/ b[c] \in A
    BY <2>1, <2>2 DEF Agrees, g
  <2>7. \A c \in custodians : Agrees(b, category, vote, c) <=>
          c \in A \/ c \in Direct \/ c \in ByCategory
    <3> SUFFICES ASSUME NEW c \in custodians
                 PROVE  Agrees(b, category, vote, c) <=>
                          c \in A \/ c \in Direct \/ c \in ByCategory
      OBVIOUS
    <3>1. CASE b[c] = "none"
      BY <2>4, <2>5, <2>6, <3>1
    <3>2. CASE b[c] # "none"
      BY <2>4, <2>6, <3>2
    <3> QED
      BY <3>1, <3>2
  <2>8. A \subseteq custodians /\ Direct \subseteq custodians
        /\ ByCategory \subseteq custodians
    BY <2>2, <2>4
  <2>9. {c \in custodians : Agrees(b, category, vote, c)} = A \cup Direct \cup ByCategory
    <3> HIDE DEF Direct, ByCategory
    <3> QED
      BY <2>7, <2>8
  <2>10. A \cap Direct = {}
    BY <2>3
  <2>11. (A \cup Direct) \cap ByCategory = {}
    BY <2>5
  <2> QED
    BY <2>9, <2>10, <2>11
<1> HIDE DEF Direct, ByCategory, MappedInto
<1>14. /\ IsFiniteSet(A \cup Direct)
       /\ Cardinality(A \cup Direct) = Cardinality(A) + Cardinality(Direct)
  <2>1. Cardinality(A \cup Direct) = Cardinality(A) + Cardinality(Direct) - 0
    <3>1. /\ IsFiniteSet(A \cup Direct)
          /\ Cardinality(A \cup Direct) =
               Cardinality(A) + Cardinality(Direct) - Cardinality(A \cap Direct)
      BY <1>2, FS_Union
    <3> QED
      BY <1>13, <3>1, FS_EmptySet
  <2>2. IsFiniteSet(A \cup Direct)
    BY <1>2, FS_Union
  <2> QED
    BY <1>11, <2>1, <2>2
<1>15. Cardinality(A \cup Direct \cup ByCategory) =
         Cardinality(A \cup Direct) + Cardinality(ByCategory) - 0
  <2> DEFINE U == A \cup Direct
  <2>1. IsFiniteSet(U) /\ U \cap ByCategory = {}
    BY <1>13, <1>14
  <2> HIDE DEF U
  <2>2. Cardinality(U \cup ByCategory) =
          Cardinality(U) + Cardinality(ByCategory) - Cardinality(U \cap ByCategory)
    BY <1>2, <2>1, FS_Union
  <2>3. Cardinality(U \cup ByCategory) = Cardinality(U) + Cardinality(ByCategory) - 0
    BY <2>1, <2>2, FS_EmptySet
  <2> QED
    BY <2>3 DEF U
<1> DEFINE All == {c \in custodians : Agrees(b, category, vote, c)}
<1>16. All = A \cup Direct \cup ByCategory
  BY <1>13
<1> HIDE DEF All
<1>17. CountVotes(b, category, vote) = Cardinality(All)
  BY <1>11, <1>12, <1>14, <1>15, <1>16
<1> QED
  BY <1>17 DEF All

LEMMA Counted ==
  ASSUME ProposalsAssumption, custodians \in Boards, NEW id \in Ids,
         NEW vote \in VoteTypes \ {"none"}
  PROVE  CountVotes(votes[id], proposals[id].job.category, vote) =
           Cardinality(Agreeing(id, vote))
  BY CountIs DEF Agreeing

-----------------------------------------------------------------------------
(* The escrows: the theorems about DacEscrow hold of the part of it that    *)
(* dacproposals drives.                                                     *)

E == INSTANCE DacEscrowProofs WITH Keys <- Ids, Lifetimes <- Terms

Books == Escrow!TypeOK /\ Escrow!Solvent

LEMMA EscrowAssumed ==
  ASSUME ProposalsAssumption
  PROVE  /\ E!IsFiniteSet(Ids) /\ E!IsFiniteSet(Accounts)
         /\ Nobody \notin Accounts /\ Wealth \in [Accounts -> Nat]
         /\ Terms \subseteq Nat
<1>1. Terms \subseteq Nat
  BY DEF ProposalsAssumption, Terms
<1> QED
  BY <1>1 DEF ProposalsAssumption, E!IsFiniteSet, IsFiniteSet

LEMMA EscrowRowsAre ==
  /\ Escrow!EscrowRows = E!EscrowRows
  /\ \A e : Escrow!WellFormed(e) <=> E!WellFormed(e)
  BY DEF Escrow!EscrowRows, E!EscrowRows, Escrow!WellFormed, E!WellFormed,
         E!NoEscrow, Escrow!NoEscrow

LEMMA BooksAre ==
  /\ Books <=> E!TypeOK /\ E!Solvent
  /\ Books' <=> (E!TypeOK)' /\ (E!Solvent)'
<1>1. Escrow!TypeOK <=> E!TypeOK
  BY EscrowRowsAre DEF E!TypeOK, Escrow!TypeOK
<1>2. Escrow!Solvent <=> E!Solvent
  BY DEF Escrow!Solvent, E!Solvent, Escrow!Total, E!Total, Escrow!Units, E!Units,
         Escrow!Copies, E!Copies, Escrow!Promised, E!Promised, Escrow!Owed, E!Owed,
         Escrow!Cardinality, E!Cardinality
<1>3. Books <=> E!TypeOK /\ E!Solvent
  BY <1>1, <1>2 DEF Books
<1> QED
  BY <1>3, PTL

(* What an operation of the escrow contract does to its books. *)
LEMMA BooksMove ==
  ASSUME ProposalsAssumption, Books, NEW id \in Ids, NEW e \in Escrow!EscrowRows,
         Escrow!WellFormed(e), escrows' = [escrows EXCEPT ![id] = e],
         funds' \in [Accounts -> Nat], stranded' \in Nat,
         held' = held - Escrow!Owed(escrows[id]) + Escrow!Owed(e) + (stranded' - stranded)
  PROVE  Books'
<1>1. /\ E!TypeOK /\ E!Solvent /\ e \in E!EscrowRows /\ E!WellFormed(e)
      /\ held' = held - E!Owed(escrows[id]) + E!Owed(e) + (stranded' - stranded)
  BY BooksAre, EscrowRowsAre DEF Escrow!Owed, E!Owed
<1>2. (E!TypeOK)' /\ (E!Solvent)'
  BY <1>1, EscrowAssumed, E!BooksStep DEF E!BooksStep
<1> QED
  BY <1>2, BooksAre

LEMMA BooksStay ==
  ASSUME Books, UNCHANGED escrowVars
  PROVE  Books'
<1>1. escrows' = escrows /\ funds' = funds /\ held' = held /\ stranded' = stranded
  BY DEF escrowVars
<1> QED
  BY <1>1 DEF Books, Escrow!TypeOK, Escrow!Solvent, Escrow!Promised, Escrow!WellFormed

LEMMA BooksTick ==
  ASSUME ProposalsAssumption, Books, Escrow!Tick
  PROVE  Books'
<1>1. E!TypeOK /\ E!Solvent /\ E!Tick
  BY BooksAre DEF Escrow!Tick, E!Tick, Escrow!Sooner, E!Sooner
<1> QED
  BY <1>1, BooksAre, EscrowAssumed, E!TickBooks DEF E!TickBooks

LEMMA BooksRuled ==
  ASSUME ProposalsAssumption, Books, NEW id \in Ids, NEW winner \in Accounts,
         Escrow!Funded(id), Escrow!Ruled(id, winner)
  PROVE  Books'
<1>1. E!TypeOK /\ E!Solvent /\ E!Funded(id) /\ E!Ruled(id, winner)
  BY BooksAre
  DEF Escrow!Ruled, E!Ruled, Escrow!Funded, E!Funded, Escrow!NoEscrow, E!NoEscrow
<1> QED
  BY <1>1, BooksAre, EscrowAssumed, E!RuledBooks DEF E!RuledBooks

LEMMA BooksReturned ==
  ASSUME ProposalsAssumption, Books, NEW id \in Ids,
         Escrow!Funded(id), Escrow!Returned(id)
  PROVE  Books'
<1>1. E!TypeOK /\ E!Solvent /\ E!Funded(id) /\ E!Returned(id)
  BY BooksAre
  DEF Escrow!Returned, E!Returned, Escrow!Funded, E!Funded,
      Escrow!NoEscrow, E!NoEscrow
<1> QED
  BY <1>1, BooksAre, EscrowAssumed, E!ReturnedBooks DEF E!ReturnedBooks

LEMMA BooksDispute ==
  ASSUME ProposalsAssumption, Books, NEW id \in Ids, NEW caller \in Accounts,
         Escrow!Dispute(id, caller)
  PROVE  Books'
<1>1. E!TypeOK /\ E!Solvent /\ E!Dispute(id, caller)
  BY BooksAre DEF Escrow!Dispute, E!Dispute, Escrow!Funded, E!Funded
<1> QED
  BY <1>1, BooksAre, EscrowAssumed, E!DisputeBooks DEF E!DisputeBooks

LEMMA EscrowRow ==
  ASSUME Books, NEW id \in Ids
  PROVE  /\ escrows[id] \in Escrow!EscrowRows
         /\ escrows[id].receiver_pay \in Nat /\ escrows[id].arbiter_pay \in Nat
         /\ ~escrows[id].row => escrows[id] = Escrow!NoEscrow
         /\ escrows[id].row => /\ escrows[id].sender \in Accounts
                               /\ escrows[id].receiver \in Accounts
                               /\ escrows[id].arb \in Accounts
                               /\ escrows[id].arb # escrows[id].receiver
         /\ Escrow!Funded(id) => escrows[id].row
<1>1. escrows[id] \in Escrow!EscrowRows /\ Escrow!WellFormed(escrows[id])
  BY DEF Books, Escrow!TypeOK
<1>2. escrows[id].receiver_pay \in Nat /\ escrows[id].arbiter_pay \in Nat
  BY <1>1 DEF Escrow!EscrowRows
<1>3. ~escrows[id].row => escrows[id].receiver_pay = 0
  BY <1>1 DEF Escrow!WellFormed, Escrow!NoEscrow
<1> QED
  BY <1>1, <1>2, <1>3 DEF Escrow!WellFormed, Escrow!Funded

-----------------------------------------------------------------------------
(* The invariant: the rows are well typed, the escrows' books are in order, *)
(* each proposal's state fits the escrow of its id, and an escrow that      *)
(* startwork opened is there as long as it is called its own.               *)

VoteTables == [Ids -> [Accounts -> VoteTypes \cup Accounts]]

Fits(id, p, e, out, mine) ==
  /\ p.state \in Working \cup {"indispute"} =>
       \/ id \in out
       \/ /\ id \in mine
          /\ e.receiver = p.proposer /\ e.arb = p.arbiter /\ e.sender = Treasury
          /\ e.receiver_pay = p.job.pay
  /\ p.state = "indispute" => e.disputed \/ id \in out
  /\ p.state = "completed" => id \notin mine
  /\ id \in mine => e.row

Kept ==
  /\ TypeOK /\ Escrow!Solvent
  /\ \A id \in Ids : Fits(id, proposals[id], escrows[id], aside, own)

LEMMA KeptBooks == Kept => Books
  BY DEF Kept, TypeOK, Books

LEMMA KeptRow ==
  ASSUME Kept, NEW id \in Ids
  PROVE  /\ proposals[id] \in Proposals /\ WellMade(proposals[id])
         /\ Fits(id, proposals[id], escrows[id], aside, own)
         /\ votes[id] \in [Accounts -> VoteTypes \cup Accounts]
  BY DEF Kept, TypeOK

(* A step that handles one proposal and its escrow. *)
LEMMA OneProposal ==
  ASSUME Kept, Books', NEW id \in Ids, NEW p \in Proposals, WellMade(p),
         proposals' = [proposals EXCEPT ![id] = p],
         Fits(id, p, escrows'[id], aside', own'),
         \A k \in Ids \ {id} : escrows'[k] = escrows[k]
                             /\ (k \in aside' <=> k \in aside)
                             /\ (k \in own' <=> k \in own),
         votes' \in VoteTables, aside' \subseteq Ids, own' \subseteq Ids,
         UNCHANGED <<catvotes, dacVars>>
  PROVE  Kept'
<1>1. \A k \in Ids : proposals'[k] = IF k = id THEN p ELSE proposals[k]
  BY DEF Kept, TypeOK
<1>2. ASSUME NEW k \in Ids
      PROVE  /\ proposals'[k] \in Proposals /\ WellMade(proposals'[k])
             /\ Fits(k, proposals'[k], escrows'[k], aside', own')
  <2>1. CASE k = id
    BY <1>1, <2>1
  <2>2. CASE k # id
    BY <1>1, <2>2, KeptRow DEF Fits
  <2> QED
    BY <2>1, <2>2
<1>3. proposals' \in [Ids -> Proposals]
  BY <1>2 DEF Kept, TypeOK
<1>4. \A k \in Ids : WellMade(proposals'[k])
  BY <1>2
<1>5. own' \subseteq {k \in Ids : escrows'[k].row}
  BY <1>2 DEF Fits
<1>6. TypeOK'
  BY <1>3, <1>4, <1>5 DEF TypeOK, Kept, Books, VoteTables, dacVars, WellMade
<1>7. (\A k \in Ids : Fits(k, proposals[k], escrows[k], aside, own))'
  BY <1>2 DEF Fits
<1> QED
  BY <1>6, <1>7 DEF Kept, Books

(* A new state for a proposal: the rest of the row stays. *)
LEMMA StateRow ==
  ASSUME Kept, NEW id \in Ids, proposals[id].state # "none",
         NEW state \in States \ {"none"}, SetState(id, state)
  PROVE  LET p == [proposals[id] EXCEPT !.state = state]
         IN  /\ p \in Proposals /\ WellMade(p) /\ p.state = state
             /\ p.proposer = proposals[id].proposer
             /\ p.arbiter = proposals[id].arbiter /\ p.job = proposals[id].job
             /\ proposals' = [proposals EXCEPT ![id] = p]
<1> DEFINE r == proposals[id]
           p == [r EXCEPT !.state = state]
<1>1. r \in Proposals /\ WellMade(r) /\ r.state # "none"
  BY KeptRow
<1>2. proposals' = [proposals EXCEPT ![id] = p]
  BY DEF SetState, Kept, TypeOK
<1> HIDE DEF r
<1>3. /\ p.proposer = r.proposer /\ p.arbiter = r.arbiter /\ p.job = r.job
      /\ p.state = state
  BY <1>1 DEF Proposals
<1>4. p \in Proposals
  BY <1>1 DEF Proposals
<1>5. WellMade(p)
  BY <1>1, <1>3 DEF WellMade
<1> QED
  BY <1>2, <1>3, <1>4, <1>5 DEF r

(* Nothing but proposals and votes: the escrow of the proposal stays, so    *)
(* that a state of the same kind fits it.                                   *)
LEMMA StateOnly ==
  ASSUME Kept, NEW id \in Ids, proposals[id].state # "none",
         NEW state \in States \ {"none"}, SetState(id, state),
         state \in Working => proposals[id].state \in Working,
         state \notin {"indispute", "completed"},
         votes' \in VoteTables, UNCHANGED <<escrowVars, catvotes, dacVars, aside>>
  PROVE  Kept'
<1> DEFINE p == [proposals[id] EXCEPT !.state = state]
<1>1. /\ p \in Proposals /\ WellMade(p) /\ p.state = state
      /\ p.proposer = proposals[id].proposer
      /\ p.arbiter = proposals[id].arbiter /\ p.job = proposals[id].job
      /\ proposals' = [proposals EXCEPT ![id] = p]
  BY StateRow
<1> HIDE DEF p
<1>2. escrows' = escrows /\ aside' = aside /\ own' = own /\ Books'
  BY KeptBooks, BooksStay DEF escrowVars
<1>3. Fits(id, p, escrows'[id], aside', own')
  BY <1>1, <1>2, KeptRow DEF Fits
<1>4. aside' \subseteq Ids /\ own' \subseteq Ids
  BY <1>2 DEF Kept, TypeOK
<1> QED
  BY <1>1, <1>2, <1>3, <1>4, OneProposal

LEMMA PrunedType ==
  ASSUME NEW b \in [Accounts -> VoteTypes \cup Accounts]
  PROVE  Pruned(b) \in [Accounts -> VoteTypes \cup Accounts]
  BY DEF Pruned, VoteTypes

LEMMA VotesType ==
  ASSUME Kept, NEW id \in Ids, NEW b \in [Accounts -> VoteTypes \cup Accounts]
  PROVE  /\ [votes EXCEPT ![id] = b] \in VoteTables
         /\ [votes EXCEPT ![id] = Pruned(b)] \in VoteTables
<1>1. votes \in VoteTables
  BY DEF Kept, TypeOK, VoteTables
<1> QED
  BY <1>1, PrunedType DEF VoteTables

LEMMA RecountKept ==
  ASSUME Kept, NEW id \in Ids, NEW b \in [Accounts -> VoteTypes \cup Accounts],
         Recount(id, b), UNCHANGED <<escrowVars, catvotes, dacVars, aside>>
  PROVE  Kept'
<1>1. CASE /\ proposals[id].state \in Approving
           /\ SetState(id, "expired") /\ votes' = [votes EXCEPT ![id] = b]
  BY <1>1, StateOnly, VotesType DEF Approving, Working, Finalizing, States
<1>2. CASE /\ proposals[id].state \in Approving
           /\ SetState(id, "apprvtes") \/ SetState(id, "pendingappr")
           /\ votes' = [votes EXCEPT ![id] = Pruned(b)]
  BY <1>2, StateOnly, VotesType DEF Approving, Working, Finalizing, States
<1>3. CASE /\ proposals[id].state \in Finalizing
           /\ SetState(id, "apprfinvtes") \/ SetState(id, "pendingfin")
           /\ votes' = [votes EXCEPT ![id] = Pruned(b)]
  BY <1>3, StateOnly, VotesType DEF Approving, Working, Finalizing, States
<1> QED
  BY <1>1, <1>2, <1>3 DEF Recount

-----------------------------------------------------------------------------
(* Each operation keeps the invariant. *)

LEMMA TickKept == ASSUME ProposalsAssumption, Kept, Tick PROVE Kept'
<1>1. Books' /\ Escrow!Tick
  BY KeptBooks, BooksTick DEF Tick
<1>2. ASSUME NEW k \in Ids
      PROVE  /\ proposals'[k] \in Proposals /\ WellMade(proposals'[k])
             /\ Fits(k, proposals'[k], escrows'[k], aside', own')
  <2> DEFINE r == proposals[k]
             e == escrows[k]
             f == [e EXCEPT !.left = Escrow!Sooner(e.left)]
  <2>1. /\ r \in Proposals /\ WellMade(r) /\ Fits(k, r, e, aside, own)
        /\ e \in Escrow!EscrowRows
    BY KeptRow, KeptBooks, EscrowRow
  <2>2. escrows'[k] = f /\ aside' = aside /\ own' = own
    BY <1>1 DEF Tick, Escrow!Tick
  <2>3. CASE r.state = "none"
    <3>1. proposals'[k] = NoProposal
      BY <2>3 DEF Tick, Exists
    <3>2. r = NoProposal
      BY <2>1, <2>3 DEF WellMade
    <3>3. f.row = e.row
      BY <2>1, Zenon DEF Escrow!EscrowRows
    <3> QED
      BY <2>1, <2>2, <3>1, <3>2, <3>3 DEF Fits, WellMade, NoProposal, Working, Finalizing
  <2>4. CASE r.state # "none"
    <3> DEFINE q == [r EXCEPT !.left = Escrow!Sooner(r.left), !.age = Older(r.age)]
    <3>1. proposals'[k] = q
      BY <2>4 DEF Tick, Exists
    <3>2. Escrow!Sooner(r.left) \in Nat /\ Older(r.age) \in 0 .. OldAge
      BY <2>1 DEF Proposals, Escrow!Sooner, Older, ProposalsAssumption
    <3> HIDE DEF r, e
    <3>3. q \in Proposals /\ q.state = r.state /\ q.proposer = r.proposer
          /\ q.arbiter = r.arbiter /\ q.job = r.job
      BY <2>1, <3>2 DEF Proposals
    <3>4. WellMade(q)
      BY <2>1, <2>4, <3>3 DEF WellMade
    <3>5. f.receiver = e.receiver /\ f.arb = e.arb /\ f.sender = e.sender
          /\ f.receiver_pay = e.receiver_pay
      BY <2>1 DEF Escrow!EscrowRows
    <3>6. f.disputed = e.disputed /\ f.row = e.row
      BY <2>1, Zenon DEF Escrow!EscrowRows
    <3> HIDE DEF q, f
    <3>7. Fits(k, q, f, aside, own)
      BY <2>1, <3>3, <3>5, <3>6 DEF Fits
    <3> QED
      BY <2>2, <3>1, <3>3, <3>4, <3>7 DEF f
  <2> QED
    BY <2>3, <2>4
<1>3. proposals' \in [Ids -> Proposals]
  BY <1>2 DEF Tick
<1>4. own' \subseteq {k \in Ids : escrows'[k].row}
  BY <1>2 DEF Fits, Tick, Kept, TypeOK
<1>5. TypeOK'
  BY <1>1, <1>2, <1>3, <1>4 DEF TypeOK, Kept, Books, Tick, dacVars, WellMade
<1>6. (\A k \in Ids : Fits(k, proposals[k], escrows[k], aside, own))'
  BY <1>2 DEF Fits
<1> QED
  BY <1>1, <1>5, <1>6 DEF Kept, Books

(* What happens outside the proposals. *)
LEMMA OutsideKept ==
  ASSUME Kept, UNCHANGED <<escrowVars, proposals, votes, aside>>,
         catvotes' \in [Categories -> [Accounts -> Accounts \cup {Nobody}]],
         custodians' \in Boards, members' \subseteq Accounts, config' \in Configs
  PROVE  Kept'
<1>1. Books'
  BY KeptBooks, BooksStay
<1>2. escrows' = escrows /\ own' = own
  BY DEF escrowVars
<1> QED
  BY <1>1, <1>2 DEF Kept, TypeOK, Books, Fits, WellMade

LEMMA CreatePropKept ==
  ASSUME ProposalsAssumption, Kept, NEW id \in Ids, NEW w \in Proposers,
         NEW a \in Arbiters, NEW job \in Jobs, CreateProp(id, w, a, job)
  PROVE  Kept'
<1> DEFINE p == [state |-> "pendingappr", proposer |-> w, arbiter |-> a,
                 arbiter_agreed |-> FALSE, job |-> job,
                 left |-> config.approval_duration, age |-> 0]
<1>1. config.approval_duration \in Nat /\ w \in Accounts /\ a \in Accounts /\ w # a
  BY DEF Kept, TypeOK, ProposalsAssumption, CreateProp
<1>2. proposals' = [proposals EXCEPT ![id] = p]
  BY DEF CreateProp
<1>3. p \in Proposals /\ WellMade(p)
  BY <1>1 DEF Proposals, WellMade, States, Approving, ProposalsAssumption
<1>4. Fits(id, p, escrows'[id], aside', own')
  <2>1. id \in own' => escrows'[id].row
    BY DEF CreateProp, escrowVars, Kept, TypeOK
  <2> QED
    BY <2>1 DEF Fits, Working, Finalizing
<1> HIDE DEF p
<1>5. /\ escrows' = escrows /\ aside' = aside /\ own' = own
      /\ votes' \in VoteTables /\ aside' \subseteq Ids /\ own' \subseteq Ids
      /\ Books' /\ UNCHANGED <<catvotes, dacVars>>
  BY KeptBooks, BooksStay DEF CreateProp, escrowVars, Kept, TypeOK, VoteTables
<1> QED
  BY <1>2, <1>3, <1>4, <1>5, OneProposal

LEMMA ArbAgreeKept ==
  ASSUME Kept, NEW id \in Ids, ArbAgree(id)
  PROVE  Kept'
<1> DEFINE r == proposals[id]
           p == [r EXCEPT !.arbiter_agreed = TRUE]
<1>1. r \in Proposals /\ WellMade(r) /\ r.state \in Approving
  BY KeptRow DEF ArbAgree
<1>2. proposals' = [proposals EXCEPT ![id] = p]
  BY DEF ArbAgree, Kept, TypeOK
<1> HIDE DEF r
<1>3. /\ p \in Proposals /\ p.state = r.state /\ p.proposer = r.proposer
      /\ p.arbiter = r.arbiter /\ p.job = r.job
  BY <1>1 DEF Proposals
<1>4. WellMade(p)
  BY <1>1, <1>3 DEF WellMade, Approving
<1>5. Fits(id, p, escrows'[id], aside', own')
  <2>1. id \in own' => escrows'[id].row
    BY DEF ArbAgree, escrowVars, Kept, TypeOK
  <2> QED
    BY <1>1, <1>3, <2>1 DEF Fits, Approving, Working, Finalizing
<1>6. /\ escrows' = escrows /\ aside' = aside /\ own' = own
      /\ votes' \in VoteTables /\ aside' \subseteq Ids /\ own' \subseteq Ids
      /\ Books' /\ UNCHANGED <<catvotes, dacVars>>
  BY KeptBooks, BooksStay DEF ArbAgree, escrowVars, Kept, TypeOK, VoteTables
<1> HIDE DEF p
<1> QED
  BY <1>2, <1>3, <1>4, <1>5, <1>6, OneProposal

LEMMA CastVoteKept ==
  ASSUME Kept, NEW c \in Accounts, NEW id \in Ids, NEW vote, CastVote(c, id, vote)
  PROVE  Kept'
<1>1. vote \in VoteTypes
  BY DEF CastVote, VoteTypes
<1>2. [votes[id] EXCEPT ![c] = vote] \in [Accounts -> VoteTypes \cup Accounts]
  BY <1>1, KeptRow
<1> QED
  BY <1>2, RecountKept DEF CastVote

LEMMA DelegateVoteKept ==
  ASSUME Kept, NEW c \in Accounts, NEW id \in Ids, NEW to \in Accounts,
         DelegateVote(c, id, to)
  PROVE  Kept'
<1>1. [votes[id] EXCEPT ![c] = to] \in [Accounts -> VoteTypes \cup Accounts]
  BY KeptRow
<1> QED
  BY <1>1, RecountKept DEF DelegateVote

(* Two delegations of a category change one row. *)
LEMMA CategoryKept ==
  ASSUME Kept, NEW c \in Accounts, NEW category \in Categories,
         NEW to \in Accounts \cup {Nobody},
         catvotes' = [catvotes EXCEPT ![category][c] = to],
         UNCHANGED <<escrowVars, proposals, votes, dacVars, aside>>
  PROVE  Kept'
<1>1. catvotes \in [Categories -> [Accounts -> Accounts \cup {Nobody}]]
  BY DEF Kept, TypeOK
<1>2. catvotes' = [catvotes EXCEPT ![category] = [catvotes[category] EXCEPT ![c] = to]]
  BY <1>1
<1>3. [catvotes[category] EXCEPT ![c] = to] \in [Accounts -> Accounts \cup {Nobody}]
  BY <1>1
<1>4. catvotes' \in [Categories -> [Accounts -> Accounts \cup {Nobody}]]
  BY <1>1, <1>2, <1>3
<1> QED
  BY <1>4, OutsideKept DEF Kept, TypeOK, dacVars

LEMMA StartWorkKept ==
  ASSUME ProposalsAssumption, Kept, NEW id \in Ids, StartWork(id)
  PROVE  Kept'
<1> DEFINE r == proposals[id]
           e == EscrowFor(r)
           p == [r EXCEPT !.state = "inprogress"]
           term == 2 * r.job.duration
<1>1. /\ r \in Proposals /\ WellMade(r) /\ r.state \in Approving
      /\ ~escrows[id].row /\ Treasury # r.arbiter
  BY KeptRow DEF StartWork
<1>2. /\ r.proposer \in Accounts /\ r.arbiter \in Accounts /\ r.job \in Jobs
      /\ r.proposer # r.arbiter
  BY <1>1 DEF WellMade, Approving
<1>3. /\ r.job.pay \in Nat \ {0} /\ r.job.arbiter_pay \in Nat
      /\ r.job.duration \in Nat /\ Treasury \in Accounts
  BY <1>2 DEF ProposalsAssumption
<1>4. term \in Nat
  BY <1>3
<1>5. e = [row |-> TRUE, sender |-> Treasury, receiver |-> r.proposer,
           arb |-> r.arbiter, receiver_pay |-> r.job.pay,
           arbiter_pay |-> r.job.arbiter_pay, left |-> term, disputed |-> FALSE]
  BY DEF EscrowFor, PaidEscrow
<1>6. escrows' = [escrows EXCEPT ![id] = e]
  BY DEF StartWork
<1>7. /\ p \in Proposals /\ WellMade(p) /\ p.state = "inprogress"
      /\ p.proposer = r.proposer /\ p.arbiter = r.arbiter /\ p.job = r.job
      /\ proposals' = [proposals EXCEPT ![id] = p]
  BY StateRow DEF StartWork, Approving, States, Working
<1>8. /\ funds' = [funds EXCEPT ![Treasury] = @ - r.job.pay - r.job.arbiter_pay]
      /\ held' = held + r.job.pay + r.job.arbiter_pay /\ stranded' = stranded
      /\ funds[Treasury] >= r.job.pay + r.job.arbiter_pay
  BY DEF StartWork
<1> HIDE DEF r, e, p, term
<1>9. e \in Escrow!EscrowRows /\ Escrow!WellFormed(e)
  BY <1>1, <1>2, <1>3, <1>4, <1>5 DEF Escrow!EscrowRows, Escrow!WellFormed
<1>10. /\ Escrow!Owed(e) = r.job.pay + r.job.arbiter_pay
       /\ Escrow!Owed(escrows[id]) = 0
  <2>1. escrows[id] = Escrow!NoEscrow
    BY <1>1, KeptBooks, EscrowRow
  <2> QED
    BY <1>5, <2>1 DEF Escrow!Owed, Escrow!NoEscrow
<1>11. /\ funds \in [Accounts -> Nat] /\ held \in Nat /\ stranded \in Nat
  BY DEF Kept, TypeOK, Escrow!TypeOK
<1>12. funds' \in [Accounts -> Nat]
  <2>1. funds[Treasury] \in Nat
    BY <1>3, <1>11
  <2>2. funds[Treasury] - r.job.pay - r.job.arbiter_pay \in Nat
    BY <1>3, <1>8, <2>1
  <2> QED
    BY <1>8, <1>11, <2>2
<1>13. held' = held - Escrow!Owed(escrows[id]) + Escrow!Owed(e) + (stranded' - stranded)
  BY <1>3, <1>8, <1>10, <1>11
<1>14. Books'
  BY <1>6, <1>8, <1>9, <1>11, <1>12, <1>13, KeptBooks, BooksMove
<1>15. escrows'[id] = e /\ \A k \in Ids \ {id} : escrows'[k] = escrows[k]
  BY <1>6 DEF Kept, TypeOK, Escrow!TypeOK
<1>16. Fits(id, p, escrows'[id], aside', own')
  <2>1. id \in own'
    BY DEF StartWork
  <2>2. e.row
    BY <1>5
  <2>3. /\ e.receiver = p.proposer /\ e.arb = p.arbiter /\ e.sender = Treasury
        /\ e.receiver_pay = p.job.pay
    BY <1>5, <1>7
  <2> QED
    BY <1>7, <1>15, <2>1, <2>2, <2>3 DEF Fits
<1>17. /\ aside' = aside \ {id} /\ own' = own \cup {id}
       /\ UNCHANGED <<catvotes, dacVars>>
       /\ votes' = [votes EXCEPT ![id] = Pruned(votes[id])]
  BY DEF StartWork
<1>18. votes' \in VoteTables /\ aside' \subseteq Ids /\ own' \subseteq Ids
  BY <1>17, KeptRow, VotesType DEF Kept, TypeOK
<1> QED
  BY <1>7, <1>14, <1>15, <1>16, <1>17, <1>18, OneProposal

(* The rows after an ending of the escrow of a proposal. *)
LEMMA EndedRows ==
  ASSUME Kept, NEW id \in Ids, escrows' = [escrows EXCEPT ![id] = Escrow!NoEscrow],
         StillOwn
  PROVE  /\ ~escrows'[id].row /\ id \notin own' /\ own' \subseteq Ids
         /\ \A k \in Ids \ {id} : escrows'[k] = escrows[k] /\ (k \in own' <=> k \in own)
<1>1. ~escrows'[id].row /\ \A k \in Ids \ {id} : escrows'[k] = escrows[k]
  BY DEF Kept, TypeOK, Escrow!TypeOK, Escrow!NoEscrow
<1>2. own \subseteq {k \in Ids : escrows[k].row} /\ own' = {k \in own : escrows'[k].row}
  BY DEF Kept, TypeOK, StillOwn
<1> QED
  BY <1>1, <1>2

(* Completing a proposal ends its escrow. *)
LEMMA CompletedKept ==
  ASSUME ProposalsAssumption, Kept, NEW id \in Ids, proposals[id].state # "none",
         SetState(id, "completed"), NEW winner \in Accounts,
         Escrow!Funded(id), Escrow!Ruled(id, winner), StillOwn,
         votes' \in VoteTables, UNCHANGED <<catvotes, dacVars, aside>>
  PROVE  Kept'
<1> DEFINE p == [proposals[id] EXCEPT !.state = "completed"]
<1>1. /\ p \in Proposals /\ WellMade(p) /\ p.state = "completed"
      /\ proposals' = [proposals EXCEPT ![id] = p]
  BY StateRow DEF States
<1> HIDE DEF p
<1>2. Books'
  BY KeptBooks, BooksRuled
<1>3. /\ ~escrows'[id].row /\ id \notin own' /\ own' \subseteq Ids
      /\ \A k \in Ids \ {id} : escrows'[k] = escrows[k] /\ (k \in own' <=> k \in own)
  BY EndedRows DEF Escrow!Ruled
<1>4. Fits(id, p, escrows'[id], aside', own')
  BY <1>1, <1>3 DEF Fits, Working, Finalizing
<1>5. aside' = aside /\ aside' \subseteq Ids
  BY DEF Kept, TypeOK
<1> QED
  BY <1>1, <1>2, <1>3, <1>4, <1>5, OneProposal

LEMMA FundedParties ==
  ASSUME Kept, NEW id \in Ids, Escrow!Funded(id)
  PROVE  /\ escrows[id].row /\ escrows[id].sender \in Accounts
         /\ escrows[id].receiver \in Accounts /\ escrows[id].arb \in Accounts
  BY KeptBooks, EscrowRow

LEMMA FinalizeKept ==
  ASSUME ProposalsAssumption, Kept, NEW id \in Ids, Finalize(id)
  PROVE  Kept'
<1>1. votes' \in VoteTables
  BY KeptRow, VotesType DEF Finalize
<1>2. /\ Escrow!Funded(id) /\ Escrow!Ruled(id, escrows[id].receiver)
      /\ proposals[id].state # "none"
  BY DEF Finalize, Escrow!Approve, Finalizing
<1> QED
  BY <1>1, <1>2, FundedParties, CompletedKept DEF Finalize

LEMMA ArbiterKept ==
  ASSUME ProposalsAssumption, Kept, NEW id \in Ids, ArbApprove(id) \/ ArbDeny(id)
  PROVE  Kept'
<1>1. /\ proposals[id].state # "none" /\ SetState(id, "completed")
      /\ votes' \in VoteTables /\ UNCHANGED <<catvotes, dacVars, aside>>
  BY DEF ArbApprove, ArbDeny, ArbiterRules, Kept, TypeOK, VoteTables
<1>2. CASE ArbApprove(id)
  BY <1>1, <1>2, FundedParties, CompletedKept DEF ArbApprove, Escrow!Approve
<1>3. CASE ArbDeny(id)
  BY <1>1, <1>3, FundedParties, CompletedKept DEF ArbDeny, Escrow!Disapprove
<1> QED
  BY <1>2, <1>3

(* A dispute locks the row and changes nothing else of it. *)
LEMMA DisputedRows ==
  ASSUME Kept, NEW id \in Ids, NEW caller, Escrow!Dispute(id, caller)
  PROVE  /\ escrows'[id].disputed
         /\ escrows'[id].row = escrows[id].row
         /\ escrows'[id].sender = escrows[id].sender
         /\ escrows'[id].receiver = escrows[id].receiver
         /\ escrows'[id].arb = escrows[id].arb
         /\ escrows'[id].receiver_pay = escrows[id].receiver_pay
         /\ \A k \in Ids \ {id} : escrows'[k] = escrows[k]
<1> DEFINE e == escrows[id]
           f == [e EXCEPT !.disputed = TRUE]
<1>1. e \in Escrow!EscrowRows
  BY KeptBooks, EscrowRow
<1>2. escrows'[id] = f /\ \A k \in Ids \ {id} : escrows'[k] = escrows[k]
  BY DEF Escrow!Dispute, Kept, TypeOK, Escrow!TypeOK
<1> HIDE DEF e
<1>3. /\ f.sender = e.sender /\ f.receiver = e.receiver /\ f.arb = e.arb
      /\ f.receiver_pay = e.receiver_pay
  BY <1>1 DEF Escrow!EscrowRows
<1>4. f.disputed /\ f.row = e.row
  BY <1>1, Zenon DEF Escrow!EscrowRows
<1> HIDE DEF f
<1> QED
  BY <1>2, <1>3, <1>4 DEF e

LEMMA DisputePropKept ==
  ASSUME ProposalsAssumption, Kept, NEW id \in Ids, DisputeProp(id)
  PROVE  Kept'
<1> DEFINE r == proposals[id]
           p == [r EXCEPT !.state = "indispute"]
<1>1. /\ Escrow!Dispute(id, escrows[id].receiver) /\ r.state \in Finalizing
      /\ Fits(id, r, escrows[id], aside, own)
  BY KeptRow DEF DisputeProp
<1>2. /\ p \in Proposals /\ WellMade(p) /\ p.state = "indispute"
      /\ p.proposer = r.proposer /\ p.arbiter = r.arbiter /\ p.job = r.job
      /\ proposals' = [proposals EXCEPT ![id] = p]
  BY StateRow DEF DisputeProp, Finalizing, States
<1> HIDE DEF p, r
<1>3. Books'
  BY <1>1, KeptBooks, FundedParties, BooksDispute DEF Escrow!Dispute
<1>4. aside' = aside /\ aside' \subseteq Ids /\ votes' \in VoteTables
      /\ own' = own /\ own' \subseteq Ids /\ UNCHANGED <<catvotes, dacVars>>
  BY DEF DisputeProp, Kept, TypeOK, VoteTables
<1>5. Fits(id, p, escrows'[id], aside', own')
  BY <1>1, <1>2, <1>4, DisputedRows DEF Fits, Working
<1>6. \A k \in Ids \ {id} : escrows'[k] = escrows[k]
  BY <1>1, DisputedRows
<1> QED
  BY <1>2, <1>3, <1>4, <1>5, <1>6, OneProposal

(* Clearing a proposal, whatever became of its escrow: nothing is asked of  *)
(* a proposal that is not there.                                            *)
LEMMA ClearedKept ==
  ASSUME Kept, Books', NEW id \in Ids, Cleared(id), own' \subseteq Ids,
         id \in own' => escrows'[id].row,
         \A k \in Ids \ {id} : escrows'[k] = escrows[k] /\ (k \in own' <=> k \in own)
  PROVE  Kept'
<1>1. NoProposal \in Proposals /\ WellMade(NoProposal)
  <2>1. 0 \in 0 .. OldAge
    BY ProposalsAssumption DEF ProposalsAssumption
  <2> QED
    BY <2>1 DEF NoProposal, Proposals, WellMade, States
<1>2. Fits(id, NoProposal, escrows'[id], aside', own')
  BY DEF Fits, NoProposal, Working, Finalizing
<1>3. /\ proposals' = [proposals EXCEPT ![id] = NoProposal]
      /\ votes' = [votes EXCEPT ![id] = NoVotes]
      /\ aside' = aside /\ UNCHANGED <<catvotes, dacVars>>
  BY DEF Cleared
<1>4. votes' \in VoteTables
  <2>1. NoVotes \in [Accounts -> VoteTypes \cup Accounts]
    BY DEF NoVotes, VoteTypes
  <2> QED
    BY <1>3, <2>1, VotesType
<1>5. aside' \subseteq Ids
  BY <1>3 DEF Kept, TypeOK
<1> QED
  BY <1>1, <1>2, <1>3, <1>4, <1>5, OneProposal

LEMMA ClearingKept ==
  ASSUME ProposalsAssumption, Kept, NEW id \in Ids,
         CancelProp(id) \/ CancelWip(id) \/ ClearExpProp(id) \/ RmvCompleted(id)
  PROVE  Kept'
<1>1. CASE CancelWip(id)
  <2>1. Books'
    BY <1>1, KeptBooks, BooksReturned DEF CancelWip
  <2>2. /\ id \notin own' /\ own' \subseteq Ids
        /\ \A k \in Ids \ {id} : escrows'[k] = escrows[k] /\ (k \in own' <=> k \in own)
    BY <1>1, EndedRows DEF CancelWip, Escrow!Returned
  <2> QED
    BY <1>1, <2>1, <2>2, ClearedKept DEF CancelWip
<1>2. CASE CancelProp(id) \/ ClearExpProp(id) \/ RmvCompleted(id)
  <2>1. UNCHANGED escrowVars /\ Cleared(id)
    BY <1>2 DEF CancelProp, ClearExpProp, RmvCompleted
  <2>2. /\ Books' /\ escrows' = escrows /\ own' = own /\ own' \subseteq Ids
        /\ id \in own' => escrows'[id].row
    BY <2>1, KeptBooks, BooksStay DEF escrowVars, Kept, TypeOK
  <2> QED
    BY <2>1, <2>2, ClearedKept
<1> QED
  BY <1>1, <1>2

(* What the parties do in dacescrow: the proposal stays as it is. *)
LEMMA AsideKept ==
  ASSUME Kept, Books', NEW id \in Ids, UNCHANGED <<proposals, votes, catvotes, dacVars>>,
         \A k \in Ids \ {id} : escrows'[k] = escrows[k]
                             /\ (k \in aside' <=> k \in aside)
                             /\ (k \in own' <=> k \in own),
         aside' \subseteq Ids, own' \subseteq Ids,
         Fits(id, proposals[id], escrows'[id], aside', own')
  PROVE  Kept'
<1>1. proposals' = [proposals EXCEPT ![id] = proposals[id]]
  BY DEF Kept, TypeOK
<1>2. votes' \in VoteTables
  BY DEF Kept, TypeOK, VoteTables
<1> QED
  BY <1>1, <1>2, KeptRow, OneProposal

LEMMA CancelBooks ==
  ASSUME ProposalsAssumption, Books, NEW id \in Ids, NEW caller, Escrow!Cancel(id, caller)
  PROVE  Books'
<1> DEFINE e == Escrow!NoEscrow
<1>1. e \in Escrow!EscrowRows /\ Escrow!WellFormed(e) /\ Escrow!Owed(e) = 0
  BY DEF Escrow!EscrowRows, Escrow!WellFormed, Escrow!NoEscrow, Escrow!Owed
<1>2. /\ escrows' = [escrows EXCEPT ![id] = e] /\ funds' = funds /\ held' = held
      /\ stranded' = stranded + escrows[id].arbiter_pay
      /\ ~(escrows[id].receiver_pay > 0)
  BY DEF Escrow!Cancel, Escrow!Funded
<1> HIDE DEF e
<1>3. /\ escrows[id].receiver_pay \in Nat /\ escrows[id].arbiter_pay \in Nat
      /\ funds \in [Accounts -> Nat] /\ held \in Nat /\ stranded \in Nat
  BY EscrowRow DEF Books, Escrow!TypeOK
<1>4. Escrow!Owed(escrows[id]) = escrows[id].arbiter_pay
  BY <1>2, <1>3 DEF Escrow!Owed
<1>5. held' = held - Escrow!Owed(escrows[id]) + Escrow!Owed(e) + (stranded' - stranded)
  BY <1>1, <1>2, <1>3, <1>4
<1>6. funds' \in [Accounts -> Nat] /\ stranded' \in Nat
  BY <1>2, <1>3
<1> QED
  BY <1>1, <1>2, <1>5, <1>6, BooksMove

LEMMA SettleAsideKept ==
  ASSUME ProposalsAssumption, Kept, NEW id \in Ids, NEW caller \in Accounts,
         SettleAside(id, caller)
  PROVE  Kept'
<1>1. /\ Books' /\ escrows' = [escrows EXCEPT ![id] = Escrow!NoEscrow]
  <2>1. CASE Escrow!Approve(id, caller)
    BY <2>1, KeptBooks, FundedParties, BooksRuled DEF Escrow!Approve, Escrow!Ruled
  <2>2. CASE Escrow!Disapprove(id, caller)
    BY <2>2, KeptBooks, FundedParties, BooksRuled DEF Escrow!Disapprove, Escrow!Ruled
  <2>3. CASE Escrow!Refund(id, caller)
    BY <2>3, KeptBooks, BooksReturned DEF Escrow!Refund, Escrow!Returned
  <2>4. CASE Escrow!Cancel(id, caller)
    <3>1. Books'
      BY <2>4, KeptBooks, CancelBooks
    <3>2. escrows' = [escrows EXCEPT ![id] = Escrow!NoEscrow]
      BY <2>4 DEF Escrow!Cancel
    <3> QED
      BY <3>1, <3>2
  <2> QED
    BY <2>1, <2>2, <2>3, <2>4 DEF SettleAside
<1>2. /\ ~escrows'[id].row /\ id \notin own' /\ own' \subseteq Ids
      /\ \A k \in Ids \ {id} : escrows'[k] = escrows[k] /\ (k \in own' <=> k \in own)
  BY <1>1, EndedRows DEF SettleAside
<1>3. aside' = aside \cup {id} /\ UNCHANGED <<proposals, votes, catvotes, dacVars>>
  BY DEF SettleAside
<1>4. Fits(id, proposals[id], escrows'[id], aside', own')
  BY <1>2, <1>3 DEF Fits
<1>5. aside' \subseteq Ids
  BY <1>3 DEF Kept, TypeOK
<1> QED
  BY <1>1, <1>2, <1>3, <1>4, <1>5, AsideKept

LEMMA DisputeAsideKept ==
  ASSUME ProposalsAssumption, Kept, NEW id \in Ids, NEW caller \in Accounts,
         DisputeAside(id, caller)
  PROVE  Kept'
<1>1. Escrow!Dispute(id, caller)
  BY DEF DisputeAside
<1>2. Books'
  BY <1>1, KeptBooks, BooksDispute
<1>3. aside' = aside /\ own' = own /\ UNCHANGED <<proposals, votes, catvotes, dacVars>>
  BY DEF DisputeAside
<1>4. Fits(id, proposals[id], escrows'[id], aside', own')
  BY <1>1, <1>3, KeptRow, DisputedRows DEF Fits
<1>5. /\ aside' \subseteq Ids /\ own' \subseteq Ids
      /\ \A k \in Ids \ {id} : escrows'[k] = escrows[k]
  BY <1>1, <1>3, DisputedRows DEF Kept, TypeOK
<1> QED
  BY <1>2, <1>3, <1>4, <1>5, AsideKept

(* Where an escrow can be opened lies none, so the proposal of that id is   *)
(* not in work, or its escrow ended without it.                             *)
LEMMA OpenAsideKept ==
  ASSUME ProposalsAssumption, Kept, NEW id \in Ids, NEW deal \in OtherDeals,
         NEW left \in Terms, OpenAside(id, deal, left)
  PROVE  Kept'
<1> DEFINE e == Escrow!NewEscrow(deal.sender, deal.receiver, deal.arb, left)
<1>1. /\ ~escrows[id].row /\ deal.arb \notin {deal.sender, deal.receiver}
      /\ escrows' = [escrows EXCEPT ![id] = e]
      /\ funds' = funds /\ held' = held /\ stranded' = stranded
      /\ aside' = aside /\ own' = own /\ UNCHANGED <<proposals, votes, catvotes, dacVars>>
  BY DEF OpenAside, Escrow!InitEscrow
<1>2. /\ deal.sender \in Accounts /\ deal.receiver \in Accounts /\ deal.arb \in Accounts
      /\ left \in Nat
  BY EscrowAssumed DEF ProposalsAssumption
<1>3. e \in Escrow!EscrowRows /\ Escrow!WellFormed(e) /\ Escrow!Owed(e) = 0
  BY <1>1, <1>2 DEF Escrow!EscrowRows, Escrow!WellFormed, Escrow!NewEscrow, Escrow!Owed
<1> HIDE DEF e
<1>4. escrows[id] = Escrow!NoEscrow
  BY <1>1, KeptBooks, EscrowRow
<1>5. Escrow!Owed(escrows[id]) = 0
  BY <1>4 DEF Escrow!Owed, Escrow!NoEscrow
<1>6. funds \in [Accounts -> Nat] /\ held \in Nat /\ stranded \in Nat
  BY DEF Kept, TypeOK, Escrow!TypeOK
<1>7. held' = held - Escrow!Owed(escrows[id]) + Escrow!Owed(e) + (stranded' - stranded)
  BY <1>1, <1>3, <1>5, <1>6
<1>8. Books'
  BY <1>1, <1>3, <1>6, <1>7, KeptBooks, BooksMove
<1>9. escrows'[id] = e /\ \A k \in Ids \ {id} : escrows'[k] = escrows[k]
  BY <1>1 DEF Kept, TypeOK, Escrow!TypeOK
<1>10. id \notin own /\ ~escrows[id].disputed
  BY <1>1, <1>4 DEF Kept, TypeOK, Escrow!NoEscrow
<1>11. Fits(id, proposals[id], escrows'[id], aside', own')
  BY <1>1, <1>10, KeptRow DEF Fits
<1>12. aside' \subseteq Ids /\ own' \subseteq Ids
  BY <1>1 DEF Kept, TypeOK
<1> QED
  BY <1>1, <1>8, <1>9, <1>11, <1>12, AsideKept

(* A payment into a row changes one sum that was 0 before. *)
LEMMA PaidBooks ==
  ASSUME ProposalsAssumption, Books, NEW id \in Ids, NEW payer \in Accounts,
         NEW n \in Nat, Escrow!TakeFrom(payer, n), stranded' = stranded,
         NEW e, e \in Escrow!EscrowRows, Escrow!WellFormed(e),
         Escrow!Owed(e) = Escrow!Owed(escrows[id]) + n,
         escrows' = [escrows EXCEPT ![id] = e]
  PROVE  Books'
<1>1. /\ funds \in [Accounts -> Nat] /\ held \in Nat /\ stranded \in Nat
      /\ Escrow!Owed(escrows[id]) \in Nat
  BY EscrowRow DEF Books, Escrow!TypeOK, Escrow!Owed
<1>2. /\ funds[payer] \in Nat /\ funds[payer] >= n /\ held' = held + n
      /\ funds' = [funds EXCEPT ![payer] = @ - n]
  BY <1>1 DEF Escrow!TakeFrom
<1>3. funds[payer] - n \in Nat
  BY <1>2
<1>4. funds' \in [Accounts -> Nat]
  BY <1>1, <1>2, <1>3
<1>5. held' = held - Escrow!Owed(escrows[id]) + Escrow!Owed(e) + (stranded' - stranded)
  BY <1>1, <1>2
<1> QED
  BY <1>1, <1>4, <1>5, BooksMove

LEMMA PayAsideKept ==
  ASSUME ProposalsAssumption, Kept, NEW id \in Ids, NEW payer \in Payers,
         NEW n \in 1 .. funds[payer], PayAside(id, payer, n)
  PROVE  Kept'
<1> DEFINE r == escrows[id]
           er == [r EXCEPT !.receiver_pay = n]
           ea == [r EXCEPT !.arbiter_pay = n]
<1>1. /\ r \in Escrow!EscrowRows /\ Escrow!WellFormed(r) /\ r.row
      /\ r.receiver_pay \in Nat /\ r.arbiter_pay \in Nat
  BY KeptBooks, EscrowRow
  DEF PayAside, Escrow!PayReceiver, Escrow!PayArbiter, Books, Escrow!TypeOK
<1>2. /\ payer \in Accounts /\ n \in Nat \ {0} /\ Escrow!TakeFrom(payer, n)
      /\ stranded' = stranded /\ aside' = aside /\ own' = own
      /\ UNCHANGED <<proposals, votes, catvotes, dacVars>>
  <2>1. n \in Nat \ {0}
    BY DEF PayAside, Escrow!PayReceiver, Escrow!PayArbiter, Escrow!TakeFrom
  <2> QED
    BY <2>1 DEF PayAside, Escrow!PayReceiver, Escrow!PayArbiter, ProposalsAssumption
<1>3. aside' \subseteq Ids /\ own' \subseteq Ids
  BY <1>2 DEF Kept, TypeOK
<1>4. Fits(id, proposals[id], r, aside, own)
  BY KeptRow
<1>5. \/ r.receiver_pay = 0 /\ escrows' = [escrows EXCEPT ![id] = er]
      \/ r.arbiter_pay = 0 /\ escrows' = [escrows EXCEPT ![id] = ea]
  BY DEF PayAside, Escrow!PayReceiver, Escrow!PayArbiter, Kept, TypeOK, Escrow!TypeOK
<1>6. DOMAIN escrows = Ids
  BY DEF Kept, TypeOK, Escrow!TypeOK
<1>7. Escrow!Owed(r) = r.receiver_pay + r.arbiter_pay
  BY DEF Escrow!Owed
<1>8. (proposals[id].state \in Working \cup {"indispute"} /\ id \notin aside)
        => r.receiver_pay > 0
  <2> HAVE proposals[id].state \in Working \cup {"indispute"} /\ id \notin aside
  <2>1. r.receiver_pay = proposals[id].job.pay
    BY <1>4 DEF Fits
  <2>2. proposals[id].state # "none" /\ WellMade(proposals[id])
    BY KeptRow DEF Working, Finalizing
  <2>3. proposals[id].job.pay \in Nat \ {0}
    BY <2>2 DEF WellMade, ProposalsAssumption
  <2> QED
    BY <2>1, <2>3
<1> HIDE DEF r
<1>9. CASE r.receiver_pay = 0 /\ escrows' = [escrows EXCEPT ![id] = er]
  <2>1. /\ er.receiver_pay = n /\ er.arbiter_pay = r.arbiter_pay
        /\ er.sender = r.sender /\ er.receiver = r.receiver /\ er.arb = r.arb
        /\ er \in Escrow!EscrowRows
    BY <1>1, <1>2 DEF Escrow!EscrowRows
  <2>2. er.row = r.row /\ er.disputed = r.disputed
    BY <1>1, Zenon DEF Escrow!EscrowRows
  <2> HIDE DEF er
  <2>3. Escrow!WellFormed(er)
    BY <1>1, <1>2, <2>1, <2>2 DEF Escrow!WellFormed
  <2>4. Escrow!Owed(er) = Escrow!Owed(r) + n
    BY <1>1, <1>2, <1>7, <1>9, <2>1 DEF Escrow!Owed
  <2>5. Books'
    BY <1>2, <1>9, <2>1, <2>3, <2>4, KeptBooks, PaidBooks DEF r
  <2>6. Fits(id, proposals[id], er, aside', own')
    BY <1>1, <1>2, <1>4, <1>8, <1>9, <2>1, <2>2 DEF Fits
  <2>7. escrows'[id] = er /\ \A k \in Ids \ {id} : escrows'[k] = escrows[k]
    BY <1>6, <1>9
  <2>8. Fits(id, proposals[id], escrows'[id], aside', own')
    BY <2>6, <2>7
  <2>9. aside' = aside /\ own' = own /\ UNCHANGED <<proposals, votes, catvotes, dacVars>>
    BY <1>2
  <2> QED
    BY <1>3, <2>5, <2>7, <2>8, <2>9, AsideKept
<1>10. CASE r.arbiter_pay = 0 /\ escrows' = [escrows EXCEPT ![id] = ea]
  <2>1. /\ ea.arbiter_pay = n /\ ea.receiver_pay = r.receiver_pay
        /\ ea.sender = r.sender /\ ea.receiver = r.receiver /\ ea.arb = r.arb
        /\ ea \in Escrow!EscrowRows
    BY <1>1, <1>2 DEF Escrow!EscrowRows
  <2>2. ea.row = r.row /\ ea.disputed = r.disputed
    BY <1>1, Zenon DEF Escrow!EscrowRows
  <2> HIDE DEF ea
  <2>3. Escrow!WellFormed(ea)
    BY <1>1, <1>2, <2>1, <2>2 DEF Escrow!WellFormed
  <2>4. Escrow!Owed(ea) = Escrow!Owed(r) + n
    BY <1>1, <1>2, <1>7, <1>10, <2>1 DEF Escrow!Owed
  <2>5. Books'
    BY <1>2, <1>10, <2>1, <2>3, <2>4, KeptBooks, PaidBooks DEF r
  <2>6. Fits(id, proposals[id], ea, aside', own')
    BY <1>1, <1>2, <1>4, <2>1, <2>2 DEF Fits
  <2>7. escrows'[id] = ea /\ \A k \in Ids \ {id} : escrows'[k] = escrows[k]
    BY <1>6, <1>10
  <2>8. Fits(id, proposals[id], escrows'[id], aside', own')
    BY <2>6, <2>7
  <2>9. aside' = aside /\ own' = own /\ UNCHANGED <<proposals, votes, catvotes, dacVars>>
    BY <1>2
  <2> QED
    BY <1>3, <2>5, <2>7, <2>8, <2>9, AsideKept
<1> QED
  BY <1>5, <1>9, <1>10

LEMMA EscrowCallKept == ASSUME ProposalsAssumption, Kept, EscrowCall PROVE Kept'
  BY SettleAsideKept, DisputeAsideKept, OpenAsideKept, PayAsideKept DEF EscrowCall

-----------------------------------------------------------------------------
LEMMA KeptInit == ASSUME ProposalsAssumption, Init PROVE Kept
<1>1. Books
  <2>1. E!Init
    BY DEF Init, Escrow!Init, E!Init, Escrow!NoEscrow, E!NoEscrow
  <2>2. E!TypeOK /\ E!Solvent
    BY <2>1, EscrowAssumed, E!BooksInit DEF E!BooksInit, E!Books
  <2> QED
    BY <2>2, BooksAre
<1>2. NoProposal \in Proposals /\ WellMade(NoProposal)
  <2>1. 0 \in 0 .. OldAge
    BY DEF ProposalsAssumption
  <2> QED
    BY <2>1 DEF NoProposal, Proposals, WellMade, States
<1>3. NoVotes \in [Accounts -> VoteTypes \cup Accounts]
  BY DEF NoVotes, VoteTypes
<1>4. TypeOK
  BY <1>1, <1>2, <1>3 DEF Init, TypeOK, Books
<1>5. \A id \in Ids : Fits(id, proposals[id], escrows[id], aside, own)
  BY DEF Init, Fits, NoProposal, Working, Finalizing
<1> QED
  BY <1>1, <1>4, <1>5 DEF Kept, Books

LEMMA VotingKept == ASSUME ProposalsAssumption, Kept, Voting PROVE Kept'
<1>1. PICK c \in Accounts :
        \/ \E id \in Ids, vote \in {"approve", "deny", "abstain"} :
             VoteProp(c, id, vote) \/ VotePropFin(c, id, vote)
        \/ \E id \in Ids, to \in Delegatees : DelegateVote(c, id, to)
        \/ \E category \in Categories :
             \/ UndelegateCat(c, category)
             \/ \E to \in Delegatees : DelegateCat(c, category, to)
  BY DEF Voting
<1>2. CASE \E id \in Ids, vote \in {"approve", "deny", "abstain"} :
             VoteProp(c, id, vote) \/ VotePropFin(c, id, vote)
  <2>1. PICK id \in Ids, vote \in {"approve", "deny", "abstain"} :
          CastVote(c, id, PropVote(vote)) \/ CastVote(c, id, FinalVote(vote))
    BY <1>2 DEF VoteProp, VotePropFin
  <2>2. PICK v : CastVote(c, id, v)
    BY <2>1
  <2> QED
    BY <2>2, CastVoteKept
<1>3. CASE \E id \in Ids, to \in Delegatees : DelegateVote(c, id, to)
  BY <1>3, DelegateVoteKept DEF ProposalsAssumption
<1>4. CASE \E category \in Categories : UndelegateCat(c, category)
  BY <1>4, CategoryKept DEF UndelegateCat
<1>5. CASE \E category \in Categories, to \in Delegatees : DelegateCat(c, category, to)
  BY <1>5, CategoryKept DEF DelegateCat, ProposalsAssumption
<1> QED
  BY <1>1, <1>2, <1>3, <1>4, <1>5

LEMMA HandlingKept ==
  ASSUME ProposalsAssumption, Kept, NEW id \in Ids,
         \/ UpdPropVotes(id) \/ CompleteWork(id) \/ BlockProp(id)
  PROVE  Kept'
<1>1. CASE UpdPropVotes(id)
  BY <1>1, KeptRow, RecountKept DEF UpdPropVotes
<1>2. votes \in VoteTables
  BY DEF Kept, TypeOK, VoteTables
<1>3. CASE CompleteWork(id)
  BY <1>2, <1>3, StateOnly DEF CompleteWork, Working, Finalizing, States
<1>4. CASE BlockProp(id)
  BY <1>2, <1>4, StateOnly DEF BlockProp, Exists, Working, Finalizing, States
<1> QED
  BY <1>1, <1>3, <1>4

LEMMA KeptNext == ASSUME ProposalsAssumption, Kept, [Next]_vars PROVE Kept'
<1>1. CASE Tick
  BY <1>1, TickKept
<1>2. CASE \E board \in Boards : NewBoard(board)
  BY <1>2, OutsideKept DEF NewBoard, Kept, TypeOK
<1>3. CASE \E a \in Leavers : LeaveOrJoin(a)
  <2>1. PICK a \in Leavers : LeaveOrJoin(a)
    BY <1>3
  <2>2. members' \subseteq Accounts
    BY <2>1 DEF LeaveOrJoin, Kept, TypeOK, ProposalsAssumption
  <2> QED
    BY <2>1, <2>2, OutsideKept DEF LeaveOrJoin, Kept, TypeOK
<1>4. CASE \E new \in Configs : UpdateConfig(new)
  BY <1>4, OutsideKept DEF UpdateConfig, Kept, TypeOK
<1>5. CASE Propose
  BY <1>5, CreatePropKept DEF Propose
<1>6. CASE Voting
  BY <1>6, VotingKept
<1>7. CASE Handling
  <2>1. PICK id \in Ids :
          \/ ArbAgree(id) \/ UpdPropVotes(id) \/ StartWork(id) \/ CompleteWork(id)
          \/ Finalize(id) \/ DisputeProp(id) \/ ArbApprove(id) \/ ArbDeny(id)
          \/ CancelProp(id) \/ CancelWip(id) \/ ClearExpProp(id) \/ RmvCompleted(id)
          \/ BlockProp(id)
    BY <1>7 DEF Handling
  <2>2. CASE ArbAgree(id) \/ StartWork(id) \/ Finalize(id) \/ DisputeProp(id)
    BY <2>2, ArbAgreeKept, StartWorkKept, FinalizeKept, DisputePropKept
  <2>3. CASE UpdPropVotes(id) \/ CompleteWork(id) \/ BlockProp(id)
    BY <2>3, HandlingKept
  <2>4. CASE ArbApprove(id) \/ ArbDeny(id)
    BY <2>4, ArbiterKept
  <2>5. CASE CancelProp(id) \/ CancelWip(id) \/ ClearExpProp(id) \/ RmvCompleted(id)
    BY <2>5, ClearingKept
  <2> QED
    BY <2>1, <2>2, <2>3, <2>4, <2>5
<1>8. CASE EscrowCall
  BY <1>8, EscrowCallKept
<1>9. CASE UNCHANGED vars
  BY <1>9, OutsideKept DEF vars, dacVars, Kept, TypeOK
<1> QED
  BY <1>1, <1>2, <1>3, <1>4, <1>5, <1>6, <1>7, <1>8, <1>9 DEF Next

-----------------------------------------------------------------------------
(* Payment: whose step it is that takes an escrow's row. *)

(* An ending pays the two ends only if they are named: the row of another   *)
(* proposal stays.                                                          *)
LEMMA RowTaken ==
  ASSUME Kept, NEW id \in Ids, NEW k \in Ids,
         escrows[id].row, ~escrows'[id].row,
         escrows' = [escrows EXCEPT ![k] = Escrow!NoEscrow]
  PROVE  k = id
<1>1. k # id => escrows'[id] = escrows[id]
  BY DEF Kept, TypeOK, Escrow!TypeOK
<1> QED
  BY <1>1

(* The clock, a dispute, an opening and a payment take no row. *)
LEMMA RowStays ==
  ASSUME Kept, NEW id \in Ids,
         \/ Escrow!Tick
         \/ UNCHANGED escrowVars
         \/ \E k \in Ids, caller \in Accounts : Escrow!Dispute(k, caller)
         \/ \E k \in Ids, deal \in OtherDeals, left \in Terms : OpenAside(k, deal, left)
         \/ \E k \in Ids : \E payer, n : PayAside(k, payer, n)
  PROVE  escrows[id].row => escrows'[id].row
<1>1. CASE Escrow!Tick
  <2> DEFINE e == escrows[id]
             f == [e EXCEPT !.left = Escrow!Sooner(e.left)]
  <2>1. e \in Escrow!EscrowRows /\ escrows'[id] = f
    BY <1>1, KeptBooks, EscrowRow DEF Escrow!Tick
  <2> HIDE DEF e
  <2>2. f.row = e.row
    BY <2>1, Zenon DEF Escrow!EscrowRows
  <2> HIDE DEF f
  <2> QED
    BY <2>1, <2>2 DEF e
<1>2. CASE UNCHANGED escrowVars
  BY <1>2 DEF escrowVars
<1>3. CASE \E k \in Ids, caller \in Accounts : Escrow!Dispute(k, caller)
  <2>1. PICK k \in Ids, caller \in Accounts : Escrow!Dispute(k, caller)
    BY <1>3
  <2>2. escrows'[k].row = escrows[k].row /\ \A x \in Ids \ {k} : escrows'[x] = escrows[x]
    BY <2>1, DisputedRows
  <2> QED
    BY <2>2
<1>4. CASE \E k \in Ids, deal \in OtherDeals, left \in Terms : OpenAside(k, deal, left)
  <2>1. PICK k \in Ids, deal \in OtherDeals, left \in Terms : OpenAside(k, deal, left)
    BY <1>4
  <2>2. ~escrows[k].row /\ \A x \in Ids \ {k} : escrows'[x] = escrows[x]
    BY <2>1 DEF OpenAside, Escrow!InitEscrow, Kept, TypeOK, Escrow!TypeOK
  <2> QED
    BY <2>2
<1>5. CASE \E k \in Ids : \E payer, n : PayAside(k, payer, n)
  <2>0. PICK k \in Ids : \E payer, n : PayAside(k, payer, n)
    BY <1>5
  <2>1. PICK payer, n : PayAside(k, payer, n)
    BY <2>0
  <2> DEFINE e == escrows[k]
             er == [e EXCEPT !.receiver_pay = n]
             ea == [e EXCEPT !.arbiter_pay = n]
  <2>2. e \in Escrow!EscrowRows
    BY KeptBooks, EscrowRow
  <2>3. /\ escrows'[k] = er \/ escrows'[k] = ea
        /\ \A x \in Ids \ {k} : escrows'[x] = escrows[x]
    BY <2>1
    DEF PayAside, Escrow!PayReceiver, Escrow!PayArbiter, Kept, TypeOK, Escrow!TypeOK
  <2> HIDE DEF e
  <2>4. er.row = e.row
    BY <2>2, Zenon DEF Escrow!EscrowRows
  <2>5. ea.row = e.row
    BY <2>2, Zenon DEF Escrow!EscrowRows
  <2> HIDE DEF er, ea
  <2>6. escrows'[k].row = escrows[k].row
    BY <2>3, <2>4, <2>5 DEF e
  <2> QED
    BY <2>3, <2>6
<1> QED
  BY <1>1, <1>2, <1>3, <1>4, <1>5

(* A refund gives nobody but the sender anything. *)
LEMMA ReturnedTo ==
  ASSUME Kept, NEW id \in Ids, Escrow!Funded(id), Escrow!Returned(id),
         escrows[id].receiver # escrows[id].sender
  PROVE  ~ (funds'[escrows[id].receiver] > funds[escrows[id].receiver])
<1>1. escrows[id].receiver \in Accounts /\ funds \in [Accounts -> Nat]
  BY FundedParties DEF Kept, TypeOK, Escrow!TypeOK
<1>2. funds'[escrows[id].receiver] = funds[escrows[id].receiver]
  BY <1>1 DEF Escrow!Returned
<1>3. funds[escrows[id].receiver] \in Nat
  BY <1>1
<1> QED
  BY <1>2, <1>3

Deserved(id) ==
  \/ escrows[id].disputed
  \/ EscrowCall
  \/ /\ Cardinality(Agreeing(id, "finalapprove")) >= config.finalize_threshold
     /\ proposals[id].age >= config.min_proposal_duration

LEMMA FinalizedDeserved ==
  ASSUME ProposalsAssumption, Kept, NEW id \in Ids, Finalize(id)
  PROVE  Deserved(id)
<1>1. /\ CountVotes(votes[id], proposals[id].job.category, "finalapprove")
           >= config.finalize_threshold
      /\ proposals[id].age >= config.min_proposal_duration
  BY DEF Finalize, Enough
<1>2. custodians \in Boards /\ "finalapprove" \in VoteTypes \ {"none"}
  BY DEF Kept, TypeOK, VoteTypes
<1>3. CountVotes(votes[id], proposals[id].job.category, "finalapprove") =
        Cardinality(Agreeing(id, "finalapprove"))
  BY <1>2, Counted
<1> QED
  BY <1>1, <1>3 DEF Deserved

LEMMA HandledDeserved ==
  ASSUME ProposalsAssumption, Kept, NEW id \in Ids, PaidNow(id), Handling
  PROVE  Deserved(id)
<1>1. escrows[id].row /\ ~escrows'[id].row
  BY DEF PaidNow
<1>2. PICK k \in Ids :
        \/ ArbAgree(k) \/ UpdPropVotes(k) \/ StartWork(k) \/ CompleteWork(k)
        \/ Finalize(k) \/ DisputeProp(k) \/ ArbApprove(k) \/ ArbDeny(k)
        \/ CancelProp(k) \/ CancelWip(k) \/ ClearExpProp(k) \/ RmvCompleted(k)
        \/ BlockProp(k)
  BY DEF Handling
<1>3. CASE \/ ArbAgree(k) \/ UpdPropVotes(k) \/ CompleteWork(k) \/ CancelProp(k)
           \/ ClearExpProp(k) \/ RmvCompleted(k) \/ BlockProp(k)
  <2>1. UNCHANGED escrowVars
    BY <1>3 DEF ArbAgree, UpdPropVotes, CompleteWork, CancelProp, ClearExpProp,
                RmvCompleted, BlockProp
  <2> QED
    BY <1>1, <2>1, RowStays
<1>4. CASE StartWork(k)
  <2> DEFINE e == EscrowFor(proposals[k])
  <2>1. escrows' = [escrows EXCEPT ![k] = e] /\ e.row
    BY <1>4 DEF StartWork, EscrowFor, PaidEscrow
  <2> HIDE DEF e
  <2>2. escrows'[id].row
    BY <1>1, <2>1 DEF Kept, TypeOK, Escrow!TypeOK
  <2> QED
    BY <1>1, <2>2
<1>5. CASE Finalize(k)
  BY <1>1, <1>5, RowTaken, FinalizedDeserved
  DEF Finalize, Escrow!Approve, Escrow!Ruled
<1>6. CASE DisputeProp(k)
  <2>1. PICK caller : Escrow!Dispute(k, caller)
    BY <1>6 DEF DisputeProp
  <2>2. caller \in Accounts
    BY <2>1, FundedParties DEF Escrow!Dispute
  <2> QED
    BY <1>1, <2>1, <2>2, RowStays
<1>7. CASE ArbApprove(k) \/ ArbDeny(k)
  <2>1. escrows[k].disputed
    BY <1>7 DEF ArbApprove, ArbDeny, ArbiterRules
  <2>2. k = id
    BY <1>1, <1>7, RowTaken
    DEF ArbApprove, ArbDeny, Escrow!Approve, Escrow!Disapprove, Escrow!Ruled
  <2> QED
    BY <2>1, <2>2 DEF Deserved
<1>8. CASE CancelWip(k)
  <2>1. k = id
    BY <1>1, <1>8, RowTaken DEF CancelWip, Escrow!Returned
  <2>2. Escrow!Funded(id) /\ Escrow!Returned(id)
    BY <1>8, <2>1 DEF CancelWip
  <2>3. /\ escrows[id].receiver # escrows[id].sender
        /\ funds'[escrows[id].receiver] > funds[escrows[id].receiver]
    BY DEF PaidNow
  <2> QED
    BY <2>2, <2>3, ReturnedTo
<1> QED
  BY <1>2, <1>3, <1>4, <1>5, <1>6, <1>7, <1>8

LEMMA PaidDeserved ==
  ASSUME ProposalsAssumption, Kept, [Next]_vars, NEW id \in Ids, PaidNow(id)
  PROVE  Deserved(id)
<1>1. escrows[id].row /\ ~escrows'[id].row
  BY DEF PaidNow
<1>2. CASE Tick
  BY <1>1, <1>2, RowStays DEF Tick
<1>3. CASE \/ Propose \/ Voting
           \/ \E board \in Boards : NewBoard(board)
           \/ \E a \in Leavers : LeaveOrJoin(a)
           \/ \E new \in Configs : UpdateConfig(new)
  <2>1. UNCHANGED escrowVars
    BY <1>3 DEF Propose, CreateProp, Voting, VoteProp, VotePropFin, CastVote,
                DelegateVote, UndelegateCat, DelegateCat, NewBoard, LeaveOrJoin,
                UpdateConfig
  <2> QED
    BY <1>1, <2>1, RowStays
<1>4. CASE Handling
  BY <1>4, HandledDeserved
<1>5. CASE EscrowCall
  BY <1>5 DEF Deserved
<1>6. CASE UNCHANGED vars
  BY <1>1, <1>6, RowStays DEF vars
<1> QED
  BY <1>2, <1>3, <1>4, <1>5, <1>6 DEF Next

-----------------------------------------------------------------------------
(* Theorems *)

LEMMA KeptAlways == Spec => []Kept
<1>1. Init => Kept
  BY ProposalsAssumption, KeptInit
<1>2. Kept /\ [Next]_vars => Kept'
  BY ProposalsAssumption, KeptNext
<1> QED
  BY <1>1, <1>2, PTL DEF Spec

(* Rows keep their types; a proposal that exists has a proposer, another    *)
(* account as arbiter and one of the jobs; the escrow contract holds what   *)
(* its open escrows promise, also when startwork, cancelwip and the votes   *)
(* drive it.                                                                *)
THEOREM TypesAndBooks == Spec => [](TypeOK /\ Escrow!Solvent)
<1>1. Kept => TypeOK /\ Escrow!Solvent
  BY DEF Kept
<1> QED
  BY <1>1, KeptAlways, PTL

(* The count of votes is the number of custodians whose own vote, or the    *)
(* vote of who they delegated to, is an approval, however many custodians   *)
(* delegate in whatever way.                                                *)
THEOREM EachCountsOnceCorrect == Spec => []EachCountsOnce
<1>1. Kept => EachCountsOnce
  <2> SUFFICES ASSUME Kept, NEW id \in Ids,
                      NEW vote \in {"propapprove", "finalapprove"}
               PROVE  CountVotes(votes[id], proposals[id].job.category, vote) =
                        Cardinality(Agreeing(id, vote))
    BY DEF EachCountsOnce
  <2>1. custodians \in Boards /\ vote \in VoteTypes \ {"none"}
    BY DEF Kept, TypeOK, VoteTypes
  <2> QED
    BY <2>1, ProposalsAssumption, Counted
<1> QED
  BY <1>1, KeptAlways, PTL

(* Work under way is paid for: the escrow under the proposal's id is the    *)
(* one startwork opened for this proposer, arbiter and pay, unless a party  *)
(* ended it by itself; whatever escrows others open under ids of proposals. *)
THEOREM WorkFundedCorrect == Spec => []WorkFunded
<1>1. Kept => WorkFunded
  BY DEF Kept, Fits, WorkFunded
<1> QED
  BY <1>1, KeptAlways, PTL

(* A proposal in dispute has a locked escrow. *)
THEOREM DisputeLockedCorrect == Spec => []DisputeLocked
<1>1. Kept => DisputeLocked
  BY DEF Kept, Fits, DisputeLocked
<1> QED
  BY <1>1, KeptAlways, PTL

(* The escrow that startwork opened for a completed proposal is over, and   *)
(* none that others open under the id since counts as it.                   *)
THEOREM CompletedSettledCorrect == Spec => []CompletedSettled
<1>1. Kept => CompletedSettled
  BY DEF Kept, Fits, CompletedSettled
<1> QED
  BY <1>1, KeptAlways, PTL

(* A proposer is paid only for work that enough custodians of the moment    *)
(* approve after the minimum duration, by the word of the arbiter, or by a  *)
(* party's own call to dacescrow.                                           *)
THEOREM PaidForWorkCorrect == Spec => PaidForWork
<1>1. Kept /\ [Next]_vars =>
        [\A id \in Ids : PaidNow(id) =>
           \/ escrows[id].disputed
           \/ EscrowCall
           \/ /\ Cardinality(Agreeing(id, "finalapprove"))
                   >= config.finalize_threshold
              /\ proposals[id].age >= config.min_proposal_duration]_vars
  BY ProposalsAssumption, PaidDeserved DEF Deserved
<1> QED
  BY <1>1, KeptAlways, PTL DEF Spec, PaidForWork

=============================================================================
