---------------------------- MODULE ServicesProofs ----------------------------
(***************************************************************************)
(* Theorems about the three contracts of Services.                         *)
(*                                                                         *)
(* Multisignature proposals: an execution has the last words of enough     *)
(* custodians, and they have stood for the proposal's delay.  Airdrops: a  *)
(* receiver gets what was approved, once, and the money is there.          *)
(* Directory: a budget NFT counts for its owner's DAC alone.               *)
(***************************************************************************)
EXTENDS Services, TotalsTheorems, NaturalsInduction, WellFoundedInduction

-----------------------------------------------------------------------------
(* Multisignature proposals *)


(* What the tables and the times in them look like. *)
Clocked ==
  /\ now \in Nat
  /\ board \in Boards
  /\ proposals \in [Names -> Rows]
  /\ provided \in [Names -> [Accounts -> Int]]
  /\ invals \in [Accounts -> Int]
  /\ \A p \in Names, a \in Accounts : provided[p][a] <= now
  /\ word \in [Names -> [Accounts -> {"none", "for", "against"}]]

(* An approval that counts is its giver's last word. *)
Meant(p) ==
  Pending(p) => \A a \in Accounts : Counts(provided[p][a], invals[a]) => word[p][a] = "for"

Words == \A p \in Names : Meant(p)

-----------------------------------------------------------------------------
(* A row stays one when its earliest time or its state changes. *)
LEMMA RowEarliest ==
  ASSUME NEW z \in Rows, NEW e \in Nat \cup {Never}
  PROVE  [z EXCEPT !.earliest = e] \in Rows
BY DEF Rows

LEMMA RowState ==
  ASSUME NEW z \in Rows, NEW st \in States
  PROVE  [z EXCEPT !.state = st] \in Rows
BY DEF Rows

LEMMA InitClocked == ASSUME MsigAssumption, Init PROVE Clocked
<1>1. NoProposal \in Rows
  BY DEF NoProposal, Rows, States, Never
<1> QED
  BY <1>1 DEF Init, Clocked, Never

LEMMA ProposeClocked ==
  ASSUME MsigAssumption, Clocked, NEW p \in Names, NEW who \in Accounts \cup {Referendum},
         NEW x \in Actions, NEW d \in Delays, NEW l \in Lifetimes, Propose(p, who, x, d, l)
  PROVE  Clocked'
<1> DEFINE z == [state |-> "pending", proposer |-> who, does |-> x, delay |-> d,
                 expiration |-> now + l, earliest |-> Never]
<1>1. z \in Rows
  BY DEF Rows, States, Never, MsigAssumption, Clocked
<1>2. proposals' = [proposals EXCEPT ![p] = z]
  BY DEF Propose
<1> HIDE DEF z
<1>3. proposals' \in [Names -> Rows]
  BY <1>1, <1>2 DEF Clocked
<1>4. provided' \in [Names -> [Accounts -> Int]]
      /\ \A q \in Names, b \in Accounts : provided'[q][b] <= now
  BY DEF Propose, Clocked, Never
<1>5. word' \in [Names -> [Accounts -> {"none", "for", "against"}]]
  BY DEF Propose, Forgets, Clocked
<1> QED
  BY <1>3, <1>4, <1>5 DEF Propose, Clocked

LEMMA ApproveClocked ==
  ASSUME MsigAssumption, Clocked, NEW p \in Names, NEW a \in Accounts, Approve(p, a)
  PROVE  Clocked'
<1> DEFINE given == [provided[p] EXCEPT ![a] = now]
           e == IF proposals[p].earliest = Never /\ Authorized(given)
                THEN now + proposals[p].delay ELSE proposals[p].earliest
<1>1. given \in [Accounts -> Int] /\ \A b \in Accounts : given[b] <= now
  BY DEF Clocked
<1>2. provided' = [provided EXCEPT ![p] = given]
  BY DEF Approve
<1>3. proposals' = [proposals EXCEPT ![p].earliest = e]
  BY DEF Approve
<1>4. e \in Nat \cup {Never}
  BY DEF Clocked, Rows, Never
<1> HIDE DEF given, e
<1>5. proposals' \in [Names -> Rows]
  BY <1>3, <1>4, RowEarliest DEF Clocked
<1>6. provided' \in [Names -> [Accounts -> Int]]
      /\ \A q \in Names, b \in Accounts : provided'[q][b] <= now
  BY <1>1, <1>2 DEF Clocked
<1>7. word' \in [Names -> [Accounts -> {"none", "for", "against"}]]
  BY DEF Approve, Says, Clocked
<1> QED
  BY <1>5, <1>6, <1>7 DEF Approve, Clocked

LEMMA TakeBackClocked ==
  ASSUME MsigAssumption, Clocked, NEW p \in Names, NEW a \in Accounts, TakeBack(p, a)
  PROVE  Clocked'
<1> DEFINE given == [provided[p] EXCEPT ![a] = Never]
           e == IF Authorized(given) THEN proposals[p].earliest ELSE Never
<1>1. given \in [Accounts -> Int] /\ \A b \in Accounts : given[b] <= now
  BY DEF Clocked, Never
<1>2. provided' = [provided EXCEPT ![p] = given]
  BY DEF TakeBack
<1>3. proposals' = [proposals EXCEPT ![p].earliest = e]
  BY DEF TakeBack
<1>4. e \in Nat \cup {Never}
  BY DEF Clocked, Rows, Never
<1> HIDE DEF given, e
<1>5. proposals' \in [Names -> Rows]
  BY <1>3, <1>4, RowEarliest DEF Clocked
<1>6. provided' \in [Names -> [Accounts -> Int]]
      /\ \A q \in Names, b \in Accounts : provided'[q][b] <= now
  BY <1>1, <1>2 DEF Clocked
<1>7. word' \in [Names -> [Accounts -> {"none", "for", "against"}]]
  BY DEF TakeBack, Says, Clocked
<1> QED
  BY <1>5, <1>6, <1>7 DEF TakeBack, Clocked

(* cancel and exec close a proposal, cleanup drops its row. *)
LEMMA CloseClocked ==
  ASSUME MsigAssumption, Clocked, NEW p \in Names, NEW who,
         Cancel(p, who) \/ Exec(p) \/ Cleanup(p)
  PROVE  Clocked'
<1>1. NoProposal \in Rows
  BY DEF NoProposal, Rows, States, Never
<1>2. word' \in [Names -> [Accounts -> {"none", "for", "against"}]]
  BY DEF Cancel, Exec, Cleanup, Forgets, Clocked
<1>3. CASE Cancel(p, who)
  <2>1. proposals' \in [Names -> Rows]
    BY <1>3, RowState DEF Cancel, Clocked, States
  <2> QED
    BY <1>2, <1>3, <2>1 DEF Cancel, Clocked
<1>4. CASE Exec(p)
  <2>1. proposals' \in [Names -> Rows]
    BY <1>4, RowState DEF Exec, Clocked, States
  <2> QED
    BY <1>2, <1>4, <2>1 DEF Exec, Clocked
<1>5. CASE Cleanup(p)
  <2> HIDE DEF NoProposal
  <2>1. proposals' \in [Names -> Rows]
    BY <1>1, <1>5 DEF Cleanup, Clocked
  <2>2. provided' \in [Names -> [Accounts -> Int]]
        /\ \A q \in Names, b \in Accounts : provided'[q][b] <= now
    BY <1>5 DEF Cleanup, Clocked, Never
  <2> QED
    BY <1>2, <1>5, <2>1, <2>2 DEF Cleanup, Clocked
<1> QED
  BY <1>3, <1>4, <1>5

LEMMA NextClocked == ASSUME MsigAssumption, Clocked, [Next]_vars PROVE Clocked'
<1>1. CASE Tick
  BY <1>1 DEF Tick, Clocked, history
<1>2. ASSUME NEW b \in Boards, NewBoard(b) PROVE Clocked'
  BY <1>2 DEF NewBoard, Clocked
<1>3. ASSUME NEW a \in Accounts, Invalidate(a) PROVE Clocked'
  <2>1. invals' \in [Accounts -> Int]
    BY <1>3 DEF Invalidate, Clocked
  <2>2. ASSUME NEW p \in Names
        PROVE  [word[p] EXCEPT ![a] = IF Pending(p) THEN "against" ELSE @]
                 \in [Accounts -> {"none", "for", "against"}]
    BY DEF Clocked
  <2>3. word' \in [Names -> [Accounts -> {"none", "for", "against"}]]
    BY <1>3, <2>2 DEF Invalidate
  <2> QED
    BY <1>3, <2>1, <2>3 DEF Invalidate, Clocked
<1>4. ASSUME NEW x \in Actions, BlockAction(x) PROVE Clocked'
  BY <1>4 DEF BlockAction, Clocked, history
<1>5. CASE UNCHANGED vars
  BY <1>5 DEF vars, history, Clocked
<1> QED
  BY <1>1, <1>2, <1>3, <1>4, <1>5, ProposeClocked, ApproveClocked, TakeBackClocked,
     CloseClocked DEF Next, Unapprove, Deny

(* Tables are well formed and no approval is from the future. *)
THEOREM ClockedCorrect == ASSUME MsigAssumption PROVE Spec => []Clocked
<1>1. Init => Clocked
  BY InitClocked
<1>2. Clocked /\ [Next]_vars => Clocked'
  BY NextClocked
<1> QED
  BY <1>1, <1>2, PTL DEF Spec

-----------------------------------------------------------------------------
LEMMA NextWords == ASSUME MsigAssumption, Clocked, Words, [Next]_vars PROVE Words'
<1> USE DEF Words, Meant, Pending, Counts
<1>1. CASE Tick
  BY <1>1 DEF Tick, history
<1>2. ASSUME NEW b \in Boards, NewBoard(b) PROVE Words'
  BY <1>2 DEF NewBoard
<1>3. ASSUME NEW p \in Names, NEW who \in Accounts \cup {Referendum},
             NEW x \in Actions, NEW d \in Delays, NEW l \in Lifetimes, Propose(p, who, x,
             d, l)
      PROVE  Words'
  <2>1. \A q \in Names \ {p} : provided'[q] = provided[q] /\ proposals'[q] = proposals[q]
                               /\ word'[q] = word[q]
    BY <1>3 DEF Propose, Forgets, Clocked
  <2>2. \A a \in Accounts : provided'[p][a] = Never
    BY <1>3 DEF Propose, Clocked
  <2> QED
    BY <1>3, <2>1, <2>2 DEF Propose
<1>4. ASSUME NEW p \in Names, NEW a \in Accounts, Approve(p, a) PROVE Words'
  <2>1. \A q \in Names \ {p} : provided'[q] = provided[q] /\ proposals'[q] = proposals[q]
                               /\ word'[q] = word[q]
    BY <1>4 DEF Approve, Says, Clocked
  <2>2. word'[p][a] = "for"
    BY <1>4 DEF Approve, Says, Clocked
  <2>3. \A b \in Accounts \ {a} : provided'[p][b] = provided[p][b] /\ word'[p][b] = word[p][b]
    BY <1>4 DEF Approve, Says, Clocked
  <2>4. Pending(p)
    BY <1>4 DEF Approve
  <2> QED
    BY <1>4, <2>1, <2>2, <2>3, <2>4 DEF Approve
<1>5. ASSUME NEW p \in Names, NEW a \in Accounts, TakeBack(p, a) PROVE Words'
  <2>1. \A q \in Names \ {p} : provided'[q] = provided[q] /\ proposals'[q] = proposals[q]
                               /\ word'[q] = word[q]
    BY <1>5 DEF TakeBack, Says, Clocked
  <2>2. provided'[p][a] = Never
    BY <1>5 DEF TakeBack, Clocked
  <2>3. \A b \in Accounts \ {a} : provided'[p][b] = provided[p][b] /\ word'[p][b] = word[p][b]
    BY <1>5 DEF TakeBack, Says, Clocked
  <2>4. Pending(p)
    BY <1>5 DEF TakeBack
  <2> QED
    BY <1>5, <2>1, <2>2, <2>3, <2>4 DEF TakeBack
<1>6. ASSUME NEW p \in Names, NEW who, Cancel(p, who) \/ Exec(p) \/ Cleanup(p) PROVE Words'
  <2>1. \A q \in Names \ {p} : provided'[q] = provided[q] /\ proposals'[q] = proposals[q]
                               /\ word'[q] = word[q]
    BY <1>6 DEF Cancel, Exec, Cleanup, Forgets, Clocked
  <2>2. proposals'[p].state # "pending"
    BY <1>6 DEF Cancel, Exec, Cleanup, NoProposal, Clocked, Rows
  <2>3. invals' = invals
    BY <1>6 DEF Cancel, Exec, Cleanup
  <2> QED
    BY <2>1, <2>2, <2>3
<1>7. ASSUME NEW a \in Accounts, Invalidate(a) PROVE Words'
  <2>1. invals'[a] = now /\ \A b \in Accounts \ {a} : invals'[b] = invals[b]
    BY <1>7 DEF Invalidate, Clocked
  <2>2. \A p \in Names, b \in Accounts \ {a} : word'[p][b] = word[p][b]
    BY <1>7 DEF Invalidate, Clocked
  <2>3. provided' = provided /\ proposals' = proposals
    BY <1>7 DEF Invalidate
  <2>4. \A p \in Names : ~Counts(provided[p][a], now)
    BY DEF Clocked
  <2> QED
    BY <2>1, <2>2, <2>3, <2>4
<1>8. ASSUME NEW x \in Actions, BlockAction(x) PROVE Words'
  BY <1>8 DEF BlockAction, history
<1>9. CASE UNCHANGED vars
  BY <1>9 DEF vars, history
<1> QED
  BY <1>1, <1>2, <1>3, <1>4, <1>5, <1>6, <1>7, <1>8, <1>9 DEF Next, Unapprove, Deny

(* What the chain is shown never exceeds what the custodians last said. *)
LEMMA AuthorizedAgreed ==
  ASSUME MsigAssumption, NEW bd \in Boards, NEW given, NEW words, NEW iv,
         \A a \in Accounts : Counts(given[a], iv[a]) => words[a] = "for",
         Cardinality({a \in Accounts : Counts(given[a], iv[a])} \cap bd) >= Threshold
  PROVE  Cardinality({a \in bd : words[a] = "for"}) >= Threshold
<1> DEFINE A == {a \in Accounts : Counts(given[a], iv[a])} \cap bd
           B == {a \in bd : words[a] = "for"}
<1>1. A \subseteq B /\ B \subseteq Accounts
  BY DEF MsigAssumption
<1>2. IsFiniteSet(B)
  BY <1>1, FS_Subset DEF MsigAssumption
<1>3. IsFiniteSet(A) /\ Cardinality(A) <= Cardinality(B)
  BY <1>1, <1>2, FS_Subset
<1>4. Cardinality(A) \in Nat /\ Cardinality(B) \in Nat /\ Threshold \in Nat
  BY <1>2, <1>3, FS_CardinalityType DEF MsigAssumption
<1>5. Cardinality(A) >= Threshold
  OBVIOUS
<1> HIDE DEF A, B
<1>6. Cardinality(B) >= Threshold
  BY <1>3, <1>4, <1>5
<1> QED
  BY <1>6 DEF B

(* Only exec makes a pending proposal an executed one. *)
LEMMA ExecutesOnly ==
  ASSUME Clocked, NEW p \in Names, Executes(p), [Next]_vars
  PROVE  Exec(p)
<1> SUFFICES ASSUME ~Exec(p) PROVE FALSE
  OBVIOUS
<1> USE DEF Executes, Pending, Clocked, Rows
<1>1. ~\E q \in Names \ {p} : Exec(q)
  BY DEF Exec
<1>2. ASSUME NEW q \in Names, NEW who \in Accounts \cup {Referendum},
             NEW x \in Actions, NEW d \in Delays, NEW l \in Lifetimes, Propose(q, who, x,
             d, l)
      PROVE  FALSE
  <2>1. q # p
    BY <1>2 DEF Propose
  <2> QED
    BY <1>2, <2>1 DEF Propose
<1>3. ASSUME NEW q \in Names, NEW a \in Accounts, Approve(q, a) PROVE FALSE
  BY <1>3 DEF Approve
<1>4. ASSUME NEW q \in Names, NEW a \in Accounts, TakeBack(q, a) PROVE FALSE
  BY <1>4 DEF TakeBack
<1>5. ASSUME NEW q \in Names, NEW who, Cancel(q, who) \/ Cleanup(q) PROVE FALSE
  BY <1>5 DEF Cancel, Cleanup, NoProposal
<1>6. CASE UNCHANGED proposals
  BY <1>6
<1> QED
  BY <1>1, <1>2, <1>3, <1>4, <1>5, <1>6
  DEF Next, Unapprove, Deny, vars, history, Tick, NewBoard, Invalidate, BlockAction

(* No approval is executed that its giver has taken back, denied or         *)
(* invalidated, nor one for an earlier proposal of the same name, nor that  *)
(* of a former custodian: for any number of accounts, boards and proposals. *)
THEOREM LastWordCorrect == ASSUME MsigAssumption PROVE Spec => LastWordCounts
<1>1. Init => Clocked /\ Words
  <2>1. Init => Words
    BY DEF Init, Words, Meant, Counts
  <2> QED
    BY <2>1, InitClocked
<1>2. Clocked /\ Words /\ [Next]_vars => (Clocked /\ Words)'
  BY NextClocked, NextWords
<1>3. Clocked /\ Words /\ [Next]_vars
        => [\A p \in Names : Executes(p) => Agreed(word[p])]_vars
  <2>1. SUFFICES ASSUME Clocked, Words, [Next]_vars, NEW p \in Names, Executes(p)
                 PROVE  Agreed(word[p])
    OBVIOUS
  <2>2. Exec(p)
    BY <2>1, ExecutesOnly
  <2>3. \A a \in Accounts : Counts(provided[p][a], invals[a]) => word[p][a] = "for"
    BY <2>1, <2>2 DEF Words, Meant, Exec
  <2>4. Cardinality({a \in Accounts : Counts(provided[p][a], invals[a])} \cap board) >= Threshold
    BY <2>2 DEF Exec, Authorized, Approvals
  <2>5. board \in Boards
    BY <2>1 DEF Clocked
  <2> QED
    BY <2>3, <2>4, <2>5, AuthorizedAgreed DEF Agreed
<1> QED
  BY <1>1, <1>2, <1>3, PTL DEF Spec, LastWordCounts

-----------------------------------------------------------------------------
(* While nothing upset a pending proposal: its earliest time is set exactly *)
(* while the approvals suffice, and the words have sufficed for the delay   *)
(* before it.                                                               *)
Timed(p) ==
  IF proposals[p].earliest = Never THEN ~Authorized(provided[p])
  ELSE /\ Authorized(provided[p])
       /\ ready[p] \in Nat
       /\ ready[p] + proposals[p].delay <= proposals[p].earliest

Delayed ==
  /\ ready \in [Names -> Nat \cup {Never}]
  /\ \A p \in Names : ready[p] <= now
  /\ \A p \in Names \ upset : Pending(p) => Timed(p)

(* Approvals that suffice still do when there are more of them. *)
LEMMA AuthorizedMore ==
  ASSUME MsigAssumption, board \in Boards, NEW given, NEW more,
         \A a \in Accounts : Counts(given[a], invals[a]) => Counts(more[a], invals[a]),
         Authorized(given)
  PROVE  Authorized(more)
<1> DEFINE A == Approvals(given) \cap board
           B == Approvals(more) \cap board
<1>1. A \subseteq B /\ B \subseteq Accounts
  BY DEF Approvals, MsigAssumption
<1>2. IsFiniteSet(B)
  BY <1>1, FS_Subset DEF MsigAssumption
<1>3. IsFiniteSet(A) /\ Cardinality(A) <= Cardinality(B)
  BY <1>1, <1>2, FS_Subset
<1>4. Cardinality(A) \in Nat /\ Cardinality(B) \in Nat /\ Threshold \in Nat
  BY <1>2, <1>3, FS_CardinalityType DEF MsigAssumption
<1>5. Cardinality(A) >= Threshold
  BY DEF Authorized
<1> HIDE DEF A, B
<1>6. Cardinality(B) >= Threshold
  BY <1>3, <1>4, <1>5
<1> QED
  BY <1>6 DEF B, Authorized

LEMMA AuthorizedWords ==
  ASSUME MsigAssumption, Clocked, NEW given, NEW words,
         \A a \in Accounts : Counts(given[a], invals[a]) => words[a] = "for",
         Authorized(given)
  PROVE  Agreed(words)
<1>1. board \in Boards
  BY DEF Clocked
<1>2. Cardinality({a \in Accounts : Counts(given[a], invals[a])} \cap board) >= Threshold
  BY DEF Authorized, Approvals
<1>3. Cardinality({a \in board : words[a] = "for"}) >= Threshold
  BY <1>1, <1>2, AuthorizedAgreed
<1> QED
  BY <1>3 DEF Agreed

(* A new proposal has no approvals. *)
LEMMA NoneAuthorized ==
  ASSUME MsigAssumption, Threshold > 0, NEW given, \A a \in Accounts : given[a] = Never
  PROVE  ~Authorized(given)
<1>1. Approvals(given) \cap board = {}
  BY DEF Approvals, Counts
<1>2. Cardinality(Approvals(given) \cap board) = 0
  BY <1>1, FS_EmptySet
<1> QED
  BY <1>2 DEF Authorized, MsigAssumption

(* Steps that leave the other proposals, and the board, alone. *)
LEMMA OthersTimed ==
  ASSUME Delayed, NEW p \in Names,
         \A q \in Names \ {p} : /\ proposals'[q] = proposals[q]
                                /\ provided'[q] = provided[q]
                                /\ ready'[q] = ready[q]
                                /\ q \in upset <=> q \in upset',
         board' = board, invals' = invals, now' = now,
         ready' \in [Names -> Nat \cup {Never}], ready'[p] <= now,
         Pending(p)' /\ p \notin upset' => Timed(p)'
  PROVE  Delayed'
<1>1. ASSUME NEW q \in Names \ {p}, q \notin upset', Pending(q)' PROVE Timed(q)'
  <2>1. q \notin upset /\ Pending(q)
    BY <1>1 DEF Pending
  <2>2. Timed(q)
    BY <2>1 DEF Delayed
  <2> QED
    BY <2>2 DEF Timed, Authorized, Approvals, Counts
<1> QED
  BY <1>1 DEF Delayed

LEMMA ApproveDelayed ==
  ASSUME MsigAssumption, Clocked, Words, Delayed, NEW p \in Names, NEW a \in Accounts,
         Approve(p, a)
  PROVE  Delayed'
<1> DEFINE given == [provided[p] EXCEPT ![a] = now]
           words == [word[p] EXCEPT ![a] = "for"]
           e == IF proposals[p].earliest = Never /\ Authorized(given)
                THEN now + proposals[p].delay ELSE proposals[p].earliest
<1>1. /\ provided' = [provided EXCEPT ![p] = given]
      /\ proposals' = [proposals EXCEPT ![p] = [proposals[p] EXCEPT !.earliest = e]]
      /\ ready' = [ready EXCEPT ![p] = Since(p, words)]
      /\ upset' = upset /\ board' = board /\ invals' = invals
      /\ Pending(p) /\ provided[p][a] = Never
  BY DEF Approve, Says
<1>2. /\ provided[p] \in [Accounts -> Int] /\ word[p] \in [Accounts -> {"none", "for", "against"}]
      /\ now \in Nat /\ proposals[p] \in Rows /\ board \in Boards
      /\ proposals \in [Names -> Rows] /\ provided \in [Names -> [Accounts -> Int]]
  BY DEF Clocked
<1>3. \A b \in Accounts : Counts(given[b], invals[b]) => words[b] = "for"
  BY <1>1, <1>2 DEF Words, Meant
<1>4. \A b \in Accounts : Counts(provided[p][b], invals[b]) => Counts(given[b], invals[b])
  BY <1>1, <1>2 DEF Counts
<1>5. Authorized(given) => Agreed(words)
  BY <1>3, AuthorizedWords
<1>6. Authorized(provided[p]) => Authorized(given)
  BY <1>2, <1>4, AuthorizedMore
<1>7. ready[p] \in Nat \cup {Never}
  BY DEF Delayed
<1>8. Since(p, words) \in Nat \cup {Never} /\ (Agreed(words) => Since(p, words) \in Nat)
      /\ (Agreed(words) /\ ready[p] # Never => Since(p, words) = ready[p])
  BY <1>2, <1>7 DEF Since, Never
<1>9. p \notin upset => Timed(p)
  BY <1>1 DEF Delayed
<1> HIDE DEF given, words
<1>10. /\ provided'[p] = given /\ ready'[p] = Since(p, words)
       /\ proposals'[p].earliest = e /\ proposals'[p].delay = proposals[p].delay
       /\ proposals[p].delay \in Nat /\ proposals[p].earliest \in Nat \cup {Never}
  BY <1>1, <1>2 DEF Rows, Delayed
<1>11. Since(p, words) <= now
  BY <1>2 DEF Since, Never, Delayed
<1>12. p \notin upset => Timed(p)'
  <2> SUFFICES ASSUME p \notin upset PROVE Timed(p)'
    OBVIOUS
  <2>1. Authorized(provided[p])' <=> Authorized(given)
    BY <1>1, <1>10 DEF Authorized, Approvals
  <2>2. CASE proposals[p].earliest = Never /\ Authorized(given)
    <3>1. Since(p, words) \in Nat /\ Since(p, words) <= now
      BY <2>2, <1>5, <1>8, <1>11
    <3> QED
      BY <3>1, <2>1, <2>2, <1>10, <1>2 DEF Timed, Never
  <2>3. CASE proposals[p].earliest = Never /\ ~Authorized(given)
    BY <2>1, <2>3, <1>10 DEF Timed
  <2>4. CASE proposals[p].earliest # Never
    <3>1. /\ Authorized(given) /\ ready[p] \in Nat
          /\ ready[p] + proposals[p].delay <= proposals[p].earliest
      BY <1>6, <1>9, <2>4 DEF Timed
    <3>2. Since(p, words) = ready[p]
      BY <3>1, <1>5, <1>8 DEF Never
    <3> QED
      BY <3>1, <3>2, <2>1, <2>4, <1>10 DEF Timed
  <2> QED
    BY <2>2, <2>3, <2>4
<1>13. \A q \in Names \ {p} : proposals'[q] = proposals[q] /\ provided'[q] = provided[q]
                              /\ ready'[q] = ready[q]
  BY <1>1, <1>2 DEF Delayed
<1>14. ready' \in [Names -> Nat \cup {Never}] /\ ready'[p] <= now
  BY <1>1, <1>8, <1>10, <1>11 DEF Delayed
<1>15. now' = now
  BY DEF Approve
<1> QED
  BY <1>1, <1>12, <1>13, <1>14, <1>15, OthersTimed

LEMMA TakeBackDelayed ==
  ASSUME MsigAssumption, Clocked, Words, Delayed, NEW p \in Names, NEW a \in Accounts,
         TakeBack(p, a)
  PROVE  Delayed'
<1> DEFINE given == [provided[p] EXCEPT ![a] = Never]
           words == [word[p] EXCEPT ![a] = "against"]
           e == IF Authorized(given) THEN proposals[p].earliest ELSE Never
<1>1. /\ provided' = [provided EXCEPT ![p] = given]
      /\ proposals' = [proposals EXCEPT ![p] = [proposals[p] EXCEPT !.earliest = e]]
      /\ ready' = [ready EXCEPT ![p] = Since(p, words)]
      /\ upset' = upset /\ board' = board /\ invals' = invals /\ now' = now
      /\ Pending(p)
  BY DEF TakeBack, Says
<1>2. /\ provided[p] \in [Accounts -> Int] /\ word[p] \in [Accounts -> {"none", "for", "against"}]
      /\ now \in Nat /\ proposals[p] \in Rows /\ board \in Boards
      /\ proposals \in [Names -> Rows] /\ provided \in [Names -> [Accounts -> Int]]
  BY DEF Clocked
<1>3. \A b \in Accounts : Counts(given[b], invals[b]) => words[b] = "for"
  BY <1>1, <1>2 DEF Words, Meant, Counts
<1>4. \A b \in Accounts : Counts(given[b], invals[b]) => Counts(provided[p][b], invals[b])
  BY <1>1, <1>2 DEF Counts
<1>5. Authorized(given) => Agreed(words)
  BY <1>3, AuthorizedWords
<1>6. Authorized(given) => Authorized(provided[p])
  BY <1>2, <1>4, AuthorizedMore
<1>7. ready[p] \in Nat \cup {Never} /\ ready[p] <= now
  BY DEF Delayed
<1>8. Since(p, words) \in Nat \cup {Never}
      /\ (Agreed(words) /\ ready[p] # Never => Since(p, words) = ready[p])
  BY <1>2, <1>7 DEF Since, Never
<1>9. p \notin upset => Timed(p)
  BY <1>1 DEF Delayed
<1> HIDE DEF given, words
<1>10. /\ provided'[p] = given /\ ready'[p] = Since(p, words)
       /\ proposals'[p].earliest = e /\ proposals'[p].delay = proposals[p].delay
       /\ proposals[p].delay \in Nat /\ proposals[p].earliest \in Nat \cup {Never}
  BY <1>1, <1>2 DEF Rows, Delayed
<1>11. Since(p, words) <= now
  BY <1>2, <1>7 DEF Since, Never
<1>12. p \notin upset => Timed(p)'
  <2> SUFFICES ASSUME p \notin upset PROVE Timed(p)'
    OBVIOUS
  <2>1. Authorized(provided[p])' <=> Authorized(given)
    BY <1>1, <1>10 DEF Authorized, Approvals
  <2>2. CASE Authorized(given)
    <3>1. /\ proposals[p].earliest # Never /\ ready[p] \in Nat
          /\ ready[p] + proposals[p].delay <= proposals[p].earliest
      BY <1>6, <1>9, <2>2 DEF Timed
    <3>2. Since(p, words) = ready[p]
      BY <3>1, <2>2, <1>5, <1>8 DEF Never
    <3> QED
      BY <3>1, <3>2, <2>1, <2>2, <1>10 DEF Timed
  <2>3. CASE ~Authorized(given)
    BY <2>1, <2>3, <1>10 DEF Timed
  <2> QED
    BY <2>2, <2>3
<1>13. \A q \in Names \ {p} : proposals'[q] = proposals[q] /\ provided'[q] = provided[q]
                              /\ ready'[q] = ready[q]
  BY <1>1, <1>2 DEF Delayed
<1>14. ready' \in [Names -> Nat \cup {Never}] /\ ready'[p] <= now
  BY <1>1, <1>8, <1>10, <1>11 DEF Delayed
<1> QED
  BY <1>1, <1>12, <1>13, <1>14, OthersTimed

(* A new proposal, or one that is closed: its history is forgotten. *)
LEMMA ForgetDelayed ==
  ASSUME MsigAssumption, Clocked, Delayed, NEW p \in Names, Forgets(p),
         \A q \in Names \ {p} : proposals'[q] = proposals[q] /\ provided'[q] = provided[q],
         board' = board, invals' = invals, now' = now,
         Pending(p)' => proposals'[p].earliest = Never /\ ~Authorized(provided[p])'
  PROVE  Delayed'
<1>1. ready' \in [Names -> Nat \cup {Never}] /\ ready'[p] <= now
  BY DEF Forgets, Delayed, Never, Clocked
<1>2. \A q \in Names \ {p} : ready'[q] = ready[q] /\ (q \in upset <=> q \in upset')
  BY DEF Forgets, Delayed
<1>3. Pending(p)' => Timed(p)'
  BY DEF Timed
<1> QED
  BY <1>1, <1>2, <1>3, OthersTimed

LEMMA ProposeDelayed ==
  ASSUME MsigAssumption, Threshold > 0, Clocked, Delayed, NEW p \in Names,
         NEW who \in Accounts \cup {Referendum},
         NEW x \in Actions, NEW d \in Delays, NEW l \in Lifetimes, Propose(p, who, x, d, l)
  PROVE  Delayed'
<1>1. \A q \in Names \ {p} : proposals'[q] = proposals[q] /\ provided'[q] = provided[q]
  BY DEF Propose, Clocked
<1>2. proposals'[p].earliest = Never
  BY DEF Propose, Clocked
<1>3. \A a \in Accounts : provided'[p][a] = Never
  BY DEF Propose, Clocked
<1>4. ~Authorized(provided'[p])
  BY <1>3, NoneAuthorized
<1>5. Forgets(p) /\ board' = board /\ invals' = invals /\ now' = now
  BY DEF Propose
<1>6. ~Authorized(provided[p])'
  BY <1>4, <1>5 DEF Authorized, Approvals
<1> QED
  BY <1>1, <1>2, <1>5, <1>6, ForgetDelayed

LEMMA CloseDelayed ==
  ASSUME MsigAssumption, Clocked, Delayed, NEW p \in Names, NEW who,
         Cancel(p, who) \/ Exec(p) \/ Cleanup(p)
  PROVE  Delayed'
<1>1. \A q \in Names \ {p} : proposals'[q] = proposals[q] /\ provided'[q] = provided[q]
  BY DEF Cancel, Exec, Cleanup, Clocked
<1>2. ~Pending(p)'
  BY DEF Cancel, Exec, Cleanup, Clocked, Pending, NoProposal, Rows
<1>3. Forgets(p) /\ board' = board /\ invals' = invals /\ now' = now
  BY DEF Cancel, Exec, Cleanup
<1> QED
  BY <1>1, <1>2, <1>3, ForgetDelayed

LEMMA NextDelayed ==
  ASSUME MsigAssumption, Threshold > 0, Clocked, Words, Delayed, [Next]_vars
  PROVE  Delayed'
<1>1. CASE Tick
  <2>1. \A p \in Names : ready[p] <= now'
    BY <1>1 DEF Tick, Clocked, Delayed, Never
  <2> QED
    BY <1>1, <2>1 DEF Tick, history, Delayed, Timed, Pending, Authorized, Approvals, Counts
<1>2. ASSUME NEW b \in Boards, NewBoard(b) PROVE Delayed'
  BY <1>2 DEF NewBoard, Delayed, Pending
<1>3. ASSUME NEW a \in Accounts, Invalidate(a) PROVE Delayed'
  BY <1>3 DEF Invalidate, Delayed, Pending
<1>4. ASSUME NEW x \in Actions, BlockAction(x) PROVE Delayed'
  BY <1>4 DEF BlockAction, history, Delayed, Timed, Pending, Authorized, Approvals, Counts
<1>5. CASE UNCHANGED vars
  BY <1>5 DEF vars, history, Delayed, Timed, Pending, Authorized, Approvals, Counts
<1> QED
  BY <1>1, <1>2, <1>3, <1>4, <1>5, ProposeDelayed, ApproveDelayed, TakeBackDelayed,
     CloseDelayed DEF Next, Unapprove, Deny

(* The delay of a proposal is kept, whatever is approved, taken back and    *)
(* approved again, as long as no board changes and nobody invalidates what  *)
(* was approved.  A permission's threshold is never 0.                      *)
THEOREM DelayCorrect == ASSUME MsigAssumption, Threshold > 0 PROVE Spec => DelayKept
<1>1. Init => Clocked /\ Words /\ Delayed
  <2>1. Init => Words
    BY DEF Init, Words, Meant, Counts
  <2>2. Init => Delayed
    BY DEF Init, Delayed, Pending, NoProposal, Never
  <2> QED
    BY <2>1, <2>2, InitClocked
<1>2. Clocked /\ Words /\ Delayed /\ [Next]_vars => (Clocked /\ Words /\ Delayed)'
  BY NextClocked, NextWords, NextDelayed
<1>3. Clocked /\ Words /\ Delayed /\ [Next]_vars
        => [\A p \in Names \ upset :
              Executes(p) => ready[p] # Never /\ ready[p] + proposals[p].delay <= now]_vars
  <2>1. SUFFICES ASSUME Clocked, Delayed, [Next]_vars, NEW p \in Names \ upset, Executes(p)
                 PROVE  ready[p] # Never /\ ready[p] + proposals[p].delay <= now
    OBVIOUS
  <2>2. Exec(p)
    BY <2>1, ExecutesOnly
  <2>3. Timed(p)
    BY <2>1, <2>2 DEF Delayed, Exec
  <2>4. proposals[p].earliest # Never /\ proposals[p].earliest <= now
    BY <2>2, <2>3 DEF Exec, Timed
  <2>5. proposals[p].delay \in Nat /\ proposals[p].earliest \in Nat \cup {Never} /\ now \in Nat
    BY <2>1 DEF Clocked, Rows
  <2> QED
    BY <2>3, <2>4, <2>5 DEF Timed, Never
<1> QED
  BY <1>1, <1>2, <1>3, PTL DEF Spec, DelayKept

-----------------------------------------------------------------------------
(* Airdrops *)

Confs == [stage : {"none", "open", "approved"}, type : {"sendable", "claimable"},
          total : Nat, received : Nat, sent : Nat]
Lists == [Receivers -> Nat]

(* What one row promises and has paid: an approved list is split between    *)
(* the paid and the listed, nothing is paid before the approval, and        *)
(* nothing is sent before all the money is there.                           *)
Sound(conf, list, goal, given) ==
  /\ conf \in Confs /\ list \in Lists /\ goal \in Lists /\ given \in Lists
  /\ conf.stage = "approved" =>
       /\ \A r \in Receivers : given[r] + list[r] = goal[r]
       /\ conf.sent + Airdrops!Owed(list) = Airdrops!Owed(goal)
  /\ conf.stage # "approved" => given = Airdrops!Nothing /\ conf.sent = 0
  /\ conf.stage = "none" => conf.received = 0
  /\ conf.received <= conf.total
  /\ conf.sent > 0 => conf.received = conf.total

SentBy == [d \in Ids |-> confs[d].sent]
ReceivedBy == [d \in Ids |-> confs[d].received]

Banked ==
  /\ DOMAIN confs = Ids /\ DOMAIN lists = Ids /\ DOMAIN promised = Ids /\ DOMAIN paid = Ids
  /\ \A d \in Ids : Sound(confs[d], lists[d], promised[d], paid[d])
  /\ held \in Nat /\ left \in Int
  /\ held + Total(SentBy, Ids) = left + Total(ReceivedBy, Ids)

(* The instance takes totals as TotalsTheorems does. *)
LEMMA AirdropsTotal == \A f, S : Airdrops!Total(f, S) = Total(f, S)
BY DEF Airdrops!Total, Airdrops!Units, Airdrops!Copies, Total, Units, Copies,
       Airdrops!Cardinality, Cardinality, Airdrops!IsFiniteSet, IsFiniteSet

LEMMA OwedNat ==
  ASSUME NEW list \in Lists
  PROVE  Airdrops!Owed(list) \in Nat
BY AirdropsAssumption, AirdropsTotal, TotalNat DEF AirdropsAssumption, Airdrops!Owed, Lists

(* Two functions of the ids that differ at d only *)
OneDiffers(f, g, d) ==
  /\ d \in Ids
  /\ \A e \in Ids : f[e] \in Nat /\ g[e] \in Nat
  /\ \A e \in Ids \ {d} : f[e] = g[e]

LEMMA SumsDiffer ==
  \A f, g, d : OneDiffers(f, g, d) => Total(g, Ids) + f[d] = Total(f, Ids) + g[d]
BY AirdropsAssumption, TotalPoint DEF AirdropsAssumption, OneDiffers

(* A step that replaces what is kept of one distribution keeps the books if *)
(* the new row is sound and what it moves is moved in the balance too.      *)
LEMMA OneMoved ==
  ASSUME Banked, NEW d \in Ids,
         /\ DOMAIN confs' = Ids /\ DOMAIN lists' = Ids
         /\ DOMAIN promised' = Ids /\ DOMAIN paid' = Ids,
         \A e \in Ids \ {d} : /\ confs'[e] = confs[e] /\ lists'[e] = lists[e]
                              /\ promised'[e] = promised[e] /\ paid'[e] = paid[e],
         Sound(confs'[d], lists'[d], promised'[d], paid'[d]),
         held' \in Nat, left' \in Int,
         (held' + confs'[d].sent) - (held + confs[d].sent) =
           (left' + confs'[d].received) - (left + confs[d].received)
  PROVE  Banked'
<1>1. \A e \in Ids : Sound(confs'[e], lists'[e], promised'[e], paid'[e])
  BY DEF Banked
<1>2. \A e \in Ids : /\ SentBy[e] \in Nat /\ ReceivedBy[e] \in Nat
                     /\ SentBy'[e] \in Nat /\ ReceivedBy'[e] \in Nat
  BY <1>1 DEF Banked, Sound, Confs, SentBy, ReceivedBy
<1>3. \A e \in Ids \ {d} : SentBy[e] = SentBy'[e] /\ ReceivedBy[e] = ReceivedBy'[e]
  BY DEF SentBy, ReceivedBy
<1>4. IsFiniteSet(Ids)
  BY AirdropsAssumption DEF AirdropsAssumption
<1>5. Total(SentBy', Ids) + SentBy[d] =
        Total(SentBy, Ids) + SentBy'[d]
  <2>1. \A e \in Ids : SentBy[e] \in Nat /\ SentBy'[e] \in Nat
    BY <1>2
  <2>2. \A e \in Ids \ {d} : SentBy[e] = SentBy'[e]
    BY <1>3
  <2> QED
    <3>1. OneDiffers(SentBy, SentBy', d)
      BY <2>1, <2>2 DEF OneDiffers
    <3> QED
      BY <3>1, SumsDiffer
<1>6. Total(ReceivedBy', Ids) + ReceivedBy[d] =
        Total(ReceivedBy, Ids) + ReceivedBy'[d]
  <2>1. \A e \in Ids : ReceivedBy[e] \in Nat /\ ReceivedBy'[e] \in Nat
    BY <1>2
  <2>2. \A e \in Ids \ {d} : ReceivedBy[e] = ReceivedBy'[e]
    BY <1>3
  <2> QED
    <3>1. OneDiffers(ReceivedBy, ReceivedBy', d)
      BY <2>1, <2>2 DEF OneDiffers
    <3> QED
      BY <3>1, SumsDiffer
<1>7. /\ Total(SentBy, Ids) \in Nat /\ Total(SentBy', Ids) \in Nat
      /\ Total(ReceivedBy, Ids) \in Nat /\ Total(ReceivedBy', Ids) \in Nat
  BY <1>2, <1>4, TotalNat
<1>8. /\ SentBy[d] = confs[d].sent /\ SentBy'[d] = confs'[d].sent
      /\ ReceivedBy[d] = confs[d].received /\ ReceivedBy'[d] = confs'[d].received
  BY DEF SentBy, ReceivedBy
<1>9. held + Total(SentBy, Ids) = left + Total(ReceivedBy, Ids) /\ held \in Nat /\ left \in Int
  BY DEF Banked
<1>10. held' + Total(SentBy', Ids) = left' + Total(ReceivedBy', Ids)
  BY <1>2, <1>5, <1>6, <1>7, <1>8, <1>9
<1> QED
  BY <1>1, <1>10 DEF Banked

LEMMA BankedInit == ASSUME Airdrops!Init PROVE Banked
<1>1. IsFiniteSet(Ids) /\ IsFiniteSet(Receivers)
  BY AirdropsAssumption DEF AirdropsAssumption
<1>2. Total(SentBy, Ids) = 0 /\ Total(ReceivedBy, Ids) = 0
  <2>1. \A d \in Ids : SentBy[d] = 0 /\ ReceivedBy[d] = 0
    BY DEF Airdrops!Init, Airdrops!NoConf, SentBy, ReceivedBy
  <2> QED
    BY <1>1, <2>1, TotalZero
<1>3. \A d \in Ids : Sound(confs[d], lists[d], promised[d], paid[d])
  BY DEF Airdrops!Init, Sound, Airdrops!NoConf, Airdrops!Nothing, Confs, Lists
<1> QED
  BY <1>2, <1>3 DEF Airdrops!Init, Banked

LEMMA RegDistriBanked ==
  ASSUME Banked, NEW d \in Ids, NEW type \in {"sendable", "claimable"},
         NEW total \in Sums, Airdrops!RegDistri(d, type, total)
  PROVE  Banked'
<1>1. Sound(confs[d], lists[d], promised[d], paid[d]) /\ total \in Nat
  BY AirdropsAssumption DEF Banked, AirdropsAssumption
<1>2. confs'[d] = [stage |-> "open", type |-> type, total |-> total, received |-> 0, sent |-> 0]
  BY DEF Airdrops!RegDistri, Banked
<1>3. Sound(confs'[d], lists'[d], promised'[d], paid'[d])
  BY <1>1, <1>2 DEF Airdrops!RegDistri, Sound, Confs
<1>4. /\ confs[d].sent = 0 /\ confs[d].received = 0
      /\ confs'[d].sent = 0 /\ confs'[d].received = 0
  BY <1>1, <1>2 DEF Airdrops!RegDistri, Sound
<1>5. held \in Nat /\ left \in Int /\ held' = held /\ left' = left
  BY DEF Airdrops!RegDistri, Banked
<1> QED
  BY <1>3, <1>4, <1>5, OneMoved DEF Airdrops!RegDistri, Banked

LEMMA UnregDistriBanked ==
  ASSUME Banked, NEW d \in Ids, Airdrops!UnregDistri(d)
  PROVE  Banked'
<1>1. Sound(confs[d], lists[d], promised[d], paid[d])
  BY DEF Banked
<1>2. /\ confs'[d] = Airdrops!NoConf /\ lists'[d] = lists[d]
      /\ promised'[d] = Airdrops!Nothing /\ paid'[d] = Airdrops!Nothing
  BY DEF Airdrops!UnregDistri, Banked
<1>3. Sound(confs'[d], lists'[d], promised'[d], paid'[d])
  BY <1>1, <1>2 DEF Sound, Airdrops!NoConf, Airdrops!Nothing, Confs, Lists
<1>4. /\ confs[d].sent \in Nat /\ confs[d].received \in Nat
      /\ confs'[d].sent = 0 /\ confs'[d].received = 0
  BY <1>1, <1>2 DEF Sound, Airdrops!NoConf, Confs
<1>5. /\ held \in Nat /\ left \in Int /\ held' = held
      /\ left' = left + confs[d].received - confs[d].sent
  BY DEF Airdrops!UnregDistri, Banked
<1>6. (held' + confs'[d].sent) - (held + confs[d].sent) =
           (left' + confs'[d].received) - (left + confs[d].received)
  BY <1>4, <1>5
<1> QED
  BY <1>3, <1>4, <1>5, <1>6, OneMoved DEF Airdrops!UnregDistri, Banked

LEMMA ReceiveBanked ==
  ASSUME Banked, NEW d \in Ids, NEW amount \in 1..Supply,
         Airdrops!Receive(d, amount)
  PROVE  Banked'
<1>1. Sound(confs[d], lists[d], promised[d], paid[d]) /\ amount \in Nat
  BY AirdropsAssumption DEF Banked, AirdropsAssumption
<1>2. /\ confs'[d] = [confs[d] EXCEPT !.received = @ + amount]
      /\ promised'[d] = promised[d] /\ paid'[d] = paid[d] /\ lists'[d] = lists[d]
  BY DEF Airdrops!Receive, Banked
<1>3. /\ confs'[d] \in Confs /\ confs'[d].stage = confs[d].stage
      /\ confs'[d].sent = confs[d].sent /\ confs'[d].total = confs[d].total
      /\ confs'[d].received = confs[d].received + amount
  BY <1>1, <1>2 DEF Sound, Confs
<1>4. /\ confs[d].sent \in Nat /\ confs[d].received \in Nat /\ confs[d].total \in Nat
      /\ confs[d].received + amount <= confs[d].total
      /\ confs[d].stage # "none"
  BY <1>1 DEF Sound, Confs, Airdrops!Receive
<1>5. confs[d].sent = 0
  BY AirdropsAssumption, <1>1, <1>4 DEF Sound, Airdrops!Receive, AirdropsAssumption
<1>6. Sound(confs'[d], lists'[d], promised'[d], paid'[d])
  BY <1>1, <1>2, <1>3, <1>4, <1>5 DEF Sound
<1>7. /\ held \in Nat /\ left \in Int /\ held' = held + amount /\ left' = left
  BY DEF Airdrops!Receive, Banked
<1> QED
  BY <1>1, <1>3, <1>4, <1>6, <1>7, OneMoved DEF Airdrops!Receive, Banked

LEMMA ApproveBanked ==
  ASSUME Banked, NEW d \in Ids, Airdrops!Approve(d)
  PROVE  Banked'
<1>1. Sound(confs[d], lists[d], promised[d], paid[d])
  BY DEF Banked
<1>2. /\ confs'[d] = [confs[d] EXCEPT !.stage = "approved"]
      /\ promised'[d] = lists[d] /\ paid'[d] = paid[d] /\ lists'[d] = lists[d]
  BY DEF Airdrops!Approve, Banked
<1>3. /\ confs'[d] \in Confs /\ confs'[d].stage = "approved"
      /\ confs'[d].sent = confs[d].sent /\ confs'[d].total = confs[d].total
      /\ confs'[d].received = confs[d].received
  BY <1>1, <1>2 DEF Sound, Confs
<1>4. /\ confs[d].sent = 0 /\ paid[d] = Airdrops!Nothing
      /\ confs[d].received \in Nat
  BY <1>1 DEF Sound, Airdrops!Approve, Confs
<1>5. \A r \in Receivers : paid[d][r] + lists[d][r] = lists[d][r]
  BY <1>1, <1>4 DEF Sound, Airdrops!Nothing, Lists
<1>6. Airdrops!Owed(lists[d]) \in Nat
  BY <1>1, OwedNat DEF Sound
<1>7. Sound(confs'[d], lists'[d], promised'[d], paid'[d])
  BY <1>1, <1>2, <1>3, <1>4, <1>5, <1>6 DEF Sound
<1>8. /\ held \in Nat /\ left \in Int /\ held' = held /\ left' = left
  BY DEF Airdrops!Approve, Banked
<1> QED
  BY <1>3, <1>4, <1>7, <1>8, OneMoved DEF Airdrops!Approve, Banked

(* Only the list changes, and only before the approval. *)
LEMMA ListBanked ==
  ASSUME Banked, NEW d \in Ids, confs[d].stage = "open",
         NEW list \in Lists, lists' = [lists EXCEPT ![d] = list],
         UNCHANGED <<confs, held, promised, paid, left>>
  PROVE  Banked'
<1>1. Sound(confs[d], lists[d], promised[d], paid[d])
  BY DEF Banked
<1>2. /\ lists'[d] = list
      /\ confs'[d] = confs[d] /\ promised'[d] = promised[d] /\ paid'[d] = paid[d]
  BY DEF Banked
<1>3. Sound(confs'[d], lists'[d], promised'[d], paid'[d])
  BY <1>1, <1>2 DEF Sound
<1>4. confs[d].sent \in Nat /\ confs[d].received \in Nat
  BY <1>1 DEF Sound, Confs
<1>5. /\ held \in Nat /\ left \in Int
  BY DEF Banked
<1> QED
  BY <1>2, <1>3, <1>4, <1>5, OneMoved DEF Banked

LEMMA PopulatedType ==
  ASSUME NEW list \in Lists, NEW drops \in Lists, NEW allowModify
  PROVE  Airdrops!Populated(list, drops, allowModify) \in Lists
<1>1. \A r \in Receivers : drops[r] \in Nat /\ list[r] \in Nat
  BY DEF Lists
<1>2. \A r \in Receivers :
        (IF drops[r] > 0 /\ (list[r] = 0 \/ allowModify) THEN drops[r] ELSE list[r]) \in Nat
  BY <1>1, Zenon
<1> QED
  BY <1>2, Zenon DEF Airdrops!Populated, Lists

LEMMA PopulateBanked ==
  ASSUME Banked, NEW d \in Ids,
         NEW drops \in [Receivers -> Amounts \cup {0}], NEW allowModify \in BOOLEAN,
         Airdrops!Populate(d, drops, allowModify)
  PROVE  Banked'
<1>1. lists[d] \in Lists
  BY DEF Banked, Sound
<1>2. drops \in Lists
  <2>1. Amounts \cup {0} \subseteq Nat
    BY AirdropsAssumption DEF AirdropsAssumption
  <2> QED
    BY <2>1, Zenon DEF Lists
<1>3. Airdrops!Populated(lists[d], drops, allowModify) \in Lists
  BY <1>1, <1>2, PopulatedType
<1> QED
  BY <1>3, ListBanked DEF Airdrops!Populate

LEMMA EmptyBanked ==
  ASSUME Banked, NEW d \in Ids, NEW batch, Airdrops!Empty(d, batch)
  PROVE  Banked'
<1>1. lists[d] \in Lists
  BY DEF Banked, Sound
<1>2. Airdrops!Without(lists[d], Airdrops!FirstOf(Airdrops!Listed(d), batch)) \in Lists
  BY <1>1 DEF Airdrops!Without, Lists
<1> QED
  BY <1>2, ListBanked DEF Airdrops!Empty

(* A payment moves amounts from the list to what was paid. *)
LEMMA PayBanked ==
  ASSUME Banked, NEW d \in Ids, confs[d].stage = "approved", Airdrops!Funded(d),
         NEW rows, Airdrops!Pay(d, rows)
  PROVE  Banked'
<1> DEFINE out == [r \in Receivers |-> IF r \in rows THEN lists[d][r] ELSE 0]
           rest == Airdrops!Without(lists[d], rows)
           given == [r \in Receivers |-> paid[d][r] + out[r]]
<1>1. Sound(confs[d], lists[d], promised[d], paid[d])
  BY DEF Banked
<1>2. /\ held >= Airdrops!Owed(out)
      /\ held' = held - Airdrops!Owed(out)
      /\ confs'[d] = [confs[d] EXCEPT !.sent = @ + Airdrops!Owed(out)]
      /\ lists'[d] = rest
      /\ paid'[d] = given
      /\ promised'[d] = promised[d]
  BY DEF Airdrops!Pay, Banked
<1>3. out \in Lists /\ rest \in Lists /\ given \in Lists
  BY <1>1 DEF Sound, Lists, Airdrops!Without
<1>4. \A r \in Receivers :
        /\ out[r] \in Nat /\ rest[r] \in Nat
        /\ lists[d][r] = rest[r] + out[r]
        /\ given[r] = paid[d][r] + out[r]
        /\ paid[d][r] \in Nat
  BY <1>1 DEF Sound, Lists, Airdrops!Without
<1>5. DOMAIN confs' = Ids /\ DOMAIN lists' = Ids /\ DOMAIN promised' = Ids /\ DOMAIN paid' = Ids
  BY DEF Airdrops!Pay, Banked
<1>6. \A e \in Ids \ {d} : /\ confs'[e] = confs[e] /\ lists'[e] = lists[e]
                           /\ promised'[e] = promised[e] /\ paid'[e] = paid[e]
  BY DEF Airdrops!Pay, Banked
<1>7. left' = left
  BY DEF Airdrops!Pay
<1> HIDE DEF out, rest, given
<1>8. Airdrops!Owed(lists[d]) = Airdrops!Owed(rest) + Airdrops!Owed(out)
  <2>1. IsFiniteSet(Receivers)
    BY AirdropsAssumption DEF AirdropsAssumption
  <2> QED
    BY <1>4, <2>1, AirdropsTotal, TotalPlus DEF Airdrops!Owed
<1>9. Airdrops!Owed(out) \in Nat /\ Airdrops!Owed(rest) \in Nat /\ Airdrops!Owed(promised[d]) \in Nat
  BY <1>1, <1>3, OwedNat DEF Sound
<1>10. /\ confs'[d] \in Confs /\ confs'[d].stage = "approved"
       /\ confs'[d].total = confs[d].total
       /\ confs'[d].received = confs[d].received
       /\ confs'[d].sent = confs[d].sent + Airdrops!Owed(out)
       /\ confs[d].sent \in Nat /\ confs[d].received \in Nat
  BY <1>1, <1>2, <1>9 DEF Sound, Confs
<1>11. confs'[d].sent + Airdrops!Owed(rest) = Airdrops!Owed(promised[d])
  BY <1>1, <1>8, <1>9, <1>10 DEF Sound
<1>12. \A r \in Receivers : given[r] + rest[r] = promised[d][r]
  BY <1>1, <1>4 DEF Sound
<1>13. confs[d].received = confs[d].total
  BY DEF Airdrops!Funded
<1>14. Sound(confs'[d], lists'[d], promised'[d], paid'[d])
  BY <1>1, <1>2, <1>3, <1>10, <1>11, <1>12, <1>13 DEF Sound
<1>15. held \in Nat /\ left \in Int
  BY DEF Banked
<1>16. held' \in Nat /\ (held' + confs'[d].sent) - (held + confs[d].sent) =
           (left' + confs'[d].received) - (left + confs[d].received)
  BY <1>2, <1>7, <1>9, <1>10, <1>15
<1> QED
  BY <1>5, <1>6, <1>7, <1>14, <1>15, <1>16, OneMoved

LEMMA BankedNext ==
  ASSUME Banked, [Airdrops!Next]_(Airdrops!vars)
  PROVE  Banked'
<1>1. CASE UNCHANGED Airdrops!vars
  BY <1>1 DEF Airdrops!vars, Banked, SentBy, ReceivedBy
<1>2. ASSUME NEW d \in Ids, NEW type \in {"sendable", "claimable"}, NEW total \in Sums,
             Airdrops!RegDistri(d, type, total)
      PROVE  Banked'
  BY <1>2, RegDistriBanked
<1>3. ASSUME NEW d \in Ids, Airdrops!UnregDistri(d) \/ Airdrops!Approve(d) PROVE Banked'
  BY <1>3, UnregDistriBanked, ApproveBanked
<1>4. ASSUME NEW d \in Ids, NEW amount \in 1..Supply, Airdrops!Receive(d, amount)
      PROVE  Banked'
  BY <1>4, ReceiveBanked
<1>5. ASSUME NEW d \in Ids, NEW drops \in [Receivers -> Amounts \cup {0}],
             NEW allowModify \in BOOLEAN, Airdrops!Populate(d, drops, allowModify)
      PROVE  Banked'
  BY <1>5, PopulateBanked
<1>6. ASSUME NEW d \in Ids, NEW batch, Airdrops!Empty(d, batch) PROVE Banked'
  BY <1>6, EmptyBanked
<1>7. ASSUME NEW d \in Ids, NEW batch, Airdrops!Send(d, batch) PROVE Banked'
  BY <1>7, PayBanked DEF Airdrops!Send
<1>8. ASSUME NEW d \in Ids, NEW r, Airdrops!Claim(d, r) PROVE Banked'
  BY <1>8, PayBanked DEF Airdrops!Claim
<1> QED
  BY <1>1, <1>2, <1>3, <1>4, <1>5, <1>6, <1>7, <1>8 DEF Airdrops!Next

LEMMA BankedAlways == Airdrops!Spec => []Banked
<1>1. Airdrops!Init => Banked
  BY BankedInit
<1>2. Banked /\ [Airdrops!Next]_(Airdrops!vars) => Banked'
  BY BankedNext
<1> QED
  BY <1>1, <1>2, PTL DEF Airdrops!Spec

LEMMA BankedPaid == ASSUME Banked PROVE Airdrops!PaidAsApproved
BY DEF Banked, Sound, Airdrops!PaidAsApproved

LEMMA BankedPayable == ASSUME Banked PROVE Airdrops!Payable
<1>1. ASSUME NEW d \in Ids, confs[d].stage = "approved", Airdrops!Owed(promised[d]) <= confs[d].total
      PROVE  /\ confs[d].sent <= confs[d].received
             /\ Airdrops!Funded(d) => Airdrops!Owed(lists[d]) <= confs[d].received - confs[d].sent
  <2>1. Sound(confs[d], lists[d], promised[d], paid[d])
    BY DEF Banked
  <2>2. Airdrops!Owed(lists[d]) \in Nat /\ Airdrops!Owed(promised[d]) \in Nat
    BY <2>1, OwedNat DEF Sound
  <2>3. /\ confs[d].sent \in Nat /\ confs[d].received \in Nat /\ confs[d].total \in Nat
        /\ confs[d].sent + Airdrops!Owed(lists[d]) = Airdrops!Owed(promised[d])
        /\ confs[d].sent > 0 => confs[d].received = confs[d].total
    BY <1>1, <2>1 DEF Sound, Confs
  <2> QED
    BY <1>1, <2>2, <2>3 DEF Airdrops!Funded
<1> QED
  BY <1>1, AirdropsTotal
  DEF Banked, Airdrops!Payable, Airdrops!Sent, Airdrops!Received, SentBy, ReceivedBy

(* In whatever order batches are sent and parts are claimed, and whatever   *)
(* is populated or registered meanwhile, receivers get what was approved,   *)
(* and get it once (distribution: send, claim).                             *)
THEOREM PaidAsApprovedCorrect == Airdrops!Spec => []PaidAsApproved
<1>1. Banked => PaidAsApproved
  BY BankedPaid DEF PaidAsApproved
<1> QED
  BY <1>1, BankedAlways, PTL

(* The one balance covers what came in and was not sent, for any number of  *)
(* distributions, and a funded list that does not exceed its total can be   *)
(* paid out of its own money (distribution: receive, send, unregdistri).    *)
THEOREM PayableCorrect == Airdrops!Spec => []Payable
<1>1. Banked => Payable
  BY BankedPayable DEF Payable
<1> QED
  BY <1>1, BankedAlways, PTL

-----------------------------------------------------------------------------
(* The directory of DACs *)

(* Rows have owners; NFTs that a DAC counts are its owner's or burnt; two   *)
(* DACs of one owner share their caches.                                    *)
Filed ==
  /\ Directory!TypeOK
  /\ \A d \in Ids : Directory!Registered(d) => dacs[d].owner \in Owners
  /\ \A d, e \in Ids :
        /\ Directory!Registered(d) /\ Directory!Registered(e)
        /\ d # e /\ dacs[d].owner = dacs[e].owner
        => d \in mixed
  /\ Directory!CacheFollowsOwner

(* An owner with a DAC has a smallest id among its DACs. *)
LEMMA SmallestFound ==
  ASSUME NEW o, Directory!DacForOwner(o) = {}
  PROVE  Directory!OwnedBy(o) = {}
<1> SUFFICES ASSUME Directory!OwnedBy(o) # {} PROVE FALSE
  OBVIOUS
<1>1. Directory!OwnedBy(o) \subseteq Nat
  BY DirectoryAssumption DEF Directory!OwnedBy, DirectoryAssumption
<1>2. IsWellFoundedOn(OpToRel(<, Nat), Nat)
  BY NatLessThanWellFounded
<1>3. PICK d \in Directory!OwnedBy(o) : \A e \in Directory!OwnedBy(o) : ~(<<e, d>> \in OpToRel(<, Nat))
  BY <1>1, <1>2, WFMin
<1>4. \A e \in Directory!OwnedBy(o) : ~(e < d)
  BY <1>1, <1>3 DEF OpToRel
<1>5. \A e \in Directory!OwnedBy(o) : d <= e
  BY <1>1, <1>4
<1> QED
  BY <1>5 DEF Directory!DacForOwner

LEMMA FiledInit == ASSUME Directory!Init PROVE Filed
BY DEF Directory!Init, Filed, Directory!TypeOK, Directory!Dacs, Directory!Links,
     Directory!NoDac, Directory!CacheFollowsOwner, Directory!Registered

(* Steps that leave ids, owners, caches and NFTs alone. *)
LEMMA AlikeFiled ==
  ASSUME Filed, Directory!TypeOK',
         \A d \in Ids : /\ Directory!Registered(d)' <=> Directory!Registered(d)
                        /\ dacs'[d].owner = dacs[d].owner,
         UNCHANGED <<caches, holder, mixed>>
  PROVE  Filed'
BY DEF Filed, Directory!CacheFollowsOwner, Directory!Registered

LEMMA DescribeFiled ==
  ASSUME Filed, NEW d \in Ids, NEW text \in Texts \cup {NoName}, Directory!Describe(d, text)
  PROVE  Filed'
<1>1. Directory!TypeOK'
  <2>1. dacs \in [Ids -> Directory!Dacs]
    BY DEF Filed, Directory!TypeOK
  <2>2. dacs' \in [Ids -> Directory!Dacs]
    BY <2>1 DEF Directory!Dacs, Directory!Describe
  <2> QED
    BY <2>2 DEF Filed, Directory!TypeOK, Directory!Describe
<1>2. \A e \in Ids : /\ Directory!Registered(e)' <=> Directory!Registered(e)
                     /\ dacs'[e].owner = dacs[e].owner
  BY DEF Filed, Directory!TypeOK, Directory!Describe, Directory!Registered
<1> QED
  BY <1>1, <1>2, AlikeFiled DEF Directory!Describe

LEMMA AccountSet ==
  ASSUME NEW rows \in [Ids -> Directory!Dacs], NEW d \in Ids, NEW t \in Types,
         NEW a \in Owners \cup {NoName}, NEW new, new = [rows EXCEPT ![d].accounts[t] = a]
  PROVE  /\ new \in [Ids -> Directory!Dacs]
         /\ \A e \in Ids : (new[e].row <=> rows[e].row) /\ new[e].owner = rows[e].owner
BY DEF Directory!Dacs

LEMMA AccountFiled ==
  ASSUME Filed, NEW d \in Ids, NEW t \in Types,
         Directory!UnregAccount(d, t) \/ \E a \in Owners : Directory!RegAccount(d, a, t)
  PROVE  Filed'
<1>1. dacs \in [Ids -> Directory!Dacs]
  BY DEF Filed, Directory!TypeOK
<1>2. PICK a \in Owners \cup {NoName} : dacs' = [dacs EXCEPT ![d].accounts[t] = a]
  BY DEF Directory!UnregAccount, Directory!RegAccount
<1>3. /\ dacs' \in [Ids -> Directory!Dacs]
      /\ \A e \in Ids : (dacs'[e].row <=> dacs[e].row) /\ dacs'[e].owner = dacs[e].owner
  BY <1>1, <1>2, AccountSet
<1>4. UNCHANGED <<socials, caches, holder, mixed>>
  BY DEF Directory!UnregAccount, Directory!RegAccount
<1>5. Directory!TypeOK'
  BY <1>3, <1>4 DEF Filed, Directory!TypeOK
<1> QED
  BY <1>3, <1>4, <1>5, AlikeFiled DEF Directory!Registered

LEMMA StatusFiled ==
  ASSUME Filed, NEW d \in Ids, NEW active \in BOOLEAN, Directory!SetStatus(d, active)
  PROVE  Filed'
<1>1. Directory!TypeOK'
  <2>1. dacs \in [Ids -> Directory!Dacs]
    BY DEF Filed, Directory!TypeOK
  <2>2. dacs' \in [Ids -> Directory!Dacs]
    BY <2>1 DEF Directory!Dacs, Directory!SetStatus
  <2> QED
    BY <2>2 DEF Filed, Directory!TypeOK, Directory!SetStatus
<1>2. \A e \in Ids : /\ Directory!Registered(e)' <=> Directory!Registered(e)
                     /\ dacs'[e].owner = dacs[e].owner
  BY DEF Filed, Directory!TypeOK, Directory!SetStatus, Directory!Registered
<1> QED
  BY <1>1, <1>2, AlikeFiled DEF Directory!SetStatus

LEMMA SocialsFiled ==
  ASSUME Filed, NEW d \in Ids,
         \/ Directory!HdleGovChg(d)
         \/ \E active \in BOOLEAN : Directory!SetSocials(d, active)
         \/ \E link \in Texts : Directory!SetSocialLnk(d, link)
  PROVE  Filed'
<1>1. Directory!TypeOK'
  <2>1. socials \in [Ids -> Directory!Links]
    BY DEF Filed, Directory!TypeOK
  <2>2. socials' \in [Ids -> Directory!Links]
    BY <2>1 DEF Directory!Links, Directory!HdleGovChg, Directory!SetSocials,
         Directory!SetSocialLnk
  <2> QED
    BY <2>2 DEF Filed, Directory!TypeOK, Directory!HdleGovChg, Directory!SetSocials,
         Directory!SetSocialLnk
<1>2. dacs' = dacs /\ UNCHANGED <<caches, holder, mixed>>
  BY DEF Directory!HdleGovChg, Directory!SetSocials, Directory!SetSocialLnk
<1> QED
  BY <1>1, <1>2, AlikeFiled DEF Directory!Registered

(* The cache of an id that nobody has registered is empty unless it is      *)
(* mixed.                                                                   *)
LEMMA RegDacFiled ==
  ASSUME Filed, NEW d \in Ids, NEW o \in Owners, NEW symbol \in Symbols,
         NEW text \in Texts, NEW accounts \in [Types -> Owners \cup {NoName}],
         Directory!RegDac(d, o, symbol, text, accounts)
  PROVE  Filed'
<1>1. Directory!OwnedBy(o) = {}
  BY SmallestFound DEF Directory!RegDac
<1>2. Directory!TypeOK'
  BY DEF Filed, Directory!TypeOK, Directory!Dacs, Directory!RegDac
<1>3. \A e \in Ids \ {d} : dacs'[e] = dacs[e]
  BY DEF Filed, Directory!TypeOK, Directory!RegDac
<1>4. Directory!Registered(d)' /\ dacs'[d].owner = o
  BY DEF Filed, Directory!TypeOK, Directory!RegDac, Directory!Registered
<1>5. ~Directory!Registered(d) /\ UNCHANGED <<caches, holder, mixed>>
  BY DEF Directory!RegDac
<1>6. \A e \in Ids : Directory!Registered(e) => dacs[e].owner # o
  BY <1>1 DEF Directory!OwnedBy
<1>7. \A e \in Ids \ {d} : Directory!Registered(e)' <=> Directory!Registered(e)
  BY <1>3 DEF Directory!Registered
<1>8. d \notin mixed => caches[d] = {}
  BY <1>5 DEF Filed, Directory!TypeOK, Directory!CacheFollowsOwner
<1> QED
  BY <1>2, <1>3, <1>4, <1>5, <1>6, <1>7, <1>8 DEF Filed, Directory!CacheFollowsOwner

LEMMA UnregDacFiled ==
  ASSUME Filed, NEW d \in Ids, Directory!UnregDac(d)
  PROVE  Filed'
<1>1. Directory!TypeOK'
  BY DEF Filed, Directory!TypeOK, Directory!Dacs, Directory!UnregDac, Directory!NoDac
<1>2. \A e \in Ids \ {d} : dacs'[e] = dacs[e]
  BY DEF Filed, Directory!TypeOK, Directory!UnregDac
<1>3. ~Directory!Registered(d)' /\ d \in mixed' /\ mixed \subseteq mixed'
  BY DEF Filed, Directory!TypeOK, Directory!UnregDac, Directory!Registered, Directory!NoDac
<1>4. \A e \in Ids \ {d} : Directory!Registered(e)' <=> Directory!Registered(e)
  BY <1>2 DEF Directory!Registered
<1>5. UNCHANGED <<caches, holder>>
  BY DEF Directory!UnregDac
<1> QED
  BY <1>1, <1>2, <1>3, <1>4, <1>5 DEF Filed, Directory!CacheFollowsOwner

LEMMA SetOwnerFiled ==
  ASSUME Filed, NEW d \in Ids, NEW o \in Owners, Directory!SetOwner(d, o)
  PROVE  Filed'
<1>1. Directory!TypeOK'
  <2>1. dacs \in [Ids -> Directory!Dacs]
    BY DEF Filed, Directory!TypeOK
  <2>2. dacs' \in [Ids -> Directory!Dacs]
    BY <2>1 DEF Directory!Dacs, Directory!SetOwner
  <2> QED
    BY <2>2 DEF Filed, Directory!TypeOK, Directory!SetOwner, Directory!OwnedBy
<1>2. \A e \in Ids \ {d} : dacs'[e] = dacs[e]
  BY DEF Filed, Directory!TypeOK, Directory!SetOwner
<1>3. Directory!Registered(d)' /\ dacs'[d].owner = o
  BY DEF Filed, Directory!TypeOK, Directory!SetOwner, Directory!Registered
<1>4. d \in mixed' /\ mixed \subseteq mixed' /\ Directory!OwnedBy(o) \subseteq mixed'
  BY DEF Directory!SetOwner
<1>5. \A e \in Ids \ {d} : Directory!Registered(e)' <=> Directory!Registered(e)
  BY <1>2 DEF Directory!Registered
<1>6. UNCHANGED <<caches, holder>>
  BY DEF Directory!SetOwner
<1>7. \A e \in Ids \ {d} : Directory!Registered(e)' /\ dacs'[e].owner = o => e \in mixed'
  BY <1>2, <1>4, <1>5 DEF Directory!OwnedBy
<1> QED
  BY <1>1, <1>2, <1>3, <1>4, <1>5, <1>6, <1>7 DEF Filed, Directory!CacheFollowsOwner

(* What a notice does to the caches. *)
LEMMA Upserted ==
  ASSUME NEW n, NEW old, NEW new, NEW d \in Ids, NEW x
  PROVE  x \in Directory!UpsertNft(caches, n, old, new)[d] <=>
           \/ x = n /\ d \in Directory!DacForOwner(new)
           \/ x \in caches[d] /\ ~(x = n /\ d \in Directory!DacForOwner(old))
BY DEF Directory!UpsertNft

LEMMA LogMintFiled ==
  ASSUME Filed, NEW n \in Nfts, NEW o \in Owners, Directory!LogMint(n, o)
  PROVE  Filed'
<1>1. caches' \in [Ids -> SUBSET Nfts]
  BY DEF Filed, Directory!TypeOK, Directory!LogMint, Directory!UpsertNft
<1>2. Directory!TypeOK'
  BY <1>1 DEF Filed, Directory!TypeOK, Directory!LogMint
<1>3. dacs' = dacs /\ mixed' = mixed
  BY DEF Directory!LogMint
<1>4. holder'[n] = o /\ \A x \in Nfts \ {n} : holder'[x] = holder[x]
  BY DEF Filed, Directory!TypeOK, Directory!LogMint
<1>5. ASSUME NEW d \in Ids \ mixed, NEW x \in caches'[d]
      PROVE  Directory!Registered(d) /\ holder'[x] \in {dacs[d].owner, NoName}
  <2>1. caches' = Directory!UpsertNft(caches, n, NoName, o)
    BY DEF Directory!LogMint
  <2>2. (x = n /\ d \in Directory!DacForOwner(o)) \/ x \in caches[d]
    BY <1>5, <2>1, Upserted
  <2>3. CASE x = n /\ d \in Directory!DacForOwner(o)
    BY <1>4, <2>3 DEF Directory!DacForOwner, Directory!OwnedBy
  <2>4. CASE x \in caches[d]
    <3>1. x # n /\ x \in Nfts
      BY <2>4 DEF Directory!LogMint, Filed, Directory!TypeOK
    <3> QED
      BY <1>4, <2>4, <3>1 DEF Filed, Directory!CacheFollowsOwner
  <2> QED
    BY <2>2, <2>3, <2>4
<1> QED
  BY <1>2, <1>3, <1>5 DEF Filed, Directory!CacheFollowsOwner, Directory!Registered

LEMMA LogTransferFiled ==
  ASSUME Filed, NEW n \in Nfts, NEW o \in Owners, Directory!LogTransfer(n, o)
  PROVE  Filed'
<1>1. caches' \in [Ids -> SUBSET Nfts]
  BY DEF Filed, Directory!TypeOK, Directory!LogTransfer, Directory!UpsertNft
<1>2. Directory!TypeOK'
  BY <1>1 DEF Filed, Directory!TypeOK, Directory!LogTransfer
<1>3. dacs' = dacs /\ mixed' = mixed
  BY DEF Directory!LogTransfer
<1>4. holder'[n] = o /\ \A x \in Nfts \ {n} : holder'[x] = holder[x]
  BY DEF Filed, Directory!TypeOK, Directory!LogTransfer
<1>5. holder[n] # NoName
  BY DEF Directory!LogTransfer
<1>6. ASSUME NEW d \in Ids \ mixed, NEW x \in caches'[d]
      PROVE  Directory!Registered(d) /\ holder'[x] \in {dacs[d].owner, NoName}
  <2>1. caches' = Directory!UpsertNft(caches, n, holder[n], o)
    BY DEF Directory!LogTransfer
  <2>2. \/ x = n /\ d \in Directory!DacForOwner(o)
        \/ x \in caches[d] /\ ~(x = n /\ d \in Directory!DacForOwner(holder[n]))
    BY <1>6, <2>1, Upserted
  <2>3. CASE x = n /\ d \in Directory!DacForOwner(o)
    BY <1>4, <2>3 DEF Directory!DacForOwner, Directory!OwnedBy
  <2>4. CASE x \in caches[d] /\ x # n
    <3>1. x \in Nfts
      BY <2>4 DEF Filed, Directory!TypeOK
    <3> QED
      BY <1>4, <2>4, <3>1 DEF Filed, Directory!CacheFollowsOwner
  <2>5. CASE x \in caches[d] /\ x = n /\ d \notin Directory!DacForOwner(holder[n])
    <3>1. Directory!Registered(d) /\ holder[n] = dacs[d].owner
      BY <1>5, <2>5 DEF Filed, Directory!CacheFollowsOwner
    <3>2. d \in Directory!OwnedBy(holder[n])
      BY <3>1 DEF Directory!OwnedBy
    <3>3. PICK e \in Directory!OwnedBy(holder[n]) : ~(d <= e)
      BY <2>5, <3>2 DEF Directory!DacForOwner
    <3>4. e # d
      BY DirectoryAssumption, <3>3 DEF DirectoryAssumption
    <3> QED
      BY <3>1, <3>3, <3>4 DEF Filed, Directory!OwnedBy
  <2> QED
    BY <2>2, <2>3, <2>4, <2>5
<1> QED
  BY <1>2, <1>3, <1>6 DEF Filed, Directory!CacheFollowsOwner, Directory!Registered

LEMMA BurnNftFiled ==
  ASSUME Filed, NEW n \in Nfts, Directory!BurnNft(n)
  PROVE  Filed'
<1>1. Directory!TypeOK'
  BY DEF Filed, Directory!TypeOK, Directory!BurnNft
<1>2. \A x \in Nfts : holder'[x] \in {holder[x], NoName}
  BY DEF Filed, Directory!TypeOK, Directory!BurnNft
<1>3. UNCHANGED <<dacs, caches, mixed>>
  BY DEF Directory!BurnNft
<1>4. \A d \in Ids : caches[d] \subseteq Nfts
  BY DEF Filed, Directory!TypeOK
<1> QED
  BY <1>1, <1>2, <1>3, <1>4 DEF Filed, Directory!CacheFollowsOwner, Directory!Registered

LEMMA FiledNext ==
  ASSUME Filed, [Directory!Next]_(Directory!vars)
  PROVE  Filed'
<1>1. CASE UNCHANGED Directory!vars
  BY <1>1 DEF Directory!vars, Filed, Directory!TypeOK, Directory!CacheFollowsOwner,
       Directory!Registered
<1>2. ASSUME NEW d \in Ids, NEW o \in Owners, NEW s \in Symbols, NEW text \in Texts,
             NEW accounts \in [Types -> Owners \cup {NoName}], Directory!RegDac(d, o, s,
             text, accounts)
      PROVE  Filed'
  BY <1>2, RegDacFiled
<1>3. ASSUME NEW d \in Ids, NEW o \in Owners, Directory!SetOwner(d, o) PROVE Filed'
  BY <1>3, SetOwnerFiled
<1>4. ASSUME NEW d \in Ids, NEW text \in Texts,
             Directory!RegDacAgain(d, text) \/ Directory!SetTitle(d, text) \/ Directory!RegRef(d, text)
      PROVE  Filed'
  BY <1>4, DescribeFiled DEF Directory!RegDacAgain, Directory!SetTitle, Directory!RegRef
<1>5. ASSUME NEW d \in Ids, Directory!UnregRef(d) PROVE Filed'
  BY <1>5, DescribeFiled DEF Directory!UnregRef
<1>6. ASSUME NEW d \in Ids, NEW text \in Texts, Directory!SetSocialLnk(d, text) PROVE Filed'
  BY <1>6, SocialsFiled
<1>7. ASSUME NEW d \in Ids, NEW t \in Types,
             Directory!UnregAccount(d, t) \/ \E a \in Owners : Directory!RegAccount(d, a, t)
      PROVE  Filed'
  BY <1>7, AccountFiled
<1>8. ASSUME NEW d \in Ids, NEW active \in BOOLEAN, Directory!SetStatus(d, active)
      PROVE  Filed'
  BY <1>8, StatusFiled
<1>9. ASSUME NEW d \in Ids, NEW active \in BOOLEAN, Directory!SetSocials(d, active)
      PROVE  Filed'
  BY <1>9, SocialsFiled
<1>10. ASSUME NEW d \in Ids, Directory!UnregDac(d) \/ Directory!HdleGovChg(d) PROVE Filed'
  BY <1>10, UnregDacFiled, SocialsFiled
<1>11. ASSUME NEW n \in Nfts, Directory!BurnNft(n) PROVE Filed'
  BY <1>11, BurnNftFiled
<1>12. ASSUME NEW n \in Nfts, NEW o \in Owners, Directory!LogMint(n, o) \/ Directory!LogTransfer(n, o)
       PROVE  Filed'
  BY <1>12, LogMintFiled, LogTransferFiled
<1> QED
  BY <1>1, <1>2, <1>3, <1>4, <1>5, <1>6, <1>7, <1>8, <1>9, <1>10, <1>11, <1>12
       DEF Directory!Next

LEMMA FiledAlways == Directory!Spec => []Filed
<1>1. Directory!Init => Filed
  BY FiledInit
<1>2. Filed /\ [Directory!Next]_(Directory!vars) => Filed'
  BY FiledNext
<1> QED
  BY <1>1, <1>2, PTL DEF Directory!Spec

(* Notices of mints and transfers keep each budget NFT in the cache of its  *)
(* owner's DAC alone, however DACs come, go and change hands; where one     *)
(* owner has two DACs, or an id is used again, the cache is shared          *)
(* (dacdirectory: upsert_nft, setowner, unregdac).                          *)
THEOREM CacheCorrect == Directory!Spec => []CacheFollowsOwner
<1>1. Filed => CacheFollowsOwner
  BY DEF Filed, CacheFollowsOwner
<1> QED
  BY <1>1, FiledAlways, PTL

===============================================================================
