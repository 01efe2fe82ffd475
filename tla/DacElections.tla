----------------------------- MODULE DacElections -----------------------------
(***************************************************************************)
(* One DAC's elections (daccustodian): newperiod first elects a pending    *)
(* board and, after a delay, seats it as the custodians and hands them the *)
(* permissions of the DAC's account; custodians may resign at any time.    *)
(*                                                                         *)
(* newperiod also pays the board that leaves: that is left to a module of   *)
(* the treasury, on state that nothing here reads.                          *)
(*                                                                         *)
(* The votes are DacVoting's. An election sees two things of them, which   *)
(* are inputs here: the candidates with votes in the order of their rank,  *)
(* and the turnout in percent of the token's supply.                       *)
(*                                                                         *)
(* newperiod compares the head block's time with the last seating and the  *)
(* last election; the state keeps those two ages, each up to the age at    *)
(* which no comparison tells it from an older one.                         *)
(***************************************************************************)
EXTENDS Naturals, FiniteSets

(* Operators named Operation_Slip are slips one could make in Operation; no *)
(* specification uses them.                                                 *)

CONSTANTS
  Accounts,       \* accounts that stand for election
  MsigOwned,      \* an MSIGOWNED account (the msig contract shares the powers)
  Activation,     \* an ACTIVATION account decides instead of the turnout
  Governances,    \* the settings that setdaogov is called with
  ShortestPeriod, \* setperiodlen's bounds
  LongestPeriod,
  InitialQuorum,  \* globals.initial_vote_quorum_percent
  VoteQuorum,     \* globals.vote_quorum_percent
  Turnouts        \* the turnouts that occur, in percent

(* setdaogov also lets the threshold 0 through: no authority can then be    *)
(* set, by newperiod or resigncust, until setdaogov is called again.        *)
ASSUME ElectionsAssumption ==
  /\ IsFiniteSet(Accounts)
  /\ MsigOwned \in BOOLEAN /\ Activation \in BOOLEAN
  /\ Governances # {}
  /\ Governances \subseteq [numelected : Nat, threshold : Nat \ {0}]
  /\ \A g \in Governances : g.threshold < g.numelected
  /\ ShortestPeriod \in Nat /\ LongestPeriod \in Nat
  /\ ShortestPeriod <= LongestPeriod
  /\ InitialQuorum \in Nat /\ VoteQuorum \in Nat
  /\ Turnouts \subseteq Nat

VARIABLES
  standing,       \* the active candidates
  custodians,     \* the custodians table
  pending,        \* the pendingcusts table
  sincePeriod,    \* seconds since lastperiodtime
  sincePending,   \* seconds since pending_period_time
  activated,      \* met_initial_votes_threshold
  gov,            \* numelected and the auth thresholds
  periodlength,   \* globals.periodlength
  pendingDelay,   \* globals.pending_period_delay
  auth,           \* the custodians' permissions on the DAC's account
  socialsActive,  \* dacdirectory's socials_active
  resigned,       \* history: who resigned and did not stand again
  boardAmended,   \* history: setdaogov since the board was elected
  pendingAmended  \* history: setdaogov since the pending board was elected

electionVars ==
  <<standing, custodians, pending, activated, auth, socialsActive>>
configVars == <<gov, periodlength, pendingDelay>>
ageVars == <<sincePeriod, sincePending>>
historyVars == <<resigned, boardAmended, pendingAmended>>
vars == <<electionVars, configVars, ageVars, historyVars>>

-----------------------------------------------------------------------------
(* A pending delay is at most a period, so later ages are all alike. *)
OldPending == LongestPeriod
OldPeriod == 2 * LongestPeriod + 1
OneOlder(age, old) == IF age < old THEN age + 1 ELSE old

Rankings ==
  {r \in UNION {[1 .. n -> Accounts] : n \in 0 .. Cardinality(Accounts)} :
      \A i, j \in DOMAIN r : r[i] = r[j] => i = j}

(* prepareCustodians walks the ranking and takes the first numelected       *)
(* candidates that are active.                                              *)
StandingBefore(ranking, i) == {j \in 1 .. i - 1 : ranking[j] \in standing}

Elected(ranking) ==
  {ranking[i] : i \in {j \in DOMAIN ranking :
     /\ ranking[j] \in standing
     /\ Cardinality(StandingBefore(ranking, j)) < gov.numelected}}

(* The turnout that newperiod asks for. *)
QuorumMet(turnout) ==
  \/ Activation
  \/ /\ activated \/ turnout > InitialQuorum
     /\ turnout > VoteQuorum

(* setMsigAuths for a board: updateauth refuses an authority whose accounts *)
(* weigh less than its threshold; the msig contract alone weighs as much.   *)
(* An empty board changes nothing: no updateauth is sent.                   *)
AuthAccepted_Anything(board) == TRUE

AuthAccepted(board) ==
  board # {} /\ ~MsigOwned => Cardinality(board) >= gov.threshold

AuthFor_Kept(board) == auth

AuthFor(board) ==
  IF board = {} /\ ~MsigOwned THEN auth
  ELSE [holders |-> board, threshold |-> gov.threshold]

-----------------------------------------------------------------------------
Init ==
  /\ standing = {}
  /\ custodians = {}
  /\ pending = {}
  /\ sincePeriod = OldPeriod
  /\ sincePending = OldPending
  /\ activated = FALSE
  /\ gov \in Governances
  /\ periodlength \in ShortestPeriod .. LongestPeriod
  /\ pendingDelay \in 0 .. periodlength
  /\ auth = [holders |-> {}, threshold |-> 0]
  /\ socialsActive = FALSE
  /\ resigned = {}
  /\ boardAmended = FALSE
  /\ pendingAmended = FALSE

Tick ==
  /\ sincePeriod' = OneOlder(sincePeriod, OldPeriod)
  /\ sincePending' = OneOlder(sincePending, OldPending)
  /\ UNCHANGED <<electionVars, configVars, historyVars>>

-----------------------------------------------------------------------------
(* Candidates (what DacVoting says of their stake and membership is left    *)
(* to it)                                                                   *)

Nominate(c) ==
  /\ c \notin standing
  /\ standing' = standing \cup {c}
  /\ resigned' = resigned \ {c}
  /\ UNCHANGED <<custodians, pending, activated, auth, socialsActive,
                 configVars, ageVars, boardAmended, pendingAmended>>

(* A custodian that withdraws as a candidate stays in office, and one that  *)
(* waits to be seated will be.                                              *)
Withdraw(c) ==
  /\ c \in standing
  /\ standing' = standing \ {c}
  /\ UNCHANGED <<custodians, pending, activated, auth, socialsActive,
                 configVars, ageVars, historyVars>>

-----------------------------------------------------------------------------
(* newperiod: with no board pending it elects one ... *)

Prepare_Fewer(ranking, turnout) ==
  /\ pending = {}
  /\ QuorumMet(turnout)
  /\ sincePeriod > periodlength
  /\ pending' = Elected(ranking)
  /\ sincePending' = 0
  /\ activated' = TRUE
  /\ pendingAmended' = FALSE
  /\ UNCHANGED <<standing, custodians, auth, socialsActive, configVars,
                 sincePeriod, resigned, boardAmended>>

Prepare_AnyTime(ranking, turnout) ==
  /\ pending = {}
  /\ QuorumMet(turnout)
  /\ Cardinality(Elected(ranking)) = gov.numelected
  /\ pending' = Elected(ranking)
  /\ sincePending' = 0
  /\ activated' = TRUE
  /\ pendingAmended' = FALSE
  /\ UNCHANGED <<standing, custodians, auth, socialsActive, configVars,
                 sincePeriod, resigned, boardAmended>>

Prepare(ranking, turnout) ==
  /\ pending = {}
  /\ QuorumMet(turnout)
  /\ sincePeriod > periodlength
  /\ Cardinality(Elected(ranking)) = gov.numelected
  /\ pending' = Elected(ranking)
  /\ sincePending' = 0
  /\ activated' = TRUE
  /\ pendingAmended' = FALSE
  /\ UNCHANGED <<standing, custodians, auth, socialsActive, configVars,
                 sincePeriod, resigned, boardAmended>>

(* ... and otherwise seats the one that waits, with its powers. If enough   *)
(* custodians are new to act alone, the DAC's social links are turned off   *)
(* (hdlegovchg) until the board turns them on again.                        *)
Seat(turnout) ==
  /\ pending # {}
  /\ QuorumMet(turnout)
  /\ sincePending >= pendingDelay
  /\ AuthAccepted(pending)
  /\ custodians' = pending
  /\ pending' = {}
  /\ auth' = AuthFor(pending)
  /\ socialsActive' =
       (socialsActive /\ Cardinality(pending \ custodians) < gov.threshold)
  /\ sincePeriod' = 0
  /\ activated' = TRUE
  /\ boardAmended' = pendingAmended
  /\ UNCHANGED <<standing, configVars, sincePending, resigned, pendingAmended>>

-----------------------------------------------------------------------------
(* resigncust: nobody takes the place, and the powers are those of the rest.*)

Resign_StaysPending(c) ==
  /\ c \in custodians
  /\ AuthAccepted(custodians \ {c})
  /\ custodians' = custodians \ {c}
  /\ standing' = standing \ {c}
  /\ auth' = AuthFor(custodians \ {c})
  /\ resigned' = resigned \cup {c}
  /\ UNCHANGED <<pending, activated, socialsActive, configVars, ageVars,
                 boardAmended, pendingAmended>>

Resign(c) ==
  /\ c \in custodians
  /\ AuthAccepted(custodians \ {c})
  /\ custodians' = custodians \ {c}
  /\ pending' = pending \ {c}
  /\ standing' = standing \ {c}
  /\ auth' = AuthFor(custodians \ {c})
  /\ resigned' = resigned \cup {c}
  /\ UNCHANGED <<activated, socialsActive, configVars, ageVars, boardAmended,
                 pendingAmended>>

-----------------------------------------------------------------------------
(* The DAC's own settings *)

SetDaoGov(g) ==
  /\ gov' = g
  /\ boardAmended' = (boardAmended \/ custodians # {})
  /\ pendingAmended' = (pending # {})
  /\ UNCHANGED <<electionVars, periodlength, pendingDelay, ageVars, resigned>>

SetPeriodLen(p) ==
  /\ pendingDelay <= p
  /\ periodlength' = p
  /\ UNCHANGED <<electionVars, gov, pendingDelay, ageVars, historyVars>>

SetPendDelay_Unbounded(d) ==
  /\ pendingDelay' = d
  /\ UNCHANGED <<electionVars, gov, periodlength, ageVars, historyVars>>

SetPendDelay(d) ==
  /\ d <= periodlength
  /\ pendingDelay' = d
  /\ UNCHANGED <<electionVars, gov, periodlength, ageVars, historyVars>>

SetSocials(on) ==
  /\ socialsActive' = on
  /\ UNCHANGED <<standing, custodians, pending, activated, auth, configVars,
                 ageVars, historyVars>>

-----------------------------------------------------------------------------
NewPeriod ==
  \E turnout \in Turnouts :
    \/ \E ranking \in Rankings : Prepare(ranking, turnout)
    \/ Seat(turnout)

Next ==
  \/ Tick
  \/ NewPeriod
  \/ \E c \in Accounts : Nominate(c) \/ Withdraw(c) \/ Resign(c)
  \/ \E g \in Governances : SetDaoGov(g)
  \/ \E p \in ShortestPeriod .. LongestPeriod : SetPeriodLen(p)
  \/ \E d \in 0 .. LongestPeriod : SetPendDelay(d)
  \/ \E on \in BOOLEAN : SetSocials(on)

Spec == Init /\ [][Next]_vars

(* Anyone may call newperiod, "by design", and nothing in the contracts     *)
(* calls it: assumed is that somebody goes on calling it until a call that  *)
(* can seat a waiting board finds a turnout that lets it.                   *)
FairSpec ==
  Spec /\ WF_vars(Tick) /\ WF_vars(\E turnout \in Turnouts : Seat(turnout))

-----------------------------------------------------------------------------
(* Properties *)

TypeOK ==
  /\ standing \subseteq Accounts
  /\ custodians \subseteq Accounts
  /\ pending \subseteq Accounts
  /\ sincePeriod \in 0 .. OldPeriod
  /\ sincePending \in 0 .. OldPending
  /\ activated \in BOOLEAN
  /\ gov \in Governances
  /\ periodlength \in ShortestPeriod .. LongestPeriod
  /\ pendingDelay \in 0 .. periodlength
  /\ auth \in [holders : SUBSET Accounts, threshold : Nat]
  /\ socialsActive \in BOOLEAN
  /\ resigned \subseteq Accounts
  /\ boardAmended \in BOOLEAN
  /\ pendingAmended \in BOOLEAN

(* The permissions of the DAC's account are held by the custodians in       *)
(* office, who are enough to use them, whoever resigned, was seated or had  *)
(* the settings changed in between (setMsigAuths in newperiod, resigncust). *)
AuthorityHeld ==
  custodians # {} =>
    /\ auth.holders = custodians
    /\ MsigOwned \/ Cardinality(auth.holders) >= auth.threshold

(* A board that waits can always be seated, however many custodians resign  *)
(* meanwhile from both boards: otherwise newperiod fails for ever, as a     *)
(* pending board is never dropped. This is so unless setdaogov changes the  *)
(* rules between an election and the seating.                               *)
PendingCanBeSeated ==
  pending # {} /\ ~boardAmended /\ ~pendingAmended =>
    MsigOwned \/ Cardinality(pending) >= gov.threshold

(* Who resigned neither stays in office nor comes back with the board that  *)
(* was already elected: it first has to stand again (removeCustodian).      *)
ResignedStayOut == resigned \cap (custodians \cup pending) = {}

(* Nobody becomes a custodian before the shortest period and the pending    *)
(* delay have passed since the last board was seated, however the settings  *)
(* and the resignations interleave with the two steps of newperiod.         *)
TermsLast ==
  [][\/ custodians' \subseteq custodians
     \/ sincePeriod > ShortestPeriod + pendingDelay]_vars

(* A board that waits is seated in the end, or all of it resigns, or        *)
(* setdaogov changes the rules: it never waits for ever.                    *)
PendingResolved ==
  pending # {} ~> (pending = {} \/ boardAmended \/ pendingAmended)

=============================================================================
