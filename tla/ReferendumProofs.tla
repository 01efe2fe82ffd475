-------------------------- MODULE ReferendumProofs --------------------------
(***************************************************************************)
(* What Referendum keeps true for every set of voters, every settings and  *)
(* every number of referendums: the deposits are there, the tallies are    *)
(* those of the votes, and an execution has the support it says.           *)
(***************************************************************************)
EXTENDS Referendum, TotalsTheorems

-----------------------------------------------------------------------------
(* Deposits *)

Rows == [token : Tokens \cup {NoToken}, amount : Nat]

(* What a deposit d contributes to the balance of the token t.              *)
Part(d, t) == IF d.token = t THEN d.amount ELSE 0

Banked ==
  /\ config \in Configs \cup {NoConfig}
  /\ deposits \in [Accounts -> Rows]
  /\ held \in [Tokens -> Nat]
  /\ \A a \in Accounts : deposits[a].token = NoToken => deposits[a].amount = 0
  /\ DepositsCovered

(* One account's deposit becomes d, and the balances change by what that is.*)
DepositChange(a, d) ==
  /\ deposits' = [deposits EXCEPT ![a] = d]
  /\ \A t \in Tokens : held'[t] = held[t] - Part(deposits[a], t) + Part(d, t)

LEMMA DepositBanked ==
  ASSUME ReferendumAssumption, Banked, NEW a \in Accounts, NEW d \in Rows,
         d.token = NoToken => d.amount = 0,
         DepositChange(a, d), held' \in [Tokens -> Nat],
         config' \in Configs \cup {NoConfig}
  PROVE  Banked'
<1>1. deposits' \in [Accounts -> Rows] /\ deposits' = [deposits EXCEPT ![a] = d]
  BY DEF DepositChange, Banked
<1>2. \A b \in Accounts : deposits'[b].token = NoToken => deposits'[b].amount = 0
  BY <1>1 DEF Banked
<1>3. ASSUME NEW t \in Tokens
      PROVE  held'[t] = Total(InToken(t)', Accounts)
  <2> DEFINE f == InToken(t)
             g == InToken(t)'
  <2>1. /\ \A b \in Accounts : f[b] \in Nat /\ g[b] \in Nat
        /\ \A b \in Accounts \ {a} : f[b] = g[b]
        /\ f[a] = Part(deposits[a], t) /\ g[a] = Part(d, t)
    BY <1>1 DEF InToken, Part, Rows, Banked
  <2>2. held[t] = Total(f, Accounts)
    BY DEF Banked, DepositsCovered
  <2>3. IsFiniteSet(Accounts)
    BY DEF ReferendumAssumption
  <2> HIDE DEF f, g
  <2>4. /\ Total(f, Accounts \ {a}) \in Nat
        /\ Total(f, Accounts) = Total(f, Accounts \ {a}) + f[a]
    BY <2>1, <2>3, TotalRemove
  <2>5. Total(g, Accounts) = Total(g, Accounts \ {a}) + g[a]
    BY <2>1, <2>3, TotalRemove
  <2>6. Total(f, Accounts \ {a}) = Total(g, Accounts \ {a})
    BY <2>1, TotalSame
  <2>7. held'[t] = held[t] - f[a] + g[a]
    BY <2>1 DEF DepositChange
  <2>8. held'[t] = Total(g, Accounts)
    BY <2>1, <2>2, <2>4, <2>5, <2>6, <2>7
  <2> QED
    BY <2>8 DEF g
<1>4. DepositsCovered'
  BY <1>3 DEF DepositsCovered
<1> QED
  BY <1>1, <1>2, <1>4 DEF Banked

LEMMA QuietBanked ==
  ASSUME Banked, UNCHANGED moneyVars, config' \in Configs \cup {NoConfig}
  PROVE  Banked'
BY DEF Banked, moneyVars, DepositsCovered, InToken

LEMMA ReceiveBanked ==
  ASSUME ReferendumAssumption, Banked, NEW a \in Accounts, NEW t \in Tokens, NEW n \in Nat,
         Receive(a, t, n)
  PROVE  Banked'
<1> DEFINE d == [token |-> t, amount |-> deposits[a].amount + n]
<1>1. /\ deposits' = [deposits EXCEPT ![a] = d]
      /\ held' = [held EXCEPT ![t] = @ + n]
      /\ config' = config /\ deposits[a].token \in {NoToken, t}
  BY DEF Receive
<1>2. /\ deposits[a] \in Rows /\ held \in [Tokens -> Nat] /\ t # NoToken
      /\ deposits[a].token = NoToken => deposits[a].amount = 0
      /\ config \in Configs \cup {NoConfig}
  BY DEF Banked, ReferendumAssumption
<1>3. d \in Rows /\ d.token # NoToken
  BY <1>2 DEF Rows
<1>4. held' \in [Tokens -> Nat]
  BY <1>1, <1>2
<1>5. \A u \in Tokens : held'[u] = held[u] - Part(deposits[a], u) + Part(d, u)
  BY <1>1, <1>2 DEF Part, Rows, ReferendumAssumption
<1>6. DepositChange(a, d)
  BY <1>1, <1>5 DEF DepositChange
<1> HIDE DEF d
<1> QED
  BY <1>1, <1>2, <1>3, <1>4, <1>6, DepositBanked

LEMMA RefundBanked ==
  ASSUME ReferendumAssumption, Banked, NEW a \in Accounts, Refund(a)
  PROVE  Banked'
<1> DEFINE d == deposits[a]
<1>1. /\ d \in Rows /\ held \in [Tokens -> Nat]
      /\ d.token = NoToken => d.amount = 0
      /\ config' \in Configs \cup {NoConfig}
  BY DEF Banked, Refund
<1>2. d.token \in Tokens
  <2>1. d # NoDeposit
    BY DEF Refund
  <2> QED
    BY <1>1, <2>1 DEF Rows, NoDeposit
<1>3. /\ held' = [held EXCEPT ![d.token] = @ - d.amount]
      /\ deposits' = [deposits EXCEPT ![a] = NoDeposit]
      /\ held[d.token] >= d.amount
  BY DEF Refund
<1>4. held' \in [Tokens -> Nat]
  BY <1>1, <1>2, <1>3 DEF Rows
<1>5. NoDeposit \in Rows /\ NoDeposit.amount = 0
  BY DEF NoDeposit, Rows
<1>6. \A u \in Tokens : held'[u] = held[u] - Part(d, u) + Part(NoDeposit, u)
  BY <1>1, <1>2, <1>3, <1>5 DEF Part, Rows
<1>7. DepositChange(a, NoDeposit)
  BY <1>3, <1>6 DEF DepositChange
<1> QED
  BY <1>1, <1>4, <1>5, <1>7, DepositBanked

(* A fee leaves in the token of the deposit it is taken from.               *)
LEMMA ProposeBanked ==
  ASSUME ReferendumAssumption, Banked, NEW a \in Accounts, NEW ty \in Types,
         NEW c \in Countings, Propose(a, ty, c)
  PROVE  Banked'
<1> DEFINE fee == config.fee[ty]
           e == deposits[a]
           d == IF e = fee THEN NoDeposit ELSE [token |-> fee.token, amount |-> e.amount - fee.amount]
<1>1. /\ config # NoConfig /\ config' = config /\ Charged(a, fee)
      /\ config \in Configs /\ config \in Settings
  BY DEF Propose, Banked, ReferendumAssumption
<1>2. fee.token \in Tokens /\ fee.amount \in Nat
  BY <1>1 DEF Settings
<1>3. CASE fee.amount = 0
  BY <1>1, <1>3, QuietBanked DEF Charged
<1>4. CASE fee.amount # 0
  <2>1. /\ e.token = fee.token /\ e.amount >= fee.amount
        /\ deposits' = [deposits EXCEPT ![a] = d]
        /\ held[fee.token] >= fee.amount
        /\ held' = [held EXCEPT ![fee.token] = @ - fee.amount]
    <3> HIDE DEF fee
    <3>1. /\ e.token = fee.token /\ e.amount >= fee.amount
          /\ held[fee.token] >= fee.amount
          /\ held' = [held EXCEPT ![fee.token] = @ - fee.amount]
      BY <1>1, <1>4 DEF Charged
    <3>2. deposits' = [deposits EXCEPT ![a] = d]
      BY <1>1, <1>4 DEF Charged
    <3> QED
      BY <3>1, <3>2
  <2>2. e \in Rows /\ held \in [Tokens -> Nat] /\ fee.token # NoToken
    BY <1>2 DEF Banked, ReferendumAssumption
  <2>3. /\ d \in Rows
        /\ d.token = NoToken => d.amount = 0
        /\ \A u \in Tokens : Part(d, u) = Part(e, u) - (IF u = fee.token THEN fee.amount ELSE 0)
    <3>1. CASE e = fee
      <4>1. d = NoDeposit /\ NoDeposit.token = NoToken /\ NoDeposit.amount = 0
        BY <3>1 DEF NoDeposit
      <4>2. NoDeposit \in Rows
        BY DEF NoDeposit, Rows
      <4>3. \A u \in Tokens : Part(NoDeposit, u) = 0
        BY <4>1 DEF Part
      <4>4. \A u \in Tokens : Part(e, u) = IF u = fee.token THEN fee.amount ELSE 0
        BY <3>1 DEF Part
      <4> HIDE DEF d, e, fee
      <4> QED
        BY <1>2, <4>1, <4>2, <4>3, <4>4
    <3>2. CASE e # fee
      <4>1. /\ d = [token |-> fee.token, amount |-> e.amount - fee.amount]
            /\ e.amount - fee.amount \in Nat
        BY <1>2, <2>1, <2>2, <3>2 DEF Rows
      <4> HIDE DEF d, fee, e
      <4>2. d \in Rows /\ d.token = e.token /\ d.amount = e.amount - fee.amount
        BY <1>2, <2>1, <4>1 DEF Rows
      <4> QED
        BY <1>2, <2>1, <2>2, <4>2 DEF Part, Rows
    <3> QED
      BY <3>1, <3>2
  <2>4. held' \in [Tokens -> Nat]
    BY <1>2, <2>1, <2>2
  <2> HIDE DEF d, fee
  <2>5. \A u \in Tokens : held'[u] = held[u] - Part(e, u) + Part(d, u)
    <3>1. \A u \in Tokens : held'[u] = held[u] - (IF u = fee.token THEN fee.amount ELSE 0)
      BY <1>2, <2>1, <2>2
    <3>2. \A u \in Tokens : Part(e, u) \in Nat /\ held[u] \in Nat
      BY <2>2 DEF Part, Rows
    <3> HIDE DEF e
    <3> QED
      BY <1>2, <2>3, <3>1, <3>2
  <2>6. DepositChange(a, d)
    BY <2>1, <2>5 DEF DepositChange
  <2> QED
    BY <1>1, <2>3, <2>4, <2>6, DepositBanked
<1> QED
  BY <1>3, <1>4

LEMMA InitBanked == ASSUME ReferendumAssumption, Init PROVE Banked
<1>1. /\ config = NoConfig
      /\ deposits = [a \in Accounts |-> NoDeposit]
      /\ held = [t \in Tokens |-> 0]
  BY DEF Init
<1>2. NoDeposit \in Rows /\ NoDeposit.amount = 0
  BY DEF NoDeposit, Rows
<1>3. ASSUME NEW t \in Tokens PROVE Total(InToken(t), Accounts) = 0
  <2>1. \A a \in Accounts : InToken(t)[a] = 0
    BY <1>1, <1>2 DEF InToken
  <2> QED
    BY <2>1, TotalZero DEF ReferendumAssumption
<1> QED
  BY <1>1, <1>2, <1>3 DEF Banked, DepositsCovered

LEMMA NextBanked == ASSUME ReferendumAssumption, Banked, [Next]_vars PROVE Banked'
<1>0. config \in Configs \cup {NoConfig} /\ Proposers \in SUBSET Accounts
      /\ MaxDeposit \in Nat
  BY DEF Banked, ReferendumAssumption
<1>1. ASSUME NEW a \in Proposers, NEW t \in Tokens, NEW n \in 1 .. MaxDeposit, Receive(a, t, n)
      PROVE  Banked'
  BY <1>0, <1>1, ReceiveBanked
<1>2. ASSUME NEW a \in Proposers, Refund(a) PROVE Banked'
  BY <1>0, <1>2, RefundBanked
<1>3. ASSUME NEW a \in Proposers, NEW ty \in Types, NEW c \in Countings, Propose(a, ty, c)
      PROVE  Banked'
  BY <1>0, <1>3, ProposeBanked
<1>4. CASE VoteStep
  BY <1>0, <1>4, QuietBanked DEF VoteStep, Vote, StakeChange, Clean
<1>5. CASE CloseStep
  BY <1>0, <1>5, QuietBanked
  DEF CloseStep, UpdateStatus, RmvExpired, Exec, RmvExecuted, MsigGone, Cancel, Removed
<1>6. CASE Tick \/ ClearConfig
  BY <1>0, <1>6, QuietBanked DEF Tick, ClearConfig
<1>7. ASSUME NEW c \in Configs, UpdateConfig(c) PROVE Banked'
  BY <1>7, QuietBanked DEF UpdateConfig
<1>8. CASE UNCHANGED vars
  BY <1>0, <1>8, QuietBanked DEF vars
<1> QED
  BY <1>1, <1>2, <1>3, <1>4, <1>5, <1>6, <1>7, <1>8 DEF Next, MoneyStep

(* DepositsCovered: every deposit can be paid back (receive, refund and the *)
(* fee that propose takes).                                                 *)
THEOREM DepositsCorrect == ASSUME ReferendumAssumption PROVE Spec => []DepositsCovered
<1>1. Init => Banked
  BY InitBanked
<1>2. Banked /\ [Next]_vars => Banked'
  BY NextBanked
<1>3. Banked => DepositsCovered
  BY DEF Banked
<1> QED
  BY <1>1, <1>2, <1>3, PTL DEF Spec

-----------------------------------------------------------------------------
(* Sums of stakes *)

(* All stakes together, and all accounts, are below the wrap.               *)
Fits ==
  /\ Cardinality(Accounts) < Word
  /\ \A st \in [Accounts -> 0 .. MaxStake] : Total(st, Accounts) < Word

LEMMA Wrapping ==
  ASSUME ReferendumAssumption
  PROVE  /\ \A n \in Int : Wrapped(n) \in 0 .. Word - 1
         /\ \A n \in 0 .. Word - 1 : Wrapped(n) = n
BY DEF Wrapped, ReferendumAssumption

LEMMA SumFits ==
  ASSUME ReferendumAssumption, Fits, NEW st \in [Accounts -> 0 .. MaxStake],
         NEW S \in SUBSET Accounts
  PROVE  /\ Total(st, S) \in 0 .. Word - 1
         /\ Cardinality(S) \in 0 .. Word - 1
         /\ IsFiniteSet(S)
<1>1. /\ IsFiniteSet(Accounts) /\ MaxStake \in Nat /\ Word \in Nat
      /\ \A b \in Accounts : st[b] \in Nat
  BY DEF ReferendumAssumption
<1>2. /\ IsFiniteSet(S) /\ Cardinality(S) <= Cardinality(Accounts)
      /\ Cardinality(S) \in Nat /\ Cardinality(Accounts) \in Nat
  BY <1>1, FS_Subset, FS_CardinalityType
<1>3. Total(st, S) \in Nat /\ Total(st, Accounts) \in Nat
  BY <1>1, <1>2, TotalNat
<1>4. Total(st, S) <= Total(st, Accounts)
  BY <1>1, TotalSubset
<1>5. Total(st, Accounts) < Word /\ Cardinality(Accounts) < Word
  BY DEF Fits
<1> QED
  BY <1>1, <1>2, <1>3, <1>4, <1>5

(* The account a leaves or joins those of one choice.                       *)
LEMMA RecastSum ==
  ASSUME ReferendumAssumption, Fits, NEW st \in [Accounts -> 0 .. MaxStake],
         NEW S \in SUBSET Accounts, NEW S1 \in SUBSET Accounts, NEW a \in Accounts,
         S \ {a} = S1 \ {a}
  PROVE  /\ Total(st, S1) = Total(st, S) - (IF a \in S THEN st[a] ELSE 0)
                                        + (IF a \in S1 THEN st[a] ELSE 0)
         /\ Cardinality(S1) = Cardinality(S) - (IF a \in S THEN 1 ELSE 0)
                                            + (IF a \in S1 THEN 1 ELSE 0)
<1>1. IsFiniteSet(S) /\ IsFiniteSet(S1)
  BY SumFits
<1>2. (\A b \in S : st[b] \in Nat) /\ (\A b \in S1 : st[b] \in Nat) /\ st[a] \in Nat
  BY DEF ReferendumAssumption
<1>3. /\ Total(st, S \ {a}) \in Nat
      /\ a \in S => Total(st, S) = Total(st, S \ {a}) + st[a]
      /\ a \notin S => Total(st, S) = Total(st, S \ {a})
  BY <1>1, <1>2, TotalRemove
<1>4. /\ a \in S1 => Total(st, S1) = Total(st, S1 \ {a}) + st[a]
      /\ a \notin S1 => Total(st, S1) = Total(st, S1 \ {a})
  BY <1>1, <1>2, TotalRemove
<1>5. /\ Cardinality(S \ {a}) = IF a \in S THEN Cardinality(S) - 1 ELSE Cardinality(S)
      /\ Cardinality(S1 \ {a}) = IF a \in S1 THEN Cardinality(S1) - 1 ELSE Cardinality(S1)
      /\ Cardinality(S) \in Nat /\ Cardinality(S1) \in Nat
  BY <1>1, FS_RemoveElement, FS_CardinalityType
<1>6. /\ Total(st, S1 \ {a}) = Total(st, S \ {a})
      /\ Cardinality(S1 \ {a}) = Cardinality(S \ {a})
  OBVIOUS
<1> DEFINE x == Total(st, S \ {a})
           y == Cardinality(S \ {a})
<1>7. Total(st, S1) = Total(st, S) - (IF a \in S THEN st[a] ELSE 0)
                                  + (IF a \in S1 THEN st[a] ELSE 0)
  <2>1. /\ x \in Nat
        /\ Total(st, S) = x + (IF a \in S THEN st[a] ELSE 0)
        /\ Total(st, S1) = x + (IF a \in S1 THEN st[a] ELSE 0)
    BY <1>2, <1>3, <1>4, <1>6
  <2> HIDE DEF x
  <2> QED
    BY <1>2, <2>1
<1>8. Cardinality(S1) = Cardinality(S) - (IF a \in S THEN 1 ELSE 0)
                                      + (IF a \in S1 THEN 1 ELSE 0)
  <2>1. /\ Cardinality(S) = y + (IF a \in S THEN 1 ELSE 0)
        /\ Cardinality(S1) = y + (IF a \in S1 THEN 1 ELSE 0)
    BY <1>5, <1>6
  <2>2. y \in Int
    BY <1>5
  <2> HIDE DEF y
  <2> QED
    BY <2>1, <2>2
<1> QED
  BY <1>7, <1>8

(* The stake of a becomes n.                                                *)
Restaked(st, st1, a, n) == st1 = [st EXCEPT ![a] = n]

LEMMA RestakedSum ==
  ASSUME ReferendumAssumption, Fits, NEW st \in [Accounts -> 0 .. MaxStake],
         NEW S \in SUBSET Accounts, NEW a \in Accounts, NEW n \in 0 .. MaxStake,
         NEW st1, Restaked(st, st1, a, n)
  PROVE  Total(st1, S) = Total(st, S) + (IF a \in S THEN n - st[a] ELSE 0)
<1>0. MaxStake \in Nat
  BY DEF ReferendumAssumption
<1>1. /\ st1 \in [Accounts -> 0 .. MaxStake] /\ st1[a] = n
      /\ \A b \in S \ {a} : st[b] = st1[b]
  BY DEF Restaked
<1>2. /\ IsFiniteSet(S)
      /\ \A b \in S : st[b] \in Nat
      /\ \A b \in S : st1[b] \in Nat
      /\ st[a] \in Nat /\ n \in Nat
  BY <1>0, <1>1, SumFits
<1>3. /\ Total(st, S \ {a}) \in Nat
      /\ a \in S => Total(st, S) = Total(st, S \ {a}) + st[a]
      /\ a \notin S => Total(st, S) = Total(st, S \ {a})
  BY <1>2, TotalRemove
<1>4. /\ a \in S => Total(st1, S) = Total(st1, S \ {a}) + st1[a]
      /\ a \notin S => Total(st1, S) = Total(st1, S \ {a})
  BY <1>2, TotalRemove
<1>5. Total(st, S \ {a}) = Total(st1, S \ {a})
  BY <1>1, TotalSame
<1> QED
  BY <1>1, <1>2, <1>3, <1>4, <1>5

-----------------------------------------------------------------------------
(* Rows *)

Tabled ==
  /\ config \in Configs \cup {NoConfig}
  /\ next_id \in Nat \ {0}
  /\ refs \in [Ids -> Refs]
  /\ votes \in [Accounts -> [Ids -> Keys \cup {"none"}]]
  /\ stake \in [Accounts -> 0 .. MaxStake]
  /\ stale \in SUBSET Ids

NewStatus == {"expired", "quorum.unmet", "passing", "failing"}

LEMMA StatusIs == \A r : StatusOf(r) \in NewStatus /\ (Over(r) <=> StatusOf(r) = "expired")
BY DEF StatusOf, NewStatus

(* The row r with the status st; with the tallies t and u.                  *)
WithStatus(r, st) == [r EXCEPT !.status = st]
WithTallies(r, t, u) == [r EXCEPT !.token_votes = t, !.account_votes = u]

LEMMA StatusRow ==
  ASSUME NEW r \in Refs, NEW st \in NewStatus \cup {"executed"}
  PROVE  LET z == WithStatus(r, st) IN
         /\ z \in Refs /\ z.status = st /\ z.row = r.row /\ z.type = r.type /\ z.left = r.left
         /\ z.token_votes = r.token_votes /\ z.account_votes = r.account_votes
BY DEF Refs, NewStatus, WithStatus

WithLeft(r, n) == [r EXCEPT !.left = n]

LEMMA LeftRow ==
  ASSUME NEW r \in Refs, NEW n \in Nat \cup {-1}
  PROVE  LET z == WithLeft(r, n) IN
         /\ z \in Refs /\ z.status = r.status /\ z.row = r.row /\ z.type = r.type /\ z.left = n
         /\ z.token_votes = r.token_votes /\ z.account_votes = r.account_votes
BY DEF Refs, WithLeft

LEMMA TallyRow ==
  ASSUME NEW r \in Refs, NEW t \in Tallies, NEW u \in Tallies
  PROVE  LET z == WithTallies(r, t, u) IN
         /\ z \in Refs /\ z.status = r.status /\ z.row = r.row /\ z.type = r.type /\ z.left = r.left
         /\ z.token_votes = t /\ z.account_votes = u
BY DEF Refs, WithTallies

LEMMA NoRefRow ==
  ASSUME ReferendumAssumption
  PROVE  NoRef \in Refs /\ ~NoRef.row /\ NoRef.status = "open"
<1>1. NoVotes \in Tallies
  <2>1. 0 \in 0 .. Word - 1
    BY DEF ReferendumAssumption
  <2> QED
    BY <2>1 DEF NoVotes, Tallies
<1> QED
  BY <1>1 DEF NoRef, Refs, Countings

(* Moving n from one choice to another wraps, and so stays in range.        *)
LEMMA MovedTallies ==
  ASSUME ReferendumAssumption, NEW v \in Tallies, NEW old, NEW new, NEW n \in Nat
  PROVE  Moved(v, old, new, n) \in Tallies
<1>1. Word \in Nat \ {0}
  BY DEF ReferendumAssumption
<1>2. ASSUME NEW k \in Keys
      PROVE  Wrapped(v[k] - (IF k = old /\ k # "remove" THEN n ELSE 0)
                          + (IF k = new /\ k # "remove" THEN n ELSE 0)) \in 0 .. Word - 1
  <2>1. v[k] \in Int
    BY <1>1 DEF Tallies
  <2>2. v[k] - (IF k = old /\ k # "remove" THEN n ELSE 0)
             + (IF k = new /\ k # "remove" THEN n ELSE 0) \in Int
    BY <2>1
  <2> QED
    BY <2>2, Wrapping
<1> QED
  BY <1>2 DEF Moved, Tallies

-----------------------------------------------------------------------------
(* The inductive invariant of the tallies, for one referendum: an id that   *)
(* was not given yet has no votes; a referendum that expired stays so; the  *)
(* tallies of one that is still open are those of the votes, and no account *)
(* is counted as "remove" (stakes may be).                                  *)
Counted(j) ==
  /\ \A k \in Choices :
       /\ refs[j].token_votes[k] = Total(stake, Supporters(j, k))
       /\ refs[j].account_votes[k] = Cardinality(Supporters(j, k))
  /\ refs[j].account_votes["remove"] = 0

RefOK(j) ==
  /\ j >= next_id => ~refs[j].row /\ \A a \in Accounts : votes[a][j] = "none"
  /\ refs[j].status # "executed"
  /\ refs[j].row => refs[j].type \in Types
  /\ refs[j].status = "expired" => refs[j].left <= 0
  /\ refs[j].row /\ refs[j].status # "expired" => Counted(j)

Kept == Tabled /\ \A j \in Ids \ stale : RefOK(j)

(* A referendum that a step leaves alone.                                   *)
LEMMA OtherRef ==
  ASSUME Tabled, NEW j \in Ids, RefOK(j), refs'[j] = refs[j], stake' = stake,
         next_id' \in Nat, next_id' >= next_id,
         \A a \in Accounts : votes'[a][j] = votes[a][j]
  PROVE  RefOK(j)'
<1>1. \A k : Supporters(j, k)' = Supporters(j, k)
  BY DEF Supporters
<1>2. j \in Int /\ next_id \in Int /\ next_id' \in Int
  BY DEF Tabled, Ids
<1>3. j >= next_id' => j >= next_id
  BY <1>2
<1> QED
  BY <1>1, <1>3 DEF RefOK, Counted

(* The accounts that vote k after a votes for something else.               *)
LEMMA VoteSupporters ==
  ASSUME Tabled, NEW a \in Accounts, NEW i \in Ids, NEW choice \in Keys,
         votes' = [votes EXCEPT ![a][i] = NewEntry(a, choice)], NEW k \in Choices
  PROVE  /\ Supporters(i, k)' \in SUBSET Accounts /\ Supporters(i, k) \in SUBSET Accounts
         /\ Supporters(i, k)' \ {a} = Supporters(i, k) \ {a}
         /\ a \in Supporters(i, k) <=> OldVote(a, i) = k
         /\ a \in Supporters(i, k)' <=> choice = k
<1>1. /\ \A b \in Accounts \ {a} : votes'[b][i] = votes[b][i]
      /\ votes'[a][i] = NewEntry(a, choice)
  BY DEF Tabled
<1>2. k # "remove" /\ k # "none"
  BY DEF Choices
<1>3. NewEntry(a, choice) = k <=> choice = k
  BY <1>2 DEF NewEntry
<1>4. votes[a][i] = k <=> OldVote(a, i) = k
  BY <1>2 DEF OldVote
<1> QED
  BY <1>1, <1>3, <1>4 DEF Supporters

(* What vote does to the row of the referendum.                             *)
LEMMA VoteRow ==
  ASSUME ReferendumAssumption, Tabled, NEW a \in Accounts, NEW i \in Ids,
         NEW choice \in Keys, Vote(a, i, choice)
  PROVE  /\ refs'[i] \in Refs /\ refs'[i].row /\ refs'[i].left = refs[i].left
         /\ refs'[i].type = refs[i].type
         /\ refs'[i].status \in NewStatus
         /\ refs'[i].status = "expired" <=> refs[i].left <= 0
         /\ refs'[i].token_votes = Moved(refs[i].token_votes, OldVote(a, i), choice, stake[a])
         /\ refs'[i].account_votes = Moved(refs[i].account_votes, OldVote(a, i), choice, 1)
         /\ \A j \in Ids \ {i} : refs'[j] = refs[j]
         /\ refs' \in [Ids -> Refs]
<1> DEFINE z == refs[i]
           t == Moved(z.token_votes, OldVote(a, i), choice, stake[a])
           u == Moved(z.account_votes, OldVote(a, i), choice, 1)
           r == WithTallies(z, t, u)
           x == WithStatus(r, StatusOf(r))
<1>1. z \in Refs /\ z.row /\ z.token_votes \in Tallies /\ z.account_votes \in Tallies
      /\ stake[a] \in Nat
  BY DEF Tabled, Vote, Refs, ReferendumAssumption
<1>2. t \in Tallies /\ u \in Tallies
  BY <1>1, MovedTallies
<1>3. refs' = [refs EXCEPT ![i] = Updated([refs[i] EXCEPT
         !.token_votes = Moved(refs[i].token_votes, OldVote(a, i), choice, stake[a]),
         !.account_votes = Moved(refs[i].account_votes, OldVote(a, i), choice, 1)])]
  BY DEF Vote
<1>4. refs' = [refs EXCEPT ![i] = x]
  BY <1>3 DEF Updated, WithStatus, WithTallies
<1> HIDE DEF t, u
<1>5. /\ r \in Refs /\ r.status = z.status /\ r.row = z.row /\ r.left = z.left
      /\ r.type = z.type
      /\ r.token_votes = t /\ r.account_votes = u
  <2> HIDE DEF z
  <2>1. r \in Refs /\ r.status = z.status /\ r.row = z.row
    BY <1>1, <1>2, TallyRow
  <2>2. r.left = z.left /\ r.type = z.type
    BY <1>1, <1>2, TallyRow
  <2>3. r.token_votes = t /\ r.account_votes = u
    BY <1>1, <1>2, TallyRow
  <2> QED
    BY <2>1, <2>2, <2>3
<1> HIDE DEF r, z
<1>6. StatusOf(r) \in NewStatus /\ (Over(r) <=> StatusOf(r) = "expired")
  BY StatusIs
<1>7. /\ x \in Refs /\ x.status = StatusOf(r) /\ x.row = r.row /\ x.left = r.left
      /\ x.type = r.type
      /\ x.token_votes = r.token_votes /\ x.account_votes = r.account_votes
  BY <1>5, <1>6, StatusRow
<1> HIDE DEF x
<1>8. refs'[i] = x /\ \A j \in Ids \ {i} : refs'[j] = refs[j]
  BY <1>4 DEF Tabled
<1>9. refs' \in [Ids -> Refs]
  BY <1>4, <1>7 DEF Tabled
<1> QED
  <2>1. x.status = "expired" <=> z.left <= 0
    BY <1>5, <1>6, <1>7 DEF Over
  <2>2. /\ x.row /\ x.left = z.left /\ x.type = z.type
        /\ x.token_votes = t /\ x.account_votes = u
    BY <1>1, <1>5, <1>7
  <2>3. x \in Refs /\ x.status \in NewStatus
    BY <1>6, <1>7
  <2> QED
    BY <1>8, <1>9, <2>1, <2>2, <2>3 DEF t, u, z

LEMMA VoteCounted ==
  ASSUME ReferendumAssumption, Fits, Tabled, NEW a \in Accounts, NEW i \in Ids,
         NEW choice \in Keys, Vote(a, i, choice), Counted(i)
  PROVE  Counted(i)'
<1>r. refs'[i].account_votes["remove"] = 0
  <2>1. /\ refs'[i].account_votes = Moved(refs[i].account_votes, OldVote(a, i), choice, 1)
        /\ refs[i].account_votes["remove"] = 0
    BY VoteRow DEF Counted
  <2>2. refs'[i].account_votes["remove"] = Wrapped(0 - 0 + 0)
    BY <2>1 DEF Moved, Keys
  <2>3. Word \in Nat \ {0} /\ 0 \in 0 .. Word - 1 /\ 0 - 0 + 0 = 0
    BY DEF ReferendumAssumption
  <2> QED
    BY <2>2, <2>3, Wrapping
<1> SUFFICES ASSUME NEW k \in Choices
             PROVE  /\ refs'[i].token_votes[k] = Total(stake', Supporters(i, k)')
                    /\ refs'[i].account_votes[k] = Cardinality(Supporters(i, k)')
  BY <1>r DEF Counted
<1> DEFINE S == Supporters(i, k)
           S1 == Supporters(i, k)'
           old == OldVote(a, i)
<1>0. /\ stake' = stake /\ stake \in [Accounts -> 0 .. MaxStake]
      /\ votes' = [votes EXCEPT ![a][i] = NewEntry(a, choice)]
  BY DEF Tabled, Vote
<1>1. /\ S1 \in SUBSET Accounts /\ S \in SUBSET Accounts
      /\ S1 \ {a} = S \ {a}
      /\ a \in S <=> old = k
      /\ a \in S1 <=> choice = k
  BY <1>0, VoteSupporters
<1>2. /\ refs[i].token_votes[k] = Total(stake, S)
      /\ refs[i].account_votes[k] = Cardinality(S)
  BY DEF Counted
<1>3. k # "remove" /\ k \in Keys
  BY DEF Choices, Keys
<1>4. /\ refs'[i].token_votes[k] =
           Wrapped(refs[i].token_votes[k] - (IF k = old THEN stake[a] ELSE 0)
                                         + (IF k = choice THEN stake[a] ELSE 0))
      /\ refs'[i].account_votes[k] =
           Wrapped(refs[i].account_votes[k] - (IF k = old THEN 1 ELSE 0)
                                           + (IF k = choice THEN 1 ELSE 0))
  <2>1. /\ refs'[i].token_votes = Moved(refs[i].token_votes, old, choice, stake[a])
        /\ refs'[i].account_votes = Moved(refs[i].account_votes, old, choice, 1)
    BY VoteRow
  <2> HIDE DEF old
  <2> QED
    BY <1>3, <2>1 DEF Moved
<1> HIDE DEF S, S1, old
<1>5. /\ Total(stake, S1) = Total(stake, S) - (IF a \in S THEN stake[a] ELSE 0)
                                            + (IF a \in S1 THEN stake[a] ELSE 0)
      /\ Cardinality(S1) = Cardinality(S) - (IF a \in S THEN 1 ELSE 0)
                                          + (IF a \in S1 THEN 1 ELSE 0)
  BY <1>0, <1>1, RecastSum
<1>6. Total(stake, S1) \in 0 .. Word - 1 /\ Cardinality(S1) \in 0 .. Word - 1
  BY <1>0, <1>1, SumFits
<1>7. refs'[i].token_votes[k] = Total(stake, S1)
  <2>1. refs'[i].token_votes[k] = Wrapped(Total(stake, S1))
    BY <1>1, <1>2, <1>4, <1>5
  <2> QED
    BY <1>6, <2>1, Wrapping
<1>8. refs'[i].account_votes[k] = Cardinality(S1)
  <2>1. refs'[i].account_votes[k] = Wrapped(Cardinality(S1))
    BY <1>1, <1>2, <1>4, <1>5
  <2> QED
    BY <1>6, <2>1, Wrapping
<1>9. /\ Total(stake, S1) = Total(stake', Supporters(i, k)')
      /\ Cardinality(S1) = Cardinality(Supporters(i, k)')
  BY <1>0 DEF S1
<1> QED
  BY <1>7, <1>8, <1>9

LEMMA VoteKept ==
  ASSUME ReferendumAssumption, Fits, Kept, NEW a \in Accounts, NEW i \in Ids,
         NEW choice \in Keys, Vote(a, i, choice)
  PROVE  Kept'
<1>1. /\ Tabled /\ UNCHANGED <<config, next_id, stake, stale>>
      /\ votes' = [votes EXCEPT ![a][i] = NewEntry(a, choice)]
      /\ refs[i].row
  BY DEF Kept, Vote
<1>2. /\ refs' \in [Ids -> Refs] /\ refs'[i].row /\ refs'[i].left = refs[i].left
      /\ refs'[i].type = refs[i].type
      /\ refs'[i].status \in NewStatus
      /\ refs'[i].status = "expired" <=> refs[i].left <= 0
      /\ \A j \in Ids \ {i} : refs'[j] = refs[j]
  BY <1>1, VoteRow
<1>3. NewEntry(a, choice) \in Keys \cup {"none"}
  BY DEF NewEntry
<1>4. votes' \in [Accounts -> [Ids -> Keys \cup {"none"}]]
      /\ \A b \in Accounts, j \in Ids \ {i} : votes'[b][j] = votes[b][j]
  BY <1>1, <1>3 DEF Tabled
<1>5. Tabled'
  BY <1>1, <1>2, <1>4 DEF Tabled
<1>6. ASSUME NEW j \in Ids \ stale, j # i PROVE RefOK(j)'
  BY <1>1, <1>2, <1>4, <1>6, OtherRef DEF Kept, Tabled
<1>7. ASSUME i \notin stale PROVE RefOK(i)'
  <2>1. RefOK(i)
    BY <1>7 DEF Kept
  <2>2. ~(i >= next_id')
    BY <1>1, <2>1 DEF RefOK
  <2>3. refs'[i].status # "executed"
    BY <1>2 DEF NewStatus
  <2>4. ASSUME refs'[i].status # "expired" PROVE Counted(i)'
    <3>1. refs[i].status # "expired"
      BY <1>2, <2>1, <2>4 DEF RefOK
    <3>2. Counted(i)
      BY <1>1, <2>1, <3>1 DEF RefOK
    <3> QED
      BY <1>1, <3>2, VoteCounted
  <2>5. refs'[i].status = "expired" => refs'[i].left <= 0
    BY <1>2
  <2>6. refs'[i].type \in Types
    BY <1>1, <1>2, <2>1 DEF RefOK
  <2> QED
    BY <2>2, <2>3, <2>4, <2>5, <2>6 DEF RefOK
<1> QED
  BY <1>1, <1>5, <1>6, <1>7 DEF Kept

(* The row that a notice of delta changes the tally of k in.                *)
WithStake(r, k, w) == [r EXCEPT !.token_votes[k] = w]

(* z is r but for the tallies by stake.                                     *)
Alike(z, r) ==
  /\ z \in Refs /\ z.row = r.row /\ z.type = r.type
  /\ z.status = r.status /\ z.left = r.left
  /\ z.account_votes = r.account_votes

LEMMA StakeRow ==
  ASSUME NEW r \in Refs, NEW k \in Keys, NEW w \in 0 .. Word - 1
  PROVE  /\ Alike(WithStake(r, k, w), r)
         /\ WithStake(r, k, w).token_votes = [r.token_votes EXCEPT ![k] = w]
<1>1. [r.token_votes EXCEPT ![k] = w] \in Tallies
  BY DEF Refs, Tallies
<1>2. WithStake(r, k, w) = [r EXCEPT !.token_votes = [r.token_votes EXCEPT ![k] = w]]
  BY DEF WithStake
<1> QED
  BY <1>1, <1>2 DEF Refs, Alike

LEMMA StakeChangeKept ==
  ASSUME ReferendumAssumption, Fits, Kept, NEW a \in Accounts, NEW n \in 0 .. MaxStake,
         StakeChange(a, n)
  PROVE  Kept'
<1> DEFINE delta == n - stake[a]
           k(i) == votes[a][i]
           w(i) == Wrapped(refs[i].token_votes[k(i)] + delta)
<1>1. /\ Tabled /\ UNCHANGED <<config, next_id, stale>>
      /\ stake' = [stake EXCEPT ![a] = n]
      /\ refs' = [i \in Ids |->
           IF k(i) = "none" \/ Settled(i) THEN refs[i] ELSE WithStake(refs[i], k(i), w(i))]
      /\ votes' = [votes EXCEPT ![a] =
           [i \in Ids |-> IF Settled(i) THEN "none" ELSE votes[a][i]]]
  BY DEF Kept, StakeChange, StakeObserved, WithStake
<1>2. stake[a] \in Int /\ n \in Int /\ delta \in Int /\ Word \in Nat \ {0}
  BY <1>1 DEF Tabled, ReferendumAssumption
<1>3. ASSUME NEW i \in Ids, ~(k(i) = "none" \/ Settled(i))
      PROVE  /\ k(i) \in Keys /\ w(i) \in 0 .. Word - 1
             /\ refs[i] \in Refs
             /\ refs'[i] = WithStake(refs[i], k(i), w(i))
  <2>1. k(i) \in Keys /\ refs[i] \in Refs
    BY <1>1, <1>3 DEF Tabled
  <2>2. refs[i].token_votes[k(i)] \in Int
    BY <1>2, <2>1 DEF Refs, Tallies
  <2>3. w(i) \in 0 .. Word - 1
    BY <1>2, <2>2, Wrapping
  <2> QED
    BY <1>1, <1>3, <2>1, <2>3
<1>4. \A i \in Ids : /\ refs'[i] \in Refs /\ refs'[i].row = refs[i].row
                     /\ refs'[i].type = refs[i].type
                     /\ refs'[i].status = refs[i].status /\ refs'[i].left = refs[i].left
                     /\ refs'[i].account_votes = refs[i].account_votes
  <2> SUFFICES ASSUME NEW i \in Ids
               PROVE  /\ refs'[i] \in Refs /\ refs'[i].row = refs[i].row
                      /\ refs'[i].type = refs[i].type
                      /\ refs'[i].status = refs[i].status /\ refs'[i].left = refs[i].left
                      /\ refs'[i].account_votes = refs[i].account_votes
    OBVIOUS
  <2>1. CASE k(i) = "none" \/ Settled(i)
    BY <1>1, <2>1 DEF Tabled
  <2>2. CASE ~(k(i) = "none" \/ Settled(i))
    <3>1. /\ k(i) \in Keys /\ w(i) \in 0 .. Word - 1 /\ refs[i] \in Refs
          /\ refs'[i] = WithStake(refs[i], k(i), w(i))
      BY <1>3, <2>2
    <3> HIDE DEF k, w
    <3>2. Alike(refs'[i], refs[i])
      <4>1. Alike(WithStake(refs[i], k(i), w(i)), refs[i])
        BY <3>1, StakeRow
      <4> QED
        BY <3>1, <4>1
    <3> QED
      BY <3>2 DEF Alike
  <2> QED
    BY <2>1, <2>2
<1>5. Tabled'
  <2>1. refs' \in [Ids -> Refs]
    BY <1>1, <1>4
  <2>2. stake' \in [Accounts -> 0 .. MaxStake]
    BY <1>1 DEF Tabled
  <2>3. votes' \in [Accounts -> [Ids -> Keys \cup {"none"}]]
    BY <1>1 DEF Tabled
  <2> QED
    BY <1>1, <2>1, <2>2, <2>3 DEF Tabled
<1>6. ASSUME NEW j \in Ids \ stale PROVE RefOK(j)'
  <2>1. RefOK(j)
    BY DEF Kept
  <2>2. \A b \in Accounts : votes'[b][j] = "none" \/ votes'[b][j] = votes[b][j]
    BY <1>1 DEF Tabled
  <2>3. j >= next_id' => ~refs'[j].row /\ \A b \in Accounts : votes'[b][j] = "none"
    BY <1>1, <1>4, <2>1, <2>2 DEF RefOK
  <2>4. ASSUME refs'[j].row, refs'[j].status # "expired" PROVE Counted(j)'
    <3>1. Counted(j) /\ ~Settled(j)
      BY <1>4, <2>1, <2>4 DEF RefOK, Settled
    <3>2. \A b \in Accounts : votes'[b][j] = votes[b][j]
      BY <1>1, <3>1 DEF Tabled
    <3>3. ASSUME NEW c \in Choices
          PROVE  /\ refs'[j].token_votes[c] = Total(stake', Supporters(j, c)')
                 /\ refs'[j].account_votes[c] = Cardinality(Supporters(j, c)')
      <4> DEFINE S == Supporters(j, c)
      <4>1. Supporters(j, c)' = S
        BY <3>2 DEF Supporters
      <4>2. S \in SUBSET Accounts /\ (a \in S <=> k(j) = c)
        BY DEF Supporters
      <4>3. refs[j].token_votes[c] = Total(stake, S) /\ refs[j].account_votes[c] = Cardinality(S)
        BY <3>1 DEF Counted
      <4>4. /\ stake \in [Accounts -> 0 .. MaxStake] /\ stake' \in [Accounts -> 0 .. MaxStake]
            /\ Restaked(stake, stake', a, n)
        BY <1>1, <1>5 DEF Tabled, Restaked
      <4>5. /\ Total(stake', S) = Total(stake, S) + (IF a \in S THEN n - stake[a] ELSE 0)
            /\ Total(stake', S) \in 0 .. Word - 1
            /\ Total(stake, S) \in 0 .. Word - 1
        <5> HIDE DEF S
        <5>1. Total(stake', S) = Total(stake, S) + (IF a \in S THEN n - stake[a] ELSE 0)
          BY <4>2, <4>4, RestakedSum
        <5>2. Total(stake', S) \in 0 .. Word - 1
          BY <4>2, <4>4, SumFits
        <5>3. Total(stake, S) \in 0 .. Word - 1
          BY <4>2, <4>4, SumFits
        <5> QED
          BY <5>1, <5>2, <5>3
      <4>6. refs'[j].token_votes[c] = Total(stake', S)
        <5>1. CASE k(j) = "none"
          <6>1. a \notin S
            BY <4>2, <5>1 DEF Choices
          <6>2. refs'[j] = refs[j]
            BY <1>1, <5>1
          <6> HIDE DEF S
          <6> QED
            BY <1>2, <4>3, <4>5, <6>1, <6>2
        <5>2. CASE k(j) # "none"
          <6>1. /\ k(j) \in Keys /\ w(j) \in 0 .. Word - 1
                /\ refs[j] \in Refs
                /\ refs'[j] = WithStake(refs[j], k(j), w(j))
            BY <1>3, <3>1, <5>2
          <6>2. refs'[j].token_votes = [refs[j].token_votes EXCEPT ![k(j)] = w(j)]
            <7> HIDE DEF k, w
            <7> QED
              BY <6>1, StakeRow
          <6>3. c \in Keys /\ refs[j].token_votes \in [Keys -> 0 .. Word - 1]
            BY <6>1 DEF Keys, Refs, Tallies
          <6>4. CASE k(j) = c
            <7>1. refs'[j].token_votes[c] = w(j)
              BY <6>1, <6>2, <6>3, <6>4
            <7>2. w(j) = Wrapped(Total(stake, S) + delta)
              BY <4>3, <6>4
            <7>3. Total(stake', S) = Total(stake, S) + delta
              BY <4>2, <4>5, <6>4
            <7> HIDE DEF S, w, delta
            <7> QED
              BY <4>5, <7>1, <7>2, <7>3, Wrapping
          <6>5. CASE k(j) # c
            <7>1. refs'[j].token_votes[c] = refs[j].token_votes[c]
              BY <6>1, <6>2, <6>3, <6>5
            <7> HIDE DEF S
            <7> QED
              BY <4>2, <4>3, <4>5, <6>5, <7>1
          <6> QED
            BY <6>4, <6>5
        <5> QED
          BY <5>1, <5>2
      <4>7. refs'[j].account_votes[c] = Cardinality(S)
        BY <1>4, <4>3
      <4> HIDE DEF S
      <4> QED
        BY <4>1, <4>6, <4>7
    <3>4. refs'[j].account_votes["remove"] = 0
      BY <1>4, <3>1 DEF Counted
    <3> QED
      BY <3>3, <3>4 DEF Counted
  <2> QED
    BY <1>4, <2>1, <2>3, <2>4 DEF RefOK
<1> QED
  BY <1>1, <1>5, <1>6 DEF Kept

(* A step that leaves the votes, the rows and the stakes alone.             *)
LEMMA QuietKept ==
  ASSUME Kept, UNCHANGED <<next_id, refs, votes, stake, stale>>,
         config' \in Configs \cup {NoConfig}
  PROVE  Kept'
BY DEF Kept, Tabled, RefOK, Counted, Supporters

(* A step that gives the rows another status or another time left.          *)
LEMMA RowsKept ==
  ASSUME Kept, UNCHANGED <<config, next_id, votes, stake, stale>>,
         refs' \in [Ids -> Refs],
         \A j \in Ids :
           /\ refs'[j].row = refs[j].row /\ refs'[j].type = refs[j].type
           /\ refs'[j].token_votes = refs[j].token_votes
           /\ refs'[j].account_votes = refs[j].account_votes,
         \A j \in Ids \ stale :
           /\ refs'[j].status # "executed"
           /\ refs'[j].status = "expired" => refs'[j].left <= 0
           /\ refs[j].status = "expired" => refs'[j].status = "expired"
  PROVE  Kept'
<1>1. Tabled'
  BY DEF Kept, Tabled
<1>2. ASSUME NEW j \in Ids \ stale PROVE RefOK(j)'
  <2>1. RefOK(j)
    BY DEF Kept
  <2>2. \A k : Supporters(j, k)' = Supporters(j, k)
    BY DEF Supporters
  <2>3. Counted(j) => Counted(j)'
    BY <2>2 DEF Counted
  <2> QED
    BY <2>1, <2>3 DEF RefOK
<1> QED
  BY <1>1, <1>2 DEF Kept

LEMMA TickKept == ASSUME ReferendumAssumption, Kept, Tick PROVE Kept'
<1> DEFINE l(i) == IF refs[i].left >= 0 THEN refs[i].left - 1 ELSE -1
           Timed(i) == [refs[i] EXCEPT !.left = l(i)]
<1>1. /\ Tabled /\ UNCHANGED <<config, next_id, votes, stake, stale>>
      /\ refs' = [i \in Ids |-> Timed(i)]
  BY DEF Kept, Tick
<1>2. ASSUME NEW i \in Ids
      PROVE  /\ Timed(i) \in Refs /\ Timed(i).row = refs[i].row
             /\ Timed(i).type = refs[i].type
             /\ Timed(i).status = refs[i].status /\ Timed(i).left = l(i)
             /\ Timed(i).token_votes = refs[i].token_votes
             /\ Timed(i).account_votes = refs[i].account_votes
             /\ refs[i].left <= 0 => l(i) <= 0
  <2>1. refs[i] \in Refs
    BY <1>1 DEF Tabled
  <2>2. refs[i].left \in Nat \cup {-1} /\ l(i) \in Nat \cup {-1}
    BY <2>1 DEF Refs
  <2>3. /\ Timed(i) \in Refs /\ Timed(i).row = refs[i].row
        /\ Timed(i).type = refs[i].type
        /\ Timed(i).status = refs[i].status /\ Timed(i).left = l(i)
        /\ Timed(i).token_votes = refs[i].token_votes
        /\ Timed(i).account_votes = refs[i].account_votes
    <3> HIDE DEF l
    <3> QED
      BY <2>1, <2>2, LeftRow DEF WithLeft
  <2>4. refs[i].left <= 0 => l(i) <= 0
    BY <2>2
  <2> QED
    BY <2>3, <2>4
<1>3. refs' \in [Ids -> Refs]
  BY <1>1, <1>2
<1>4. \A j \in Ids \ stale : RefOK(j)
  BY DEF Kept
<1>5. \A j \in Ids \ stale :
        /\ refs[j].status # "executed"
        /\ refs[j].status = "expired" => refs[j].left <= 0
  BY <1>4 DEF RefOK
<1> HIDE DEF l, Timed
<1> QED
  BY <1>1, <1>2, <1>3, <1>5, RowsKept

LEMMA UpdateStatusKept ==
  ASSUME ReferendumAssumption, Kept, NEW i \in Ids, UpdateStatus(i)
  PROVE  Kept'
<1> DEFINE x == WithStatus(refs[i], StatusOf(refs[i]))
<1>1. /\ Tabled /\ UNCHANGED <<config, next_id, votes, stake, stale>>
      /\ refs' = [refs EXCEPT ![i] = x]
  BY DEF Kept, UpdateStatus, Updated, WithStatus
<1>2. refs[i] \in Refs
  BY <1>1 DEF Tabled
<1>3. StatusOf(refs[i]) \in NewStatus /\ (Over(refs[i]) <=> StatusOf(refs[i]) = "expired")
  BY StatusIs
<1>4. /\ x \in Refs /\ x.status = StatusOf(refs[i]) /\ x.row = refs[i].row
      /\ x.type = refs[i].type
      /\ x.left = refs[i].left /\ x.token_votes = refs[i].token_votes
      /\ x.account_votes = refs[i].account_votes
  BY <1>2, <1>3, StatusRow
<1> HIDE DEF x
<1>5. refs'[i] = x /\ \A j \in Ids \ {i} : refs'[j] = refs[j]
  BY <1>1 DEF Tabled
<1>6. refs' \in [Ids -> Refs]
  BY <1>1, <1>4 DEF Tabled
<1>7. \A j \in Ids \ stale :
        /\ refs[j].status # "executed"
        /\ refs[j].status = "expired" => refs[j].left <= 0
  BY DEF Kept, RefOK
<1>8. \A j \in Ids \ stale :
        /\ refs'[j].status # "executed"
        /\ refs'[j].status = "expired" => refs'[j].left <= 0
        /\ refs[j].status = "expired" => refs'[j].status = "expired"
  <2>1. ASSUME i \notin stale
        PROVE  /\ x.status # "executed"
               /\ x.status = "expired" => x.left <= 0
               /\ refs[i].status = "expired" => x.status = "expired"
    BY <1>3, <1>4, <1>7, <2>1 DEF NewStatus, Over
  <2> QED
    BY <1>5, <1>7, <2>1
<1>9. \A j \in Ids :
        /\ refs'[j].row = refs[j].row /\ refs'[j].type = refs[j].type
        /\ refs'[j].token_votes = refs[j].token_votes
        /\ refs'[j].account_votes = refs[j].account_votes
  BY <1>4, <1>5
<1> QED
  BY <1>1, <1>6, <1>8, <1>9, RowsKept

LEMMA RemovedKept ==
  ASSUME ReferendumAssumption, Kept, NEW i \in Ids, Removed(i)
  PROVE  Kept'
<1>1. /\ Tabled /\ UNCHANGED <<config, next_id, votes, stake, stale>>
      /\ refs' = [refs EXCEPT ![i] = NoRef]
  BY DEF Kept, Removed
<1>2. NoRef \in Refs /\ ~NoRef.row /\ NoRef.status = "open"
  BY NoRefRow
<1>3. /\ refs' \in [Ids -> Refs] /\ refs'[i] = NoRef
      /\ \A j \in Ids \ {i} : refs'[j] = refs[j]
  BY <1>1, <1>2 DEF Tabled
<1>4. Tabled'
  BY <1>1, <1>3 DEF Tabled
<1>5. next_id' \in Nat /\ next_id' >= next_id
  BY <1>1 DEF Tabled
<1>6. ASSUME NEW j \in Ids \ stale, j # i PROVE RefOK(j)'
  BY <1>1, <1>3, <1>5, <1>6, OtherRef DEF Kept
<1>7. ASSUME i \notin stale PROVE RefOK(i)'
  <2>1. RefOK(i)
    BY <1>7 DEF Kept
  <2> QED
    BY <1>1, <1>2, <1>3, <2>1 DEF RefOK
<1> QED
  BY <1>1, <1>4, <1>6, <1>7 DEF Kept

LEMMA ExecKept ==
  ASSUME ReferendumAssumption, Kept, NEW i \in Ids, Exec(i)
  PROVE  Kept'
<1> DEFINE x == WithStatus(refs[i], "executed")
<1>1. /\ Tabled /\ UNCHANGED <<config, next_id, votes, stake>>
      /\ stale' = stale \cup {i}
      /\ refs' = [refs EXCEPT ![i] = x]
  BY DEF Kept, Exec, WithStatus
<1>2. x \in Refs
  <2>1. refs[i] \in Refs
    BY <1>1 DEF Tabled
  <2> QED
    BY <2>1, StatusRow
<1> HIDE DEF x
<1>3. refs' \in [Ids -> Refs] /\ \A j \in Ids \ {i} : refs'[j] = refs[j]
  BY <1>1, <1>2 DEF Tabled
<1>4. Tabled'
  BY <1>1, <1>3 DEF Tabled
<1>5. next_id' \in Nat /\ next_id' >= next_id
  BY <1>1 DEF Tabled
<1>6. ASSUME NEW j \in Ids \ stale, j # i PROVE RefOK(j)'
  BY <1>1, <1>3, <1>5, <1>6, OtherRef DEF Kept
<1> QED
  BY <1>1, <1>4, <1>6 DEF Kept

LEMMA CleanKept ==
  ASSUME ReferendumAssumption, Kept, NEW a \in Accounts, Clean(a)
  PROVE  Kept'
<1>1. /\ Tabled /\ UNCHANGED <<config, next_id, refs, stake, stale>>
      /\ votes' = [votes EXCEPT ![a] =
           [i \in Ids |-> IF Settled(i) THEN "none" ELSE votes[a][i]]]
  BY DEF Kept, Clean
<1>2. votes' \in [Accounts -> [Ids -> Keys \cup {"none"}]]
  BY <1>1 DEF Tabled
<1>3. \A b \in Accounts, j \in Ids :
        /\ votes'[b][j] \in {"none", votes[b][j]}
        /\ ~Settled(j) => votes'[b][j] = votes[b][j]
  BY <1>1 DEF Tabled
<1>4. Tabled'
  BY <1>1, <1>2 DEF Tabled
<1>5. ASSUME NEW j \in Ids \ stale PROVE RefOK(j)'
  <2>1. RefOK(j)
    BY DEF Kept
  <2>2. ASSUME refs[j].row, refs[j].status # "expired" PROVE Counted(j)'
    <3>1. Counted(j) /\ ~Settled(j)
      BY <2>1, <2>2 DEF RefOK, Settled
    <3>2. \A k : Supporters(j, k)' = Supporters(j, k)
      BY <1>3, <3>1 DEF Supporters
    <3> QED
      BY <1>1, <3>1, <3>2 DEF Counted
  <2>3. j >= next_id' => ~refs'[j].row /\ \A b \in Accounts : votes'[b][j] = "none"
    BY <1>1, <1>3, <2>1 DEF RefOK
  <2> QED
    BY <1>1, <2>1, <2>2, <2>3 DEF RefOK
<1> QED
  BY <1>1, <1>4, <1>5 DEF Kept

(* A new referendum starts with empty tallies, and its id has no votes.     *)
LEMMA ProposeKept ==
  ASSUME ReferendumAssumption, Fits, Kept, NEW a \in Accounts, NEW ty \in Types,
         NEW c \in Countings, Propose(a, ty, c)
  PROVE  Kept'
<1> DEFINE x == [row |-> TRUE, proposer |-> a, type |-> ty, voting_type |-> c,
                 status |-> "open", token_votes |-> NoVotes, account_votes |-> NoVotes,
                 left |-> config.duration]
<1>1. /\ Tabled /\ UNCHANGED <<config, votes, stake, stale>>
      /\ next_id \in Ids /\ next_id' = next_id + 1
      /\ refs' = [refs EXCEPT ![next_id] = x]
      /\ config # NoConfig
  BY DEF Kept, Propose
<1>2. config.duration \in Nat
  BY <1>1 DEF Tabled, ReferendumAssumption, Settings
<1>3. NoVotes \in Tallies /\ \A k \in Keys : NoVotes[k] = 0
  <2>1. 0 \in 0 .. Word - 1
    BY DEF ReferendumAssumption
  <2> QED
    BY <2>1 DEF NoVotes, Tallies, Choices, Keys
<1>4. /\ x \in Refs /\ x.status = "open" /\ x.type \in Types
      /\ x.token_votes = NoVotes /\ x.account_votes = NoVotes
  BY <1>2, <1>3 DEF Refs
<1> HIDE DEF x
<1>5. /\ refs' \in [Ids -> Refs] /\ refs'[next_id] = x
      /\ \A j \in Ids \ {next_id} : refs'[j] = refs[j]
  BY <1>1, <1>4 DEF Tabled
<1>6. next_id \in Nat /\ next_id' \in Nat \ {0} /\ next_id' >= next_id
  BY <1>1 DEF Tabled
<1>7. Tabled'
  BY <1>1, <1>5, <1>6 DEF Tabled
<1>8. ASSUME NEW j \in Ids \ stale, j # next_id PROVE RefOK(j)'
  BY <1>1, <1>5, <1>6, <1>8, OtherRef DEF Kept
<1>9. ASSUME NEW j \in Ids \ stale, j = next_id PROVE RefOK(j)'
  <2>1. RefOK(j)
    BY DEF Kept
  <2>2. \A k \in Choices : Supporters(j, k)' = {}
    <3>1. \A b \in Accounts : votes'[b][j] = "none"
      BY <1>1, <1>6, <1>9, <2>1 DEF RefOK
    <3> QED
      BY <3>1 DEF Supporters, Choices
  <2>3. Total(stake', {}) = 0 /\ Cardinality({}) = 0
    <3>1. IsFiniteSet({}) /\ Cardinality({}) = 0
      BY FS_EmptySet
    <3> QED
      BY <3>1, TotalZero
  <2>4. Counted(j)'
    <3>1. Choices \subseteq Keys /\ "remove" \in Keys
      BY DEF Keys
    <3> QED
      BY <1>3, <1>4, <1>5, <1>9, <2>2, <2>3, <3>1 DEF Counted
  <2>5. ~(j >= next_id')
    BY <1>1, <1>6, <1>9
  <2> QED
    BY <1>4, <1>5, <1>9, <2>4, <2>5 DEF RefOK
<1> QED
  BY <1>1, <1>7, <1>8, <1>9 DEF Kept

LEMMA InitKept == ASSUME ReferendumAssumption, Init PROVE Kept
<1>1. NoRef \in Refs /\ ~NoRef.row /\ NoRef.status = "open"
  BY NoRefRow
<1>2. Tabled
  BY <1>1 DEF Init, Tabled
<1>3. ASSUME NEW j \in Ids PROVE RefOK(j)
  BY <1>1 DEF Init, RefOK
<1> QED
  BY <1>2, <1>3 DEF Kept

LEMMA NextKept ==
  ASSUME ReferendumAssumption, Fits, Kept, [Next]_vars
  PROVE  Kept'
<1>0. config \in Configs \cup {NoConfig} /\ Proposers \in SUBSET Accounts
  BY DEF Kept, Tabled, ReferendumAssumption
<1>1. CASE Tick
  BY <1>1, TickKept
<1>2. CASE MoneyStep
  <2>1. ASSUME NEW a \in Proposers, NEW t \in Tokens, NEW n \in 1 .. MaxDeposit, Receive(a, t, n)
        PROVE  Kept'
    BY <1>0, <2>1, QuietKept DEF Receive, voteVars
  <2>2. ASSUME NEW a \in Proposers, Refund(a) PROVE Kept'
    BY <1>0, <2>2, QuietKept DEF Refund, voteVars
  <2>3. ASSUME NEW a \in Proposers, NEW ty \in Types, NEW c \in Countings, Propose(a, ty, c)
        PROVE  Kept'
    BY <1>0, <2>3, ProposeKept
  <2> QED
    BY <1>2, <2>1, <2>2, <2>3 DEF MoneyStep
<1>3. CASE VoteStep
  <2>1. ASSUME NEW a \in Accounts, NEW i \in Ids, NEW k \in Keys, Vote(a, i, k) PROVE Kept'
    BY <2>1, VoteKept
  <2>2. ASSUME NEW a \in Accounts, NEW n \in 0 .. MaxStake, StakeChange(a, n) PROVE Kept'
    BY <2>2, StakeChangeKept
  <2>3. ASSUME NEW a \in Accounts, Clean(a) PROVE Kept'
    BY <2>3, CleanKept
  <2> QED
    BY <1>3, <2>1, <2>2, <2>3 DEF VoteStep
<1>4. CASE CloseStep
  <2>1. ASSUME NEW i \in Ids, UpdateStatus(i) PROVE Kept'
    BY <2>1, UpdateStatusKept
  <2>2. ASSUME NEW i \in Ids, Removed(i) PROVE Kept'
    BY <2>2, RemovedKept
  <2>3. ASSUME NEW i \in Ids, Exec(i) PROVE Kept'
    BY <2>3, ExecKept
  <2>4. ASSUME NEW i \in Ids, MsigGone(i) PROVE Kept'
    BY <1>0, <2>4, QuietKept DEF MsigGone, voteVars
  <2> QED
    BY <1>4, <2>1, <2>2, <2>3, <2>4 DEF CloseStep, RmvExpired, RmvExecuted, Cancel
<1>5. ASSUME NEW c \in Configs, UpdateConfig(c) PROVE Kept'
  BY <1>5, QuietKept DEF UpdateConfig, voteVars
<1>6. CASE ClearConfig
  <2>1. /\ config' = NoConfig /\ next_id' = 1 /\ stale' = Ids
        /\ UNCHANGED <<refs, votes, stake>>
    BY <1>6 DEF ClearConfig, voteVars
  <2> QED
    BY <2>1 DEF Kept, Tabled
<1>7. CASE UNCHANGED vars
  BY <1>0, <1>7, QuietKept DEF vars, voteVars
<1> QED
  BY <1>1, <1>2, <1>3, <1>4, <1>5, <1>6, <1>7 DEF Next

(* TallyIsSum: the tallies follow votes and stakes (vote, stakeobsv, clean),*)
(* if all stakes together are below the wrap.                               *)
THEOREM TallyCorrect == ASSUME ReferendumAssumption, Fits PROVE Spec => []TallyIsSum
<1>1. Init => Kept
  BY InitKept
<1>2. Kept /\ [Next]_vars => Kept'
  BY NextKept
<1>3. Kept => TallyIsSum
  BY DEF Kept, RefOK, Counted, TallyIsSum
<1> QED
  BY <1>1, <1>2, <1>3, PTL DEF Spec

-----------------------------------------------------------------------------
(* Execution *)

LEMMA ShareOf ==
  ASSUME NEW x \in Nat, NEW d \in Nat \ {0}, NEW p \in Nat, (x \div d) >= p
  PROVE  x >= p * d
<1> DEFINE q == x \div d
<1>1. q \in Nat /\ q * d <= x
  OBVIOUS
<1> HIDE DEF q
<1>2. p * d <= q * d
  <2>1. q - p \in Nat /\ (q - p) * d \in Nat
    BY <1>1 DEF q
  <2>2. q * d = p * d + (q - p) * d
    BY <1>1
  <2>3. q * d \in Int /\ p * d \in Int
    BY <1>1
  <2> QED
    BY <2>1, <2>2, <2>3
<1>3. p * d \in Int /\ q * d \in Int
  BY <1>1
<1> QED
  BY <1>1, <1>2, <1>3

(* A referendum is executed only by exec, or is one of an earlier period.   *)
LEMMA ExecutedByExec ==
  ASSUME ReferendumAssumption, Fits, Kept, [Next]_vars, NEW i \in Ids \ stale,
         refs'[i].status = "executed"
  PROVE  Exec(i)
<1>1. RefOK(i) /\ refs[i].status # "executed"
  BY DEF Kept, RefOK
<1>2. Kept'
  BY NextKept
<1>3. i \in stale'
  BY <1>2 DEF Kept, RefOK
<1>4. stale' # stale /\ refs' # refs
  BY <1>1, <1>3
<1>5. PICK j \in Ids : Exec(j)
  BY <1>4
  DEF Next, Tick, MoneyStep, VoteStep, CloseStep, Receive, Refund, Propose, Vote, StakeChange,
      Clean, UpdateStatus, RmvExpired, RmvExecuted, MsigGone, Cancel, Removed, UpdateConfig,
      ClearConfig, voteVars, vars
<1>6. i = j
  BY <1>3, <1>5 DEF Exec
<1> QED
  BY <1>5, <1>6

LEMMA ExecBacked ==
  ASSUME ReferendumAssumption, Fits, Kept, NEW i \in Ids \ stale, Exec(i)
  PROVE  Backed(i)
<1> DEFINE v == VotesOf(refs[i])
           q == config.quorum[refs[i].voting_type][refs[i].type]
           p == config.pass[refs[i].type]
<1>1. /\ Tabled /\ RefOK(i) /\ refs[i] \in Refs
      /\ refs[i].row /\ StatusKnown(refs[i]) /\ StatusOf(refs[i]) = "passing"
  BY DEF Kept, Tabled, Exec
<1>2. /\ ~Over(refs[i]) /\ ~(Sum(v) < q)
      /\ (100 * v["yes"]) \div CurrentAll(v) >= p
  BY <1>1 DEF StatusOf
<1>3. refs[i].left > 0
  BY <1>1, <1>2 DEF Over, Refs
<1>4. Counted(i)
  BY <1>1, <1>3 DEF RefOK, Refs
<1>5. \A k \in Choices : v[k] = Strength(i, k)
  BY <1>1, <1>4 DEF Counted, Strength, VotesOf
<1>6. \A k \in Keys : v[k] \in Nat
  <2>1. v \in [Keys -> 0 .. Word - 1] /\ Word \in Nat
    BY <1>1 DEF VotesOf, Refs, Tallies, ReferendumAssumption
  <2> QED
    BY <2>1
<1>7. /\ CurrentAll(v) = Turnout(i) /\ CurrentAll(v) \in Nat
      /\ Sum(v) = Turnout(i) + Stray(i)
  <2>1. v["remove"] = Stray(i)
    BY <1>4 DEF Stray, VotesOf, Counted
  <2> HIDE DEF v
  <2> QED
    BY <1>5, <1>6, <2>1 DEF CurrentAll, Sum, Turnout, Choices, Keys
<1>8. CurrentAll(v) > 0
  BY <1>1, <1>2 DEF StatusKnown
<1>9. q \in Nat /\ p \in Nat
  <2>1. config \in Settings
    BY <1>1 DEF StatusKnown, Tabled, ReferendumAssumption
  <2>2. refs[i].voting_type \in Countings /\ refs[i].type \in Types
    BY <1>1 DEF RefOK, Refs
  <2>3. /\ config.quorum \in [Countings -> [Types -> Nat]]
        /\ config.pass \in [Types -> Nat]
    BY <2>1 DEF Settings
  <2> QED
    BY <2>2, <2>3
<1> HIDE DEF v, q, p
<1>10. Turnout(i) > 0 /\ Turnout(i) + Stray(i) >= q
  <2>1. Sum(v) \in Nat
    BY <1>6 DEF Sum, Keys, Choices
  <2> QED
    BY <1>2, <1>7, <1>8, <1>9, <2>1
<1>11. 100 * Strength(i, "yes") >= p * Turnout(i)
  <2>1. v["yes"] \in Nat /\ v["yes"] = Strength(i, "yes")
    BY <1>5, <1>6 DEF Choices, Keys
  <2>2. 100 * v["yes"] >= p * CurrentAll(v)
    BY <1>2, <1>7, <1>8, <1>9, <2>1, ShareOf
  <2> QED
    BY <1>7, <2>1, <2>2
<1> QED
  BY <1>3, <1>10, <1>11 DEF Backed, p, q

(* ExecutedWithSupport: what exec requires of the tallies (get_status), it  *)
(* requires of the stakes and the accounts of that moment; the quorum in    *)
(* stakes is that of the votes and of the stray "remove" tally together.    *)
THEOREM SupportCorrect ==
  ASSUME ReferendumAssumption, Fits PROVE Spec => ExecutedWithSupport
<1>1. Init => Kept
  BY InitKept
<1>2. Kept /\ [Next]_vars => Kept'
  BY NextKept
<1>3. ASSUME Kept, [Next]_vars, NEW i \in Ids \ stale
      PROVE  refs'[i].status = "executed" => Backed(i)
  BY <1>3, ExecutedByExec, ExecBacked
<1>4. Kept /\ [Next]_vars =>
        [\A i \in Ids \ stale : refs'[i].status = "executed" => Backed(i)]_vars
  BY <1>3
<1> QED
  BY <1>1, <1>2, <1>4, PTL DEF Spec, ExecutedWithSupport

=============================================================================
