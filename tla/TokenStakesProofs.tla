-------------------------- MODULE TokenStakesProofs --------------------------
(***************************************************************************)
(* Proofs about TokenStakes: the supply is the sum of the balances, stakes *)
(* and unstakes are covered by them, and stake times hold.                 *)
(***************************************************************************)
EXTENDS TokenStakes, TotalsTheorems, WellFoundedInduction

(* The table of unstakes, and what is on its way to an account: in all of   *)
(* its rows, and in those that are not released.                            *)
Table == [Ids -> [account : Accounts \cup {Nobody}, stake : Nat, left : Nat]]

Owes(u, a) == Total([i \in Ids |-> u[i].stake], {i \in Ids : u[i].account = a})

Comes(u, a) ==
  Total([i \in Ids |-> u[i].stake], {i \in Ids : u[i].account = a /\ u[i].left > 0})

LEMMA IdsFinite == ASSUME TokenAssumption PROVE IsFiniteSet(Ids)
BY FS_Interval DEF Ids, TokenAssumption

LEMMA OwesNat ==
  ASSUME TokenAssumption, NEW u \in Table, NEW a
  PROVE  Owes(u, a) \in Nat /\ Comes(u, a) \in Nat /\ Comes(u, a) <= Owes(u, a)
<1> DEFINE f == [i \in Ids |-> u[i].stake]
           R == {i \in Ids : u[i].account = a}
           W == {i \in Ids : u[i].account = a /\ u[i].left > 0}
<1>1. IsFiniteSet(R) /\ IsFiniteSet(W)
  BY IdsFinite, FS_Subset
<1>2. \A i \in R : f[i] \in Nat
  BY DEF Table
<1>3. W \in SUBSET R
  OBVIOUS
<1> HIDE DEF f, R, W
<1>4. Total(f, R) \in Nat
  BY <1>1, <1>2, TotalNat
<1>5. Total(f, W) \in Nat
  BY <1>1, <1>2, <1>3, TotalNat
<1>6. Total(f, W) <= Total(f, R)
  BY <1>1, <1>2, <1>3, TotalSubset
<1> QED
  BY <1>4, <1>5, <1>6 DEF f, R, W, Owes, Comes

(* Only the account's own rows matter. *)
LEMMA OwesSame ==
  ASSUME NEW u, NEW v, NEW a,
         \A i \in Ids : u[i].account = a <=> v[i].account = a,
         \A i \in Ids : u[i].account = a => u[i].stake = v[i].stake
  PROVE  Owes(u, a) = Owes(v, a)
<1> DEFINE f == [i \in Ids |-> u[i].stake]
           g == [i \in Ids |-> v[i].stake]
           R == {i \in Ids : u[i].account = a}
           Q == {i \in Ids : v[i].account = a}
<1>1. R = Q /\ \A i \in R : f[i] = g[i]
  OBVIOUS
<1> HIDE DEF f, g, R, Q
<1>2. Total(f, R) = Total(g, R)
  BY <1>1, TotalSame
<1> QED
  BY <1>1, <1>2 DEF f, g, R, Q, Owes

LEMMA ComesSame ==
  ASSUME NEW u, NEW v, NEW a,
         \A i \in Ids : u[i].account = a /\ u[i].left > 0 <=> v[i].account = a /\ v[i].left > 0,
         \A i \in Ids : u[i].account = a /\ u[i].left > 0 => u[i].stake = v[i].stake
  PROVE  Comes(u, a) = Comes(v, a)
<1> DEFINE f == [i \in Ids |-> u[i].stake]
           g == [i \in Ids |-> v[i].stake]
           R == {i \in Ids : u[i].account = a /\ u[i].left > 0}
           Q == {i \in Ids : v[i].account = a /\ v[i].left > 0}
<1>1. R = Q /\ \A i \in R : f[i] = g[i]
  OBVIOUS
<1> HIDE DEF f, g, R, Q
<1>2. Total(f, R) = Total(g, R)
  BY <1>1, TotalSame
<1> QED
  BY <1>1, <1>2 DEF f, g, R, Q, Comes

(* With a row that only u has, u is that row's stake ahead. *)
LEMMA OwesRow ==
  ASSUME TokenAssumption, NEW u \in Table, NEW v \in Table, NEW i \in Ids, NEW a,
         \A j \in Ids \ {i} : u[j] = v[j], u[i].account = a, v[i].account # a
  PROVE  /\ Owes(u, a) = Owes(v, a) + u[i].stake
         /\ u[i].left > 0 => Comes(u, a) = Comes(v, a) + u[i].stake
         /\ ~(u[i].left > 0) => Comes(u, a) = Comes(v, a)
<1> DEFINE f == [j \in Ids |-> u[j].stake]
           g == [j \in Ids |-> v[j].stake]
           R == {j \in Ids : u[j].account = a}
           W == {j \in Ids : u[j].account = a /\ u[j].left > 0}
           Q == {j \in Ids : v[j].account = a}
           V == {j \in Ids : v[j].account = a /\ v[j].left > 0}
<1>1. /\ R \ {i} = Q /\ \A j \in Q : f[j] = g[j]
      /\ W \ {i} = V /\ \A j \in V : f[j] = g[j]
  OBVIOUS
<1>2. i \in R /\ (i \in W <=> u[i].left > 0) /\ f[i] = u[i].stake /\ f[i] \in Nat
  BY DEF Table
<1>3. IsFiniteSet(R) /\ IsFiniteSet(W)
  BY IdsFinite, FS_Subset
<1>4. (\A j \in R : f[j] \in Nat) /\ (\A j \in W : f[j] \in Nat)
  BY DEF Table
<1> HIDE DEF f, g, R, W, Q, V
<1>5. Total(f, R) = Total(f, R \ {i}) + f[i]
  BY <1>2, <1>3, <1>4, TotalRemove
<1>6. /\ Total(f, W \ {i}) \in Nat
      /\ i \in W => Total(f, W) = Total(f, W \ {i}) + f[i]
      /\ i \notin W => Total(f, W) = Total(f, W \ {i})
  BY <1>3, <1>4, TotalRemove
<1>7. Total(f, Q) = Total(g, Q) /\ Total(f, V) = Total(g, V)
  BY <1>1, TotalSame
<1>8. Total(f, R) = Total(g, Q) + u[i].stake
  BY <1>1, <1>2, <1>5, <1>7
<1>9. Total(f, W \ {i}) = Total(g, V) /\ Total(g, V) \in Nat
  BY <1>1, <1>6, <1>7
<1>10. u[i].left > 0 => Total(f, W) = Total(g, V) + u[i].stake
  BY <1>2, <1>6, <1>9
<1>11. ~(u[i].left > 0) => Total(f, W) = Total(g, V)
  BY <1>2, <1>6, <1>9
<1> QED
  BY <1>8, <1>10, <1>11 DEF f, g, R, W, Q, V, Owes, Comes

-----------------------------------------------------------------------------
(* The next key is free: there is one more than the largest in use. *)
LEMMA NextIdFree ==
  ASSUME TokenAssumption
  PROVE  /\ NextId \in 0 .. MaxId + 1
         /\ NextId <= MaxId => NextId \in Ids /\ unstakes[NextId].account = Nobody
<1> DEFINE Used == {i \in Ids : unstakes[i].account # Nobody}
           Free == {n \in 0 .. MaxId + 1 : \A i \in Used : i < n}
<1>1. MaxId \in Nat
  BY DEF TokenAssumption
<1>2. Free \subseteq Nat /\ MaxId + 1 \in Free
  BY <1>1 DEF Ids
<1>3. IsWellFoundedOn(OpToRel(<, Nat), Nat)
  BY NatLessThanWellFounded
<1>4. \E n \in Free : \A m \in Free : ~ (<<m, n>> \in OpToRel(<, Nat))
  <2> HIDE DEF Free
  <2> QED
    BY <1>2, <1>3, WFMin
<1>5. PICK n \in Free : \A m \in Free : ~ (<<m, n>> \in OpToRel(<, Nat))
  BY <1>4
<1>6. \A m \in Free : ~ (m < n)
  BY <1>2, <1>5 DEF OpToRel
<1>7. n = 0 \/ unstakes[n - 1].account # Nobody
  <2> SUFFICES ASSUME n # 0, unstakes[n - 1].account = Nobody PROVE FALSE
    OBVIOUS
  <2>1. n - 1 \in 0 .. MaxId + 1 /\ n \in 1 .. MaxId + 1
    BY <1>1
  <2>2. \A i \in Used : i < n - 1
    BY <1>1, <2>1 DEF Ids
  <2> QED
    BY <1>1, <1>6, <2>1, <2>2
<1>8. \A i \in Ids : unstakes[i].account # Nobody => i < n
  OBVIOUS
<1>9. /\ NextId \in 0 .. MaxId + 1
      /\ \A i \in Ids : unstakes[i].account # Nobody => i < NextId
  <2>1. n \in 0 .. MaxId + 1
    OBVIOUS
  <2> QED
    BY <2>1, <1>7, <1>8 DEF NextId
<1> QED
  BY <1>1, <1>9 DEF Ids

-----------------------------------------------------------------------------
(* What get_liquid leaves: the account's rows that still wait, and all of   *)
(* the others' rows.                                                        *)
LEMMA Sweeping ==
  ASSUME TokenAssumption, TypeOK, NEW a \in Accounts
  PROVE  /\ Swept(a) \in Table
         /\ \A i \in Ids : Swept(a)[i].account = Nobody => Swept(a)[i] = NoUnstake
         /\ Owes(Swept(a), a) = Comes(unstakes, a)
         /\ Comes(Swept(a), a) = Comes(unstakes, a)
         /\ \A b \in Accounts \ {a} : /\ Owes(Swept(a), b) = Owes(unstakes, b)
                                      /\ Comes(Swept(a), b) = Comes(unstakes, b)
<1> DEFINE u == unstakes
           v == Swept(a)
<1>1. u \in Table /\ (\A i \in Ids : u[i].account = Nobody => u[i] = NoUnstake) /\ a # Nobody
  BY DEF TypeOK, Table, TokenAssumption
<1>2. \A i \in Ids : v[i] = IF u[i].account = a /\ ~(u[i].left > 0) THEN NoUnstake ELSE u[i]
  BY DEF Swept, RowsOf, Waiting
<1>3. NoUnstake \in [account : Accounts \cup {Nobody}, stake : Nat, left : Nat]
      /\ NoUnstake.account = Nobody
  BY DEF NoUnstake
<1>4. DOMAIN v = Ids /\ v = [i \in Ids |-> v[i]]
  BY DEF Swept
<1> HIDE DEF u, v
<1>5. v \in Table /\ \A i \in Ids : v[i].account = Nobody => v[i] = NoUnstake
  BY <1>1, <1>2, <1>3, <1>4 DEF Table
<1>6. \A i \in Ids : v[i].account = a <=> u[i].account = a /\ u[i].left > 0
  BY <1>1, <1>2, <1>3
<1>7. \A i \in Ids : v[i].account = a => v[i] = u[i]
  BY <1>1, <1>2, <1>3
<1>8. Comes(v, a) = Comes(u, a)
  BY <1>6, <1>7, ComesSame
<1>9. Owes(v, a) = Comes(v, a)
  <2> DEFINE f == [i \in Ids |-> v[i].stake]
  <2>1. {i \in Ids : v[i].account = a} = {i \in Ids : v[i].account = a /\ v[i].left > 0}
    BY <1>6, <1>7
  <2> QED
    BY <2>1 DEF Owes, Comes
<1>10. ASSUME NEW b \in Accounts \ {a}
       PROVE  Owes(v, b) = Owes(u, b) /\ Comes(v, b) = Comes(u, b)
  <2>1. b # Nobody
    BY DEF TokenAssumption
  <2>2. \A i \in Ids : v[i].account = b <=> u[i].account = b
    BY <2>1, <1>2, <1>3
  <2>3. \A i \in Ids : v[i].account = b => v[i] = u[i]
    BY <2>1, <1>2, <1>3
  <2>4. Owes(v, b) = Owes(u, b)
    BY <2>2, <2>3, OwesSame
  <2>5. Comes(v, b) = Comes(u, b)
    BY <2>2, <2>3, ComesSame
  <2> QED
    BY <2>4, <2>5
<1> QED
  BY <1>5, <1>8, <1>9, <1>10 DEF u, v

(* The clock changes no amount. *)
LEMMA Ticking ==
  ASSUME TokenAssumption, TypeOK, Tick
  PROVE  /\ unstakes' \in Table
         /\ \A i \in Ids : unstakes'[i].account = Nobody => unstakes'[i] = NoUnstake
         /\ \A a \in Accounts : Owes(unstakes', a) = Owes(unstakes, a)
<1> DEFINE l(i) == IF unstakes[i].left > 0 THEN unstakes[i].left - 1 ELSE 0
<1>1. unstakes \in Table /\ \A i \in Ids : unstakes[i].account = Nobody => unstakes[i] = NoUnstake
  BY DEF TypeOK, Table
<1>2. unstakes' = [i \in Ids |-> [unstakes[i] EXCEPT !.left = l(i)]]
  BY DEF Tick
<1>3. \A i \in Ids : l(i) \in Nat /\ (unstakes[i].left = 0 => l(i) = 0)
  BY <1>1 DEF Table
<1> HIDE DEF l
<1>4. ASSUME NEW i \in Ids
      PROVE  /\ unstakes'[i] \in [account : Accounts \cup {Nobody}, stake : Nat, left : Nat]
             /\ unstakes'[i].account = unstakes[i].account /\ unstakes'[i].stake = unstakes[i].stake
             /\ unstakes'[i].account = Nobody => unstakes'[i] = NoUnstake
  <2>1. unstakes[i] \in [account : Accounts \cup {Nobody}, stake : Nat, left : Nat]
    BY <1>1 DEF Table
  <2>2. unstakes'[i] = [unstakes[i] EXCEPT !.left = l(i)]
    BY <1>2
  <2>3. unstakes[i].account = Nobody => unstakes[i] = NoUnstake /\ unstakes[i].left = 0
    BY <1>1 DEF NoUnstake
  <2> QED
    BY <2>1, <2>2, <2>3, <1>3 DEF NoUnstake
<1>5. unstakes' \in Table
  BY <1>2, <1>4 DEF Table
<1> QED
  BY <1>4, <1>5, OwesSame

(* A new balance of one account changes the sum by the difference. *)
LEMMA HeldChange ==
  ASSUME TokenAssumption, NEW h \in [Accounts -> Nat], NEW g \in [Accounts -> Nat],
         NEW a \in Accounts, \A b \in Accounts \ {a} : g[b] = h[b]
  PROVE  /\ Total(h, Accounts) \in Nat /\ Total(h, Accounts) >= h[a]
         /\ Total(g, Accounts) = Total(h, Accounts) - h[a] + g[a]
<1>1. IsFiniteSet(Accounts) /\ h[a] \in Nat /\ g[a] \in Nat
  BY DEF TokenAssumption
<1>2. \A v \in Accounts : h[v] \in Nat
  OBVIOUS
<1>3. \A v \in Accounts : g[v] \in Nat
  OBVIOUS
<1>4. Total(h, Accounts \ {a}) \in Nat /\ Total(h, Accounts) = Total(h, Accounts \ {a}) + h[a]
  BY <1>1, <1>2, TotalRemove
<1>5. Total(g, Accounts) = Total(g, Accounts \ {a}) + g[a]
  BY <1>1, <1>3, TotalRemove
<1>6. Total(g, Accounts \ {a}) = Total(h, Accounts \ {a})
  BY TotalSame
<1> QED
  BY <1>1, <1>4, <1>5, <1>6

-----------------------------------------------------------------------------
(* The stakes side and the balance side of the type. *)
StakesTyped ==
  /\ stakes \in [Accounts -> Nat]
  /\ unstakes \in Table
  /\ \A i \in Ids : unstakes[i].account = Nobody => unstakes[i] = NoUnstake
  /\ delays \in [Accounts -> Nat \cup {NoDelay}]
  /\ config \in Settings /\ denied \subseteq Accounts /\ loose \subseteq Accounts

Books ==
  /\ supply \in 0 .. MaxSupply
  /\ issuer \in Accounts \cup {Nobody}
  /\ locked \in BOOLEAN
  /\ held \in [Accounts -> Nat] /\ rows \subseteq Accounts
  /\ SupplyIsSum

LEMMA TypeParts == StakesTyped /\ Books <=> TypeOK /\ SupplyIsSum
BY DEF StakesTyped, Books, TypeOK, Table

LEMMA InitParts == ASSUME TokenAssumption, Init PROVE StakesTyped /\ Books
<1>1. /\ held \in [Accounts -> Nat] /\ (\A a \in Accounts : held[a] = 0)
      /\ supply \in 0 .. MaxSupply /\ supply = 0
      /\ issuer = Nobody /\ locked = FALSE /\ rows = {}
  BY DEF Init, TokenAssumption
<1>2. Books
  <2>1. Total(held, Accounts) = 0
    BY <1>1, TotalZero DEF TokenAssumption
  <2> QED
    BY <1>1, <2>1 DEF Books, SupplyIsSum
<1>3. NoUnstake \in [account : Accounts \cup {Nobody}, stake : Nat, left : Nat]
  BY DEF NoUnstake
<1> HIDE DEF NoUnstake
<1>4. StakesTyped
  BY <1>3 DEF Init, StakesTyped, Table, TokenAssumption
<1> QED
  BY <1>2, <1>4

LEMMA SweepDelays ==
  ASSUME StakesTyped, NEW a \in Accounts
  PROVE  SweptDelays(a) \in [Accounts -> Nat \cup {NoDelay}]
BY DEF StakesTyped, SweptDelays

(* Steps on stakes leave the balances alone; their tables stay well formed. *)
LEMMA StakeTyped ==
  ASSUME TokenAssumption, TypeOK, StakesTyped, StakeStep
  PROVE  StakesTyped' /\ UNCHANGED balanceVars
<1> USE DEF TokenAssumption
<1>1. ASSUME NEW a \in Accounts, NEW q \in Amounts, Stake(a, q)
      PROVE  StakesTyped' /\ UNCHANGED balanceVars
  <2>1. stakes' \in [Accounts -> Nat]
    BY <1>1 DEF Stake, StakesTyped, Amounts
  <2>2. unstakes' = Swept(a) /\ delays' = SweptDelays(a)
    BY <1>1 DEF Stake, GetLiquid
  <2> QED
    BY <1>1, <2>1, <2>2, Sweeping, SweepDelays DEF Stake, StakesTyped
<1>2. ASSUME NEW a \in Accounts, NEW q \in Amounts, Unstake(a, q)
      PROVE  StakesTyped' /\ UNCHANGED balanceVars
  <2> DEFINE z == [account |-> a, stake |-> q, left |-> UnstakeDelay(a) + 1]
  <2>1. UnstakeDelay(a) \in Nat
    BY DEF UnstakeDelay, StakesTyped, Settings
  <2>2. z \in [account : Accounts \cup {Nobody}, stake : Nat, left : Nat] /\ z.account # Nobody
    BY <2>1 DEF Amounts
  <2>3. unstakes' = [unstakes EXCEPT ![NextId] = z]
    BY <1>2 DEF Unstake
  <2>4. NextId \in Ids
    BY <1>2, NextIdFree DEF Unstake
  <2> HIDE DEF z
  <2>5. unstakes' \in Table /\ \A i \in Ids : unstakes'[i].account = Nobody => unstakes'[i] = NoUnstake
    BY <2>2, <2>3, <2>4 DEF StakesTyped, Table
  <2>6. stakes' \in [Accounts -> Nat]
    BY <1>2 DEF Unstake, StakesTyped, Amounts
  <2> QED
    BY <1>2, <2>5, <2>6 DEF Unstake, StakesTyped
<1>3. ASSUME NEW a \in Accounts, ClaimUnstakes(a)
      PROVE  StakesTyped' /\ UNCHANGED balanceVars
  <2>1. unstakes' = Swept(a) /\ delays' = SweptDelays(a)
    BY <1>3 DEF ClaimUnstakes, GetLiquid
  <2> QED
    BY <1>3, <2>1, Sweeping, SweepDelays DEF ClaimUnstakes, StakesTyped
<1>4. ASSUME NEW a \in Accounts, NEW d \in config.min_stake_time .. config.max_stake_time,
             StakeTime(a, d)
      PROVE  StakesTyped' /\ UNCHANGED balanceVars
  <2>1. d \in Nat
    BY DEF StakesTyped, Settings
  <2> QED
    BY <1>4, <2>1 DEF StakeTime, StakesTyped
<1>5. ASSUME NEW i \in Ids, Cancel(i) PROVE StakesTyped' /\ UNCHANGED balanceVars
  <2>1. NoUnstake \in [account : Accounts \cup {Nobody}, stake : Nat, left : Nat]
    BY DEF NoUnstake
  <2>2. unstakes[i].account \in Accounts /\ unstakes[i].stake \in Nat
    BY <1>5 DEF Cancel, StakesTyped, Table
  <2>3. stakes' \in [Accounts -> Nat]
    BY <1>5, <2>2 DEF Cancel, StakesTyped
  <2> HIDE DEF NoUnstake
  <2>4. unstakes' \in Table /\ \A j \in Ids : unstakes'[j].account = Nobody => unstakes'[j] = NoUnstake
    BY <1>5, <2>1 DEF Cancel, StakesTyped, Table
  <2> QED
    BY <1>5, <2>3, <2>4 DEF Cancel, StakesTyped
<1>6. ASSUME NEW c \in Configs, StakeConfig(c) PROVE StakesTyped' /\ UNCHANGED balanceVars
  BY <1>6 DEF StakeConfig, StakesTyped, stakeVars
<1> QED
  BY <1>1, <1>2, <1>3, <1>4, <1>5, <1>6 DEF StakeStep

(* Steps on balances keep the books. *)
LEMMA TokenBooks ==
  ASSUME TokenAssumption, TypeOK, StakesTyped, Books, TokenStep
  PROVE  StakesTyped' /\ Books'
<1>1. held \in [Accounts -> Nat] /\ supply = Total(held, Accounts) /\ supply \in 0 .. MaxSupply
      /\ MaxSupply \in Nat /\ Nobody \notin Accounts
  BY DEF Books, SupplyIsSum, TokenAssumption
<1>10. held \in [Accounts -> Nat]
  BY <1>1
<1>2. ASSUME NEW i \in Accounts, NEW lock \in BOOLEAN, Create(i, lock)
      PROVE  StakesTyped' /\ Books'
  BY <1>2 DEF Create, StakesTyped, Books, SupplyIsSum, stakeVars
<1>3. ASSUME NEW q \in Amounts, Issue(q) PROVE StakesTyped' /\ Books'
  <2> DEFINE n == held[issuer] + q
  <2>1. q \in Nat /\ issuer \in Accounts /\ held[issuer] \in Nat /\ n \in Nat
    BY <1>1, <1>3 DEF Issue, Amounts, Books
  <2>2. held' = [held EXCEPT ![issuer] = n]
    BY <1>3 DEF Issue
  <2>3. n = held[issuer] + q
    OBVIOUS
  <2> HIDE DEF n
  <2>8. held' \in [Accounts -> Nat] /\ held'[issuer] = n
        /\ \A b \in Accounts \ {issuer} : held'[b] = held[b]
    BY <1>10, <2>1, <2>2
  <2>4. held' \in [Accounts -> Nat]
        /\ Total(held', Accounts) = Total(held, Accounts) - held[issuer] + n
    BY <1>10, <2>1, <2>8, HeldChange
  <2>5. Total(held', Accounts) = supply + q /\ supply + q \in 0 .. MaxSupply
    BY <1>1, <1>3, <2>1, <2>3, <2>4 DEF Issue
  <2>6. \A a \in Accounts \ rows' : held'[a] = 0
    BY <1>3, <2>2 DEF Issue, Books, SupplyIsSum
  <2>7. Books'
    BY <1>3, <2>1, <2>4, <2>5, <2>6 DEF Issue, Books, SupplyIsSum
  <2> QED
    BY <1>3, <2>7 DEF Issue, StakesTyped, stakeVars
<1>4. ASSUME NEW a \in Accounts, NEW q \in Amounts, Burn(a, q) PROVE StakesTyped' /\ Books'
  <2> DEFINE n == held[a] - q
  <2>1. q \in Nat /\ held[a] \in Nat /\ n \in Nat
    BY <1>1, <1>4 DEF Burn, Amounts, Has
  <2>2. held' = [held EXCEPT ![a] = n]
    BY <1>4 DEF Burn
  <2>3. n = held[a] - q
    OBVIOUS
  <2> HIDE DEF n
  <2>8. held' \in [Accounts -> Nat] /\ held'[a] = n
        /\ \A b \in Accounts \ {a} : held'[b] = held[b]
    BY <1>10, <2>1, <2>2
  <2>4. held' \in [Accounts -> Nat] /\ Total(held, Accounts) >= held[a]
        /\ Total(held', Accounts) = Total(held, Accounts) - held[a] + n
    BY <1>10, <2>1, <2>8, HeldChange
  <2>5. Total(held', Accounts) = supply - q /\ supply - q \in 0 .. MaxSupply
    BY <1>1, <2>1, <2>3, <2>4
  <2>6. \A b \in Accounts \ rows : held'[b] = 0
    BY <1>4, <2>2 DEF Burn, Has, Books, SupplyIsSum
  <2>7. Books'
    BY <1>4, <2>4, <2>5, <2>6 DEF Burn, Books, SupplyIsSum
  <2> QED
    BY <1>4, <2>7 DEF Burn, StakesTyped, stakeVars
<1>5. CASE Unlock
  BY <1>5 DEF Unlock, StakesTyped, Books, SupplyIsSum, stakeVars
<1>6. ASSUME NEW from \in Accounts, NEW to \in Accounts, NEW q \in Amounts, NEW sg \in BOOLEAN,
             Transfer(from, to, q, sg)
      PROVE  StakesTyped' /\ Books'
  <2> DEFINE n == held[from] - q
             m == held[to] + q
             g == [held EXCEPT ![from] = n]
  <2>1. q \in Nat /\ held[from] \in Nat /\ held[to] \in Nat /\ n \in Nat /\ m \in Nat /\ from # to
    BY <1>1, <1>6 DEF Transfer, Amounts, Has
  <2>2. held' = [g EXCEPT ![to] = m] /\ g[to] = held[to] /\ g = [held EXCEPT ![from] = n]
    BY <1>6, <2>1, <1>1 DEF Transfer
  <2>3. n = held[from] - q /\ m = held[to] + q
    OBVIOUS
  <2>4. \A b \in Accounts \ {to, from} : held'[b] = held[b]
    BY <2>2, <1>1
  <2> HIDE DEF n, m, g
  <2>13. g \in [Accounts -> Nat] /\ g[from] = n
         /\ \A b \in Accounts \ {from} : g[b] = held[b]
    BY <1>10, <2>1, <2>2
  <2>14. held' \in [Accounts -> Nat] /\ held'[to] = m
         /\ \A b \in Accounts \ {to} : held'[b] = g[b]
    BY <2>1, <2>2, <2>13
  <2>5. Total(held, Accounts) \in Nat
        /\ Total(g, Accounts) = Total(held, Accounts) - held[from] + n
    BY <1>10, <2>1, <2>13, HeldChange
  <2>6. Total(held', Accounts) = Total(g, Accounts) - g[to] + m
    BY <2>1, <2>13, <2>14, HeldChange
  <2>7. Total(held', Accounts) = supply
    BY <1>1, <2>1, <2>2, <2>3, <2>5, <2>6
  <2>8. \A b \in Accounts \ rows' : held'[b] = 0
    BY <1>6, <2>4 DEF Transfer, Has, Books, SupplyIsSum
  <2>9. Books'
    BY <1>6, <2>14, <2>7, <2>8 DEF Transfer, Books, SupplyIsSum
  <2>10. loose' \subseteq Accounts
    BY <1>6 DEF Transfer, StakesTyped
  <2>11. CASE config.enabled
    <3>1. unstakes' = Swept(from) /\ delays' = SweptDelays(from)
      BY <1>6, <2>11 DEF Transfer, GetLiquid
    <3> QED
      BY <1>6, <2>9, <2>10, <3>1, Sweeping, SweepDelays DEF Transfer, StakesTyped
  <2>12. CASE ~config.enabled
    BY <1>6, <2>9, <2>10, <2>12 DEF Transfer, StakesTyped
  <2> QED
    BY <2>11, <2>12
<1>7. ASSUME NEW a \in Accounts, Close(a) PROVE StakesTyped' /\ Books'
  BY <1>7 DEF Close, StakesTyped, Books, SupplyIsSum, stakeVars
<1>8. CASE ChngIssuer
  BY <1>8 DEF ChngIssuer, StakesTyped, Books, SupplyIsSum, stakeVars, TokenAssumption
<1>9. ASSUME NEW a \in Deniable, NEW z \in BOOLEAN, SetParam(a, z) PROVE StakesTyped' /\ Books'
  BY <1>9 DEF SetParam, StakesTyped, Books, SupplyIsSum, stakeVars, balanceVars, TokenAssumption
<1> QED
  BY <1>2, <1>3, <1>4, <1>5, <1>6, <1>7, <1>8, <1>9 DEF TokenStep

LEMMA NextParts ==
  ASSUME TokenAssumption, StakesTyped, Books, [Next]_vars
  PROVE  StakesTyped' /\ Books'
<1>1. TypeOK
  BY TypeParts
<1>2. CASE Tick
  BY <1>1, <1>2, Ticking DEF Tick, StakesTyped, Books, SupplyIsSum, balanceVars
<1>3. CASE TokenStep
  BY <1>1, <1>3, TokenBooks
<1>4. CASE StakeStep
  <2>1. StakesTyped' /\ UNCHANGED balanceVars
    BY <1>1, <1>4, StakeTyped
  <2> QED
    BY <2>1 DEF balanceVars, Books, SupplyIsSum
<1>5. CASE UNCHANGED vars
  BY <1>5 DEF vars, balanceVars, stakeVars, StakesTyped, Books, SupplyIsSum
<1> QED
  BY <1>2, <1>3, <1>4, <1>5 DEF Next

(* All tables stay well formed, and the supply within its maximum. *)
THEOREM TypeCorrect == ASSUME TokenAssumption PROVE Spec => []TypeOK
<1>1. Init => StakesTyped /\ Books
  BY InitParts
<1>2. StakesTyped /\ Books /\ [Next]_vars => (StakesTyped /\ Books)'
  BY NextParts
<1>3. StakesTyped /\ Books => TypeOK
  BY TypeParts
<1> QED
  BY <1>1, <1>2, <1>3, PTL DEF Spec

(* Every token issued and not burnt is in one balance: for any number of    *)
(* accounts and tokens.                                                     *)
THEOREM SupplyCorrect == ASSUME TokenAssumption PROVE Spec => []SupplyIsSum
<1>1. Init => StakesTyped /\ Books
  BY InitParts
<1>2. StakesTyped /\ Books /\ [Next]_vars => (StakesTyped /\ Books)'
  BY NextParts
<1>3. StakesTyped /\ Books => SupplyIsSum
  BY TypeParts
<1> QED
  BY <1>1, <1>2, <1>3, PTL DEF Spec

-----------------------------------------------------------------------------
(* What unstake and cancel do to the amounts on their way. *)
LEMMA UnstakeAmounts ==
  ASSUME TokenAssumption, StakesTyped, NEW a \in Accounts, NEW q \in Amounts, Unstake(a, q),
         unstakes' \in Table
  PROVE  /\ Owes(unstakes', a) = Owes(unstakes, a) + q
         /\ Comes(unstakes', a) = Comes(unstakes, a) + q
         /\ \A b \in Accounts \ {a} : /\ Owes(unstakes', b) = Owes(unstakes, b)
                                      /\ Comes(unstakes', b) = Comes(unstakes, b)
<1> DEFINE z == [account |-> a, stake |-> q, left |-> UnstakeDelay(a) + 1]
           u == unstakes'
           v == unstakes
           i == NextId
<1>1. u = [v EXCEPT ![i] = z] /\ i \in Ids /\ v[i].account = Nobody
  BY NextIdFree DEF Unstake
<1>2. z.account = a /\ z.stake = q /\ z.left > 0
  BY DEF UnstakeDelay, StakesTyped, Settings
<1>3. u \in Table /\ v \in Table /\ Nobody \notin Accounts
  BY DEF StakesTyped, TokenAssumption
<1> HIDE DEF z, u, v, i
<1>4. u[i] = z /\ \A j \in Ids \ {i} : u[j] = v[j]
  BY <1>1, <1>3 DEF Table
<1>5. Owes(u, a) = Owes(v, a) + q /\ Comes(u, a) = Comes(v, a) + q
  <2>1. u[i].account = a /\ u[i].stake = q /\ u[i].left > 0 /\ v[i].account # a /\ i \in Ids
    BY <1>1, <1>2, <1>3, <1>4
  <2>2. \A j \in Ids \ {i} : u[j] = v[j]
    BY <1>4
  <2>3. Owes(u, a) = Owes(v, a) + u[i].stake
    BY <1>3, <2>1, <2>2, OwesRow
  <2>4. Comes(u, a) = Comes(v, a) + u[i].stake
    BY <1>3, <2>1, <2>2, OwesRow
  <2> QED
    BY <2>1, <2>3, <2>4
<1>6. ASSUME NEW b \in Accounts \ {a}
      PROVE  Owes(u, b) = Owes(v, b) /\ Comes(u, b) = Comes(v, b)
  <2>1. \A j \in Ids : u[j].account = b <=> v[j].account = b
    BY <1>1, <1>2, <1>3, <1>4
  <2>2. \A j \in Ids : u[j].account = b => u[j] = v[j]
    BY <1>2, <1>4
  <2>3. Owes(u, b) = Owes(v, b)
    BY <2>1, <2>2, OwesSame
  <2>4. Comes(u, b) = Comes(v, b)
    BY <2>1, <2>2, ComesSame
  <2> QED
    BY <2>3, <2>4
<1> QED
  BY <1>5, <1>6 DEF u, v

LEMMA CancelAmounts ==
  ASSUME TokenAssumption, StakesTyped, NEW i \in Ids, Cancel(i), unstakes' \in Table,
         NEW a, a = unstakes[i].account
  PROVE  /\ a \in Accounts /\ unstakes[i].stake \in Nat
         /\ Owes(unstakes, a) = Owes(unstakes', a) + unstakes[i].stake
         /\ Comes(unstakes, a) <= Comes(unstakes', a) + unstakes[i].stake
         /\ \A b \in Accounts \ {a} : /\ Owes(unstakes', b) = Owes(unstakes, b)
                                      /\ Comes(unstakes', b) = Comes(unstakes, b)
<1> DEFINE u == unstakes
           v == unstakes'
<1>1. v = [u EXCEPT ![i] = NoUnstake] /\ u[i].account # Nobody /\ NoUnstake.account = Nobody
  BY DEF Cancel, NoUnstake
<1>2. u \in Table /\ v \in Table /\ Nobody \notin Accounts
  BY DEF StakesTyped, TokenAssumption
<1>3. u[i].account \in Accounts /\ u[i].stake \in Nat
  BY <1>1, <1>2 DEF Table
<1> HIDE DEF u, v, NoUnstake
<1>4. v[i] = NoUnstake /\ \A j \in Ids \ {i} : u[j] = v[j]
  BY <1>1, <1>2 DEF Table
<1>5. a = u[i].account
  BY DEF u
<1>6. /\ Owes(u, a) = Owes(v, a) + u[i].stake
      /\ u[i].left > 0 => Comes(u, a) = Comes(v, a) + u[i].stake
      /\ ~(u[i].left > 0) => Comes(u, a) = Comes(v, a)
  <2>1. u[i].account = a /\ v[i].account # a /\ \A j \in Ids \ {i} : u[j] = v[j]
    BY <1>1, <1>4, <1>5
  <2> QED
    BY <1>2, <2>1, OwesRow
<1>7. Comes(v, a) \in Nat
  BY <1>2, OwesNat
<1>8. Comes(u, a) <= Comes(v, a) + u[i].stake
  <2>1. CASE u[i].left > 0
    BY <1>3, <1>6, <1>7, <2>1
  <2>2. CASE ~(u[i].left > 0)
    BY <1>3, <1>6, <1>7, <2>2
  <2> QED
    BY <2>1, <2>2
<1>9. ASSUME NEW b \in Accounts \ {a}
      PROVE  Owes(v, b) = Owes(u, b) /\ Comes(v, b) = Comes(u, b)
  <2>1. \A j \in Ids : v[j].account = b <=> u[j].account = b
    BY <1>1, <1>2, <1>4, <1>5
  <2>2. \A j \in Ids : v[j].account = b => v[j] = u[j]
    BY <1>1, <1>2, <1>4, <1>5
  <2>3. Owes(v, b) = Owes(u, b)
    BY <2>1, <2>2, OwesSame
  <2>4. Comes(v, b) = Comes(u, b)
    BY <2>1, <2>2, ComesSame
  <2> QED
    BY <2>3, <2>4
<1> QED
  BY <1>3, <1>5, <1>6, <1>8, <1>9 DEF u, v

(* The liquid balance, before and after a step. *)
LEMMA LiquidIs ==
  ASSUME NEW a
  PROVE  /\ Liquid(a) = held[a] - stakes[a] - Comes(unstakes, a)
         /\ Liquid(a)' = held'[a] - stakes'[a] - Comes(unstakes', a)
<1>1. {i \in RowsOf(a) : Waiting(unstakes[i])} = {i \in Ids : unstakes[i].account = a /\ unstakes[i].left > 0}
  BY DEF RowsOf, Waiting
<1>2. {i \in RowsOf(a) : Waiting(unstakes[i])}' = {i \in Ids : unstakes'[i].account = a /\ unstakes'[i].left > 0}
  BY DEF RowsOf, Waiting
<1> QED
  BY <1>1, <1>2 DEF Liquid, WaitingOf, Parcels, Comes

-----------------------------------------------------------------------------
(* A stake and all unstakes of an account that is not loose are covered.    *)
Backed == \A a \in Accounts \ loose : stakes[a] + Owes(unstakes, a) <= held[a]

LEMMA NextBacked ==
  ASSUME TokenAssumption, StakesTyped, Books, Backed, StakesTyped', Books', [Next]_vars
  PROVE  Backed'
<1>1. TypeOK
  BY TypeParts
<1>2. /\ \A a \in Accounts : held[a] \in Nat /\ held'[a] \in Nat
      /\ \A a \in Accounts : stakes[a] \in Nat /\ stakes'[a] \in Nat
      /\ \A a : Owes(unstakes, a) \in Nat /\ Comes(unstakes, a) \in Nat
                /\ Comes(unstakes, a) <= Owes(unstakes, a)
      /\ unstakes' \in Table /\ \A a : Owes(unstakes', a) \in Nat
  <2>1. unstakes \in Table /\ unstakes' \in Table
    BY DEF StakesTyped
  <2> QED
    BY <2>1, OwesNat DEF Books, StakesTyped
<1>3. ASSUME UNCHANGED <<held, stakes, unstakes, loose>> PROVE Backed'
  BY <1>3 DEF Backed
<1>4. CASE Tick
  BY <1>1, <1>4, Ticking DEF Tick, balanceVars, Backed
<1>5. ASSUME NEW q \in Amounts, Issue(q) PROVE Backed'
  <2>1. \A a \in Accounts : held'[a] >= held[a]
    BY <1>2, <1>5 DEF Issue, Amounts, Books, TokenAssumption
  <2> QED
    BY <1>2, <1>5, <2>1 DEF Issue, stakeVars, Backed
<1>6. ASSUME NEW a \in Accounts, NEW q \in Amounts, Burn(a, q) PROVE Backed'
  <2>1. \A b \in Accounts \ {a} : held'[b] = held[b]
    BY <1>6 DEF Burn, Books
  <2> QED
    BY <1>6, <2>1 DEF Burn, stakeVars, Backed
<1>7. ASSUME NEW from \in Accounts, NEW to \in Accounts, NEW q \in Amounts, NEW sg \in BOOLEAN,
             Transfer(from, to, q, sg)
      PROVE  Backed'
  <2>1. /\ held'[from] = held[from] - q /\ from # to /\ q \in Nat
        /\ \A b \in Accounts \ {from} : held'[b] >= held[b]
        /\ stakes' = stakes
    BY <1>2, <1>7 DEF Transfer, Amounts, Books, TokenAssumption
  <2>2. CASE config.enabled
    <3>1. unstakes' = Swept(from) /\ q <= Liquid(from) /\ loose' = loose
      BY <1>7, <2>2 DEF Transfer, GetLiquid
    <3>2. Owes(unstakes', from) = Comes(unstakes, from)
          /\ \A b \in Accounts \ {from} : Owes(unstakes', b) = Owes(unstakes, b)
      BY <1>1, <3>1, Sweeping
    <3>3. q <= held[from] - stakes[from] - Comes(unstakes, from)
      BY <3>1, LiquidIs
    <3>4. stakes'[from] + Owes(unstakes', from) <= held'[from]
      BY <1>2, <2>1, <3>2, <3>3
    <3>5. ASSUME NEW b \in Accounts \ {from}, b \notin loose'
          PROVE  stakes'[b] + Owes(unstakes', b) <= held'[b]
      BY <1>2, <2>1, <3>1, <3>2, <3>5 DEF Backed
    <3> QED
      BY <3>4, <3>5 DEF Backed
  <2>3. CASE ~config.enabled
    <3>1. unstakes' = unstakes /\ loose' = loose \cup {from}
      BY <1>7, <2>3 DEF Transfer
    <3>2. ASSUME NEW b \in Accounts \ {from}, b \notin loose'
          PROVE  stakes'[b] + Owes(unstakes', b) <= held'[b]
      BY <1>2, <2>1, <3>1, <3>2 DEF Backed
    <3> QED
      BY <3>1, <3>2 DEF Backed
  <2> QED
    BY <2>2, <2>3
<1>8. ASSUME NEW a \in Accounts, NEW q \in Amounts, Stake(a, q) PROVE Backed'
  <2>1. unstakes' = Swept(a) /\ q <= Liquid(a) /\ loose' = loose /\ held' = held
        /\ stakes'[a] = stakes[a] + q /\ q \in Nat
        /\ \A b \in Accounts \ {a} : stakes'[b] = stakes[b]
    BY <1>8 DEF Stake, GetLiquid, balanceVars, StakesTyped, Amounts
  <2>2. Owes(unstakes', a) = Comes(unstakes, a)
        /\ \A b \in Accounts \ {a} : Owes(unstakes', b) = Owes(unstakes, b)
    BY <1>1, <2>1, Sweeping
  <2>3. q <= held[a] - stakes[a] - Comes(unstakes, a)
    BY <2>1, LiquidIs
  <2>4. stakes'[a] + Owes(unstakes', a) <= held'[a]
    BY <1>2, <2>1, <2>2, <2>3
  <2> QED
    BY <2>1, <2>2, <2>4 DEF Backed
<1>9. ASSUME NEW a \in Accounts, NEW q \in Amounts, Unstake(a, q) PROVE Backed'
  <2>1. /\ stakes'[a] = stakes[a] - q /\ q \in Nat /\ held' = held /\ loose' = loose
        /\ \A b \in Accounts \ {a} : stakes'[b] = stakes[b]
    BY <1>9 DEF Unstake, balanceVars, StakesTyped, Amounts
  <2>2. Owes(unstakes', a) = Owes(unstakes, a) + q
        /\ \A b \in Accounts \ {a} : Owes(unstakes', b) = Owes(unstakes, b)
    BY <1>2, <1>9, UnstakeAmounts
  <2>3. stakes'[a] + Owes(unstakes', a) = stakes[a] + Owes(unstakes, a)
    BY <1>2, <2>1, <2>2
  <2> QED
    BY <2>1, <2>2, <2>3 DEF Backed
<1>10. ASSUME NEW a \in Accounts, ClaimUnstakes(a) PROVE Backed'
  <2>1. unstakes' = Swept(a) /\ held' = held /\ stakes' = stakes /\ loose' = loose
    BY <1>10 DEF ClaimUnstakes, GetLiquid, balanceVars
  <2>2. \A b \in Accounts : Owes(unstakes', b) <= Owes(unstakes, b)
    BY <1>1, <1>2, <2>1, Sweeping
  <2> QED
    BY <1>2, <2>1, <2>2 DEF Backed
<1>11. ASSUME NEW i \in Ids, Cancel(i) PROVE Backed'
  <2> DEFINE a == unstakes[i].account
             n == unstakes[i].stake
  <2>1. /\ a \in Accounts /\ n \in Nat
        /\ Owes(unstakes, a) = Owes(unstakes', a) + n
        /\ \A b \in Accounts \ {a} : Owes(unstakes', b) = Owes(unstakes, b)
    BY <1>2, <1>11, CancelAmounts
  <2>2. /\ stakes'[a] = stakes[a] + n /\ held' = held /\ loose' = loose
        /\ \A b \in Accounts \ {a} : stakes'[b] = stakes[b]
    BY <1>11, <2>1 DEF Cancel, balanceVars, StakesTyped
  <2> HIDE DEF a, n
  <2>3. stakes'[a] + Owes(unstakes', a) = stakes[a] + Owes(unstakes, a)
    BY <1>2, <2>1, <2>2
  <2> QED
    BY <2>1, <2>2, <2>3 DEF Backed
<1>12. CASE \/ \E i \in Accounts, lock \in BOOLEAN : Create(i, lock)
            \/ Unlock \/ ChngIssuer
            \/ \E a \in Accounts : Close(a)
            \/ \E a \in Deniable, z \in BOOLEAN : SetParam(a, z)
            \/ \E a \in Accounts : \E d \in config.min_stake_time .. config.max_stake_time : StakeTime(a, d)
            \/ \E c \in Configs : StakeConfig(c)
            \/ UNCHANGED vars
  BY <1>3, <1>12 DEF Create, Unlock, ChngIssuer, Close, SetParam, StakeTime, StakeConfig,
     vars, balanceVars, stakeVars
<1> QED
  BY <1>4, <1>5, <1>6, <1>7, <1>8, <1>9, <1>10, <1>11, <1>12 DEF Next, TokenStep, StakeStep

LEMMA BackedIs == Backed => StakesBacked
BY DEF Backed, StakesBacked, Owes, Parcels, RowsOf

(* Whatever is staked, unstaked, sent, cancelled and claimed in whatever    *)
(* order, no account stakes tokens that it does not have, or has twice.     *)
THEOREM BackedCorrect == ASSUME TokenAssumption PROVE Spec => []StakesBacked
<1>1. Init => StakesTyped /\ Books /\ Backed
  <2>1. ASSUME Init PROVE Backed
    <3>1. ASSUME NEW a \in Accounts PROVE Owes(unstakes, a) = 0
      <4>1. {i \in Ids : unstakes[i].account = a} = {}
        BY <2>1 DEF Init, NoUnstake, TokenAssumption
      <4> QED
        BY <4>1, TotalEmpty DEF Owes
    <3> QED
      BY <2>1, <3>1 DEF Init, Backed
  <2> QED
    BY <2>1, InitParts
<1>2. StakesTyped /\ Books /\ Backed /\ [Next]_vars => (StakesTyped /\ Books /\ Backed)'
  BY NextParts, NextBacked
<1> QED
  BY <1>1, <1>2, BackedIs, PTL DEF Spec

-----------------------------------------------------------------------------
(* The two parts of the lockup, for one account and one step. *)
TimeHolds(a) ==
  delays[a] # NoDelay /\ (stakes[a] > 0 \/ WaitingOf(a) # {}) => delays'[a] >= delays[a]

NoneFreed(a) == Liquid(a)' > Liquid(a) => held'[a] > held[a] \/ Tick

LEMMA SweepHolds ==
  ASSUME StakesTyped, NEW a \in Accounts, delays' = SweptDelays(a), NEW b \in Accounts
  PROVE  TimeHolds(b)
BY DEF SweptDelays, TimeHolds, StakesTyped, NoDelay

LEMMA DelaysSame ==
  ASSUME StakesTyped, delays' = delays, NEW b \in Accounts
  PROVE  TimeHolds(b)
BY DEF TimeHolds, StakesTyped, NoDelay

LEMMA NextTimeHolds ==
  ASSUME TokenAssumption, StakesTyped, [Next]_vars, NEW b \in Accounts
  PROVE  TimeHolds(b)
<1>1. ASSUME NEW a \in Accounts, NEW d \in config.min_stake_time .. config.max_stake_time,
             StakeTime(a, d)
      PROVE  TimeHolds(b)
  <2>1. d \in Nat /\ delays' = [delays EXCEPT ![a] = d]
    BY <1>1 DEF StakeTime, StakesTyped, Settings
  <2>2. delays[a] # NoDelay /\ (stakes[a] > 0 \/ WaitingOf(a) # {}) => d >= delays[a]
    BY <1>1 DEF StakeTime, WaitingOf
  <2> QED
    BY <2>1, <2>2 DEF TimeHolds, StakesTyped, NoDelay
<1>2. ASSUME NEW a \in Accounts, GetLiquid(a) PROVE TimeHolds(b)
  BY <1>2, SweepHolds DEF GetLiquid
<1>3. ASSUME delays' = delays PROVE TimeHolds(b)
  BY <1>3, DelaysSame
<1>4. CASE TokenStep
  BY <1>2, <1>3, <1>4 DEF TokenStep, Create, Issue, Burn, Unlock, Transfer, Close, ChngIssuer,
     SetParam, stakeVars
<1>5. CASE StakeStep
  BY <1>1, <1>2, <1>3, <1>5 DEF StakeStep, Stake, Unstake, ClaimUnstakes, Cancel, StakeConfig,
     stakeVars
<1> QED
  BY <1>3, <1>4, <1>5 DEF Next, Tick, vars, stakeVars

LEMMA NextNoneFreed ==
  ASSUME TokenAssumption, StakesTyped, Books, StakesTyped', Books', [Next]_vars,
         NEW b \in Accounts
  PROVE  NoneFreed(b)
<1>1. TypeOK
  BY TypeParts
<1>2. /\ \A a \in Accounts : held[a] \in Nat /\ held'[a] \in Nat
      /\ \A a \in Accounts : stakes[a] \in Nat /\ stakes'[a] \in Nat
      /\ \A a : Comes(unstakes, a) \in Nat /\ Comes(unstakes', a) \in Nat
      /\ unstakes' \in Table
  <2>1. unstakes \in Table /\ unstakes' \in Table
    BY DEF StakesTyped
  <2> QED
    BY <2>1, OwesNat DEF Books, StakesTyped
<1>3. SUFFICES ASSUME ~Tick, held'[b] <= held[b]
               PROVE  stakes[b] + Comes(unstakes, b) - held[b]
                        <= stakes'[b] + Comes(unstakes', b) - held'[b]
  <2> DEFINE x == held[b]
             y == held'[b]
             s == stakes[b]
             t == stakes'[b]
             k == Comes(unstakes, b)
             l == Comes(unstakes', b)
  <2>1. x \in Nat /\ y \in Nat /\ s \in Nat /\ t \in Nat /\ k \in Nat /\ l \in Nat
    BY <1>2
  <2>2. Liquid(b) = x - s - k /\ Liquid(b)' = y - t - l
    BY LiquidIs
  <2> HIDE DEF x, y, s, t, k, l
  <2>3. y > x \/ ~(s + k - x <= t + l - y) \/ ~(Liquid(b)' > Liquid(b))
    BY <2>1, <2>2
  <2> QED
    BY <1>2, <2>3 DEF NoneFreed, x, y, s, t, k, l
<1>4. ASSUME stakes' = stakes, unstakes' = unstakes
      PROVE  stakes[b] + Comes(unstakes, b) - held[b] <= stakes'[b] + Comes(unstakes', b) - held'[b]
  BY <1>2, <1>3, <1>4
<1>5. ASSUME NEW a \in Accounts, unstakes' = Swept(a), \/ stakes' = stakes
                                                     \/ stakes'[b] >= stakes[b]
      PROVE  stakes[b] + Comes(unstakes, b) - held[b] <= stakes'[b] + Comes(unstakes', b) - held'[b]
  <2>1. Comes(unstakes', b) = Comes(unstakes, b)
    BY <1>1, <1>5, Sweeping
  <2> QED
    BY <1>2, <1>3, <1>5, <2>1
<1>6. ASSUME NEW a \in Accounts, NEW q \in Amounts, Stake(a, q)
      PROVE  stakes[b] + Comes(unstakes, b) - held[b] <= stakes'[b] + Comes(unstakes', b) - held'[b]
  <2>1. unstakes' = Swept(a) /\ stakes'[b] >= stakes[b]
    BY <1>2, <1>6 DEF Stake, GetLiquid, Amounts, StakesTyped
  <2> QED
    BY <1>5, <2>1
<1>7. ASSUME NEW a \in Accounts, NEW q \in Amounts, Unstake(a, q)
      PROVE  stakes[b] + Comes(unstakes, b) - held[b] <= stakes'[b] + Comes(unstakes', b) - held'[b]
  <2>1. /\ stakes'[a] = stakes[a] - q /\ q \in Nat
        /\ b # a => stakes'[b] = stakes[b]
    BY <1>7 DEF Unstake, StakesTyped, Amounts
  <2>2. Comes(unstakes', a) = Comes(unstakes, a) + q
        /\ (b # a => Comes(unstakes', b) = Comes(unstakes, b))
    BY <1>2, <1>7, UnstakeAmounts
  <2>3. stakes'[b] + Comes(unstakes', b) = stakes[b] + Comes(unstakes, b)
    BY <1>2, <2>1, <2>2
  <2> QED
    BY <1>2, <1>3, <2>3
<1>8. ASSUME NEW i \in Ids, Cancel(i)
      PROVE  stakes[b] + Comes(unstakes, b) - held[b] <= stakes'[b] + Comes(unstakes', b) - held'[b]
  <2> DEFINE a == unstakes[i].account
             n == unstakes[i].stake
  <2>1. /\ a \in Accounts /\ n \in Nat
        /\ Comes(unstakes, a) <= Comes(unstakes', a) + n
        /\ (b # a => Comes(unstakes', b) = Comes(unstakes, b))
    BY <1>2, <1>8, CancelAmounts
  <2>2. /\ stakes'[a] = stakes[a] + n
        /\ b # a => stakes'[b] = stakes[b]
    BY <1>8, <2>1 DEF Cancel, StakesTyped
  <2> HIDE DEF a, n
  <2>3. stakes[b] + Comes(unstakes, b) <= stakes'[b] + Comes(unstakes', b)
    BY <1>2, <2>1, <2>2
  <2> QED
    BY <1>2, <1>3, <2>3
<1>9. CASE TokenStep
  BY <1>4, <1>5, <1>9 DEF TokenStep, Create, Issue, Burn, Unlock, Transfer, GetLiquid, Close,
     ChngIssuer, SetParam, stakeVars
<1>10. CASE StakeStep
  BY <1>4, <1>5, <1>6, <1>7, <1>8, <1>10 DEF StakeStep, ClaimUnstakes, GetLiquid, StakeTime,
     StakeConfig, stakeVars, balanceVars
<1> QED
  BY <1>3, <1>4, <1>9, <1>10 DEF Next, vars, stakeVars

(* Nobody gets around a stake time, with any number of stakes, unstakes,    *)
(* cancellations, claims and changes of the settings.                       *)
THEOREM LockupCorrect == ASSUME TokenAssumption PROVE Spec => LockupKept
<1>1. Init => StakesTyped /\ Books
  BY InitParts
<1>2. StakesTyped /\ Books /\ [Next]_vars => (StakesTyped /\ Books)'
  BY NextParts
<1>3. StakesTyped /\ Books /\ [Next]_vars /\ (StakesTyped /\ Books)'
        => [\A a \in Accounts :
              /\ delays[a] # NoDelay /\ (stakes[a] > 0 \/ WaitingOf(a) # {})
                 => delays'[a] >= delays[a]
              /\ Liquid(a)' > Liquid(a) => held'[a] > held[a] \/ Tick]_vars
  BY NextTimeHolds, NextNoneFreed DEF TimeHolds, NoneFreed
<1> QED
  BY <1>1, <1>2, <1>3, PTL DEF Spec, LockupKept

=============================================================================
