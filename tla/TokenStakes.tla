----------------------------- MODULE TokenStakes -----------------------------
(***************************************************************************)
(* The token contract (eosdactokens) for one token of one DAC: balances    *)
(* and supply, stakes, the queue of unstakes and the stake times.          *)
(*                                                                         *)
(* Staked tokens stay in their owner's balance; what an account may send   *)
(* or stake is what get_liquid computes, which also removes the unstakes   *)
(* that have been released.  Of the time only matters how long an unstake  *)
(* still waits: a row keeps the seconds until it counts as released, 0     *)
(* once it is.  The notices to the vote contracts are in DacVoting and     *)
(* Referendum; what those refuse is left out here.                         *)
(*                                                                         *)
(* Operators named Operation_Slip are variants that no step uses.          *)
(***************************************************************************)
EXTENDS Totals

CONSTANTS
  Accounts,
  Nobody,      \* stands for the issuer of no token, the owner of no unstake
  Deniable,    \* accounts that setparam may shut off from receiving
  NewIssuer,   \* whom chngissuer makes the issuer
  MaxSupply,   \* stat.max_supply
  Config0,     \* stake_config as it is before stakeconfig saves one
  Configs,     \* the settings stakeconfig may be given
  MaxId        \* bound: the largest key of an unstake

Settings == [enabled : BOOLEAN, min_stake_time : Nat, max_stake_time : Nat]
Ids == 0 .. MaxId

ASSUME TokenAssumption ==
  /\ IsFiniteSet(Accounts)
  /\ Nobody \notin Accounts
  /\ Deniable \subseteq Accounts
  /\ NewIssuer \in Accounts
  /\ MaxSupply \in Nat /\ MaxId \in Nat
  /\ Config0 \in Settings /\ Configs \subseteq Settings

VARIABLES
  supply,    \* stat.supply
  issuer,    \* stat.issuer, Nobody before create
  locked,    \* stat.transfer_locked
  held,      \* the balance of each account
  rows,      \* the accounts that have a balance row
  stakes,    \* the stakes table; a row never holds 0
  unstakes,  \* the unstakes table
  delays,    \* the staketime table
  config,    \* the stakeconfig singleton
  denied,    \* the deny table
  loose      \* history: who burnt tokens, or sent some while staking was off

balanceVars == <<supply, issuer, locked, held, rows>>
stakeVars == <<stakes, unstakes, delays>>
vars == <<balanceVars, stakeVars, config, denied, loose>>

NoUnstake == [account |-> Nobody, stake |-> 0, left |-> 0]
NoDelay == -1

-----------------------------------------------------------------------------
(* released: strictly after the release time. *)
Waiting(u) == u.left > 0

RowsOf(a) == {i \in Ids : unstakes[i].account = a}
WaitingOf(a) == {i \in RowsOf(a) : Waiting(unstakes[i])}
Parcels == [i \in Ids |-> unstakes[i].stake]

(* get_liquid: the value ...                                                *)
Liquid(a) == held[a] - stakes[a] - Total(Parcels, WaitingOf(a))

(* ... and what it removes: the released unstakes of the account, and its   *)
(* stake time if nothing of it is staked or waiting any more.               *)
Swept(a) ==
  [i \in Ids |-> IF i \in RowsOf(a) /\ ~Waiting(unstakes[i])
                 THEN NoUnstake ELSE unstakes[i]]

SweptDelays_Staked(a) ==
  IF stakes[a] = 0 THEN [delays EXCEPT ![a] = NoDelay] ELSE delays

SweptDelays(a) ==
  IF stakes[a] = 0 /\ WaitingOf(a) = {}
  THEN [delays EXCEPT ![a] = NoDelay] ELSE delays

GetLiquid(a) ==
  /\ a \in rows
  /\ unstakes' = Swept(a)
  /\ delays' = SweptDelays(a)

(* What sub_balance checks. *)
Has_Row(a, q) == a \in rows

Has(a, q) == a \in rows /\ q <= held[a]

(* get_delay *)
UnstakeDelay(a) ==
  IF delays[a] = NoDelay THEN config.min_stake_time ELSE delays[a]

(* available_primary_key: one more than the last key in the table. *)
NextId ==
  CHOOSE n \in 0 .. MaxId + 1 :
    /\ \A i \in Ids : unstakes[i].account # Nobody => i < n
    /\ n = 0 \/ unstakes[n - 1].account # Nobody

-----------------------------------------------------------------------------
Init ==
  /\ supply = 0 /\ issuer = Nobody /\ locked = FALSE
  /\ held = [a \in Accounts |-> 0] /\ rows = {}
  /\ stakes = [a \in Accounts |-> 0]
  /\ unstakes = [i \in Ids |-> NoUnstake]
  /\ delays = [a \in Accounts |-> NoDelay]
  /\ config = Config0
  /\ denied = {}
  /\ loose = {}

Tick ==
  /\ unstakes' = [i \in Ids |->
       [unstakes[i] EXCEPT !.left = IF @ > 0 THEN @ - 1 ELSE 0]]
  /\ UNCHANGED <<balanceVars, stakes, delays, config, denied, loose>>

Create(i, lock) ==
  /\ issuer = Nobody
  /\ MaxSupply > 0
  /\ issuer' = i /\ locked' = lock
  /\ UNCHANGED <<supply, held, rows, stakeVars, config, denied, loose>>

Issue(q) ==
  /\ issuer # Nobody
  /\ q > 0 /\ q <= MaxSupply - supply
  /\ supply' = supply + q
  /\ held' = [held EXCEPT ![issuer] = @ + q]
  /\ rows' = rows \cup {issuer}
  /\ UNCHANGED <<issuer, locked, stakeVars, config, denied, loose>>

(* burn looks at the balance only, not at what of it is staked. *)
Burn_Uncounted(a, q) ==
  /\ issuer # Nobody
  /\ a = issuer \/ ~locked
  /\ q > 0 /\ Has(a, q)
  /\ held' = [held EXCEPT ![a] = @ - q]
  /\ loose' = loose \cup {a}
  /\ UNCHANGED <<supply, issuer, locked, rows, stakeVars, config, denied>>

Burn(a, q) ==
  /\ issuer # Nobody
  /\ a = issuer \/ ~locked
  /\ q > 0 /\ Has(a, q)
  /\ held' = [held EXCEPT ![a] = @ - q]
  /\ supply' = supply - q
  /\ loose' = loose \cup {a}
  /\ UNCHANGED <<issuer, locked, rows, stakeVars, config, denied>>

Unlock ==
  /\ issuer # Nobody
  /\ locked' = FALSE
  /\ UNCHANGED <<supply, issuer, held, rows, stakeVars, config, denied, loose>>

(* The stake is looked at only while staking is enabled. *)
Transfer(from, to, q, issuerSigns) ==
  /\ from # to
  /\ to \notin denied
  /\ issuer # Nobody
  /\ to # issuer /\ locked => issuerSigns \/ from = issuer
  /\ q > 0
  /\ IF config.enabled
     THEN GetLiquid(from) /\ q <= Liquid(from) /\ loose' = loose
     ELSE UNCHANGED <<unstakes, delays>> /\ loose' = loose \cup {from}
  /\ Has(from, q)
  /\ held' = [held EXCEPT ![from] = @ - q, ![to] = @ + q]
  /\ rows' = rows \cup {to}
  /\ UNCHANGED <<supply, issuer, locked, stakes, config, denied>>

ClaimUnstakes(a) ==
  /\ GetLiquid(a)
  /\ UNCHANGED <<balanceVars, stakes, config, denied, loose>>

Close(a) ==
  /\ a \in rows /\ held[a] = 0
  /\ rows' = rows \ {a}
  /\ UNCHANGED <<supply, issuer, locked, held, stakeVars, config, denied, loose>>

-----------------------------------------------------------------------------
(* Staking *)

Stake_Balance(a, q) ==
  /\ config.enabled
  /\ q > 0
  /\ GetLiquid(a)
  /\ q <= held[a] - stakes[a]
  /\ stakes' = [stakes EXCEPT ![a] = @ + q]
  /\ UNCHANGED <<balanceVars, config, denied, loose>>

Stake(a, q) ==
  /\ config.enabled
  /\ q > 0
  /\ GetLiquid(a)
  /\ q <= Liquid(a)
  /\ stakes' = [stakes EXCEPT ![a] = @ + q]
  /\ UNCHANGED <<balanceVars, config, denied, loose>>

Unstake(a, q) ==
  /\ config.enabled
  /\ q > 0 /\ q <= stakes[a]
  /\ NextId <= MaxId
  /\ unstakes' = [unstakes EXCEPT ![NextId] =
       [account |-> a, stake |-> q, left |-> UnstakeDelay(a) + 1]]
  /\ stakes' = [stakes EXCEPT ![a] = @ - q]
  /\ UNCHANGED <<balanceVars, delays, config, denied, loose>>

(* cancel: also after the release, as long as the row is there. *)
Cancel_KeepsRow(i) ==
  /\ unstakes[i].account # Nobody
  /\ stakes' = [stakes EXCEPT ![unstakes[i].account] = @ + unstakes[i].stake]
  /\ UNCHANGED <<balanceVars, unstakes, delays, config, denied, loose>>

Cancel(i) ==
  /\ unstakes[i].account # Nobody
  /\ stakes' = [stakes EXCEPT ![unstakes[i].account] = @ + unstakes[i].stake]
  /\ unstakes' = [unstakes EXCEPT ![i] = NoUnstake]
  /\ UNCHANGED <<balanceVars, delays, config, denied, loose>>

StakeTime(a, d) ==
  /\ config.enabled
  /\ d >= config.min_stake_time /\ d <= config.max_stake_time
  /\ (stakes[a] > 0 \/ RowsOf(a) # {}) /\ delays[a] # NoDelay => d >= delays[a]
  /\ delays' = [delays EXCEPT ![a] = d]
  /\ UNCHANGED <<balanceVars, stakes, unstakes, config, denied, loose>>

(* The maximum is never lowered; the minimum, and staking itself, may be    *)
(* changed while tokens are staked.                                         *)
StakeConfig(c) ==
  /\ c.max_stake_time >= config.max_stake_time
  /\ c.min_stake_time < c.max_stake_time
  /\ config' = c
  /\ UNCHANGED <<balanceVars, stakeVars, denied, loose>>

ChngIssuer ==
  /\ issuer \notin {Nobody, NewIssuer}
  /\ issuer' = NewIssuer
  /\ UNCHANGED <<supply, locked, held, rows, stakeVars, config, denied, loose>>

(* setparam removes an entry only if it is there and the value is 0. *)
SetParam(a, isZero) ==
  /\ denied' = IF a \in denied /\ isZero THEN denied \ {a} ELSE denied \cup {a}
  /\ UNCHANGED <<balanceVars, stakeVars, config, loose>>

-----------------------------------------------------------------------------
(* Amounts above the supply fail everywhere. *)
Amounts == 1 .. MaxSupply

TokenStep ==
  \/ \E i \in Accounts, lock \in BOOLEAN : Create(i, lock)
  \/ \E q \in Amounts : Issue(q)
  \/ \E a \in Accounts, q \in Amounts : Burn(a, q)
  \/ Unlock
  \/ \E f, t \in Accounts, q \in Amounts, s \in BOOLEAN : Transfer(f, t, q, s)
  \/ \E a \in Accounts : Close(a)
  \/ ChngIssuer
  \/ \E a \in Deniable, z \in BOOLEAN : SetParam(a, z)

StakeStep ==
  \/ \E a \in Accounts, q \in Amounts : Stake(a, q) \/ Unstake(a, q)
  \/ \E a \in Accounts : ClaimUnstakes(a)
  \/ \E a \in Accounts :
       \E d \in config.min_stake_time .. config.max_stake_time : StakeTime(a, d)
  \/ \E i \in Ids : Cancel(i)
  \/ \E c \in Configs : StakeConfig(c)

Next == Tick \/ TokenStep \/ StakeStep

Spec == Init /\ [][Next]_vars

-----------------------------------------------------------------------------
(* Properties *)

TypeOK ==
  /\ supply \in 0 .. MaxSupply
  /\ issuer \in Accounts \cup {Nobody}
  /\ locked \in BOOLEAN
  /\ held \in [Accounts -> Nat] /\ rows \subseteq Accounts
  /\ stakes \in [Accounts -> Nat]
  /\ unstakes \in [Ids -> [account : Accounts \cup {Nobody}, stake : Nat, left : Nat]]
  /\ \A i \in Ids : unstakes[i].account = Nobody => unstakes[i] = NoUnstake
  /\ delays \in [Accounts -> Nat \cup {NoDelay}]
  /\ config \in Settings
  /\ denied \subseteq Accounts
  /\ loose \subseteq Accounts

(* Every token issued and not burnt is in one balance, whatever is staked,  *)
(* on its way out, sent or given back; an account without a balance row     *)
(* has none.                                                                *)
SupplyIsSum ==
  /\ Total(held, Accounts) = supply
  /\ \A a \in Accounts \ rows : held[a] = 0

(* A stake is covered by the balance of its owner, together with all of its *)
(* unstakes that can still be cancelled, the released ones included: tokens *)
(* that were unstaked and spent can never be staked again.  It need not be  *)
(* for accounts that burnt tokens or sent some while staking was disabled.  *)
StakesBacked ==
  \A a \in Accounts \ loose :
    stakes[a] + Total(Parcels, RowsOf(a)) <= held[a]

(* Nobody gets around a stake time: it does not shrink or disappear as long *)
(* as some of the account's tokens are staked or waiting, and tokens do not *)
(* become liquid without coming in or waiting.                              *)
LockupKept ==
  [][\A a \in Accounts :
       /\ delays[a] # NoDelay /\ (stakes[a] > 0 \/ WaitingOf(a) # {})
          => delays'[a] >= delays[a]
       /\ Liquid(a)' > Liquid(a) => held'[a] > held[a] \/ Tick]_vars

=============================================================================
