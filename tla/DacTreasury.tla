----------------------------- MODULE DacTreasury -----------------------------
(***************************************************************************)
(* The money of one DAC: elections as in DacElections, with what newperiod *)
(* pays the board that leaves (distributeMeanPay), the pay that custodians *)
(* claim from the treasury, and the budget that the DAC takes from it once *)
(* a period (claimbudget).                                                 *)
(*                                                                         *)
(* The settings of the elections do not change here.  The treasury's       *)
(* balance is that of the token that budgets are in (TLM); pay claimed     *)
(* from another token contract is drawn on balances that are left out, as  *)
(* is whether the service account is sent the pay in the receiver's place. *)
(*                                                                         *)
(* Operators named Operation_Slip are variants that no step uses.          *)
(***************************************************************************)
EXTENDS DacElections, Totals

CONSTANTS
  PayMaxes,      \* what setpaymax is called with
  Requests,      \* amounts of pay that candidates ask for
  BudgetToken,   \* the token of budgets
  Budgets,       \* the same for setprpbudga and setspendbudg
  Percentages,   \* what setprpbudget was or is called with, Unset without
  Whole,         \* 10000, one hundred percent
  HasSpendings,  \* the DAC has a SPENDINGS account
  Unset,         \* no value
  MaxPay,        \* bound: all pending pay
  MaxTreasury    \* bound: the treasury's balance

ASSUME TreasuryAssumption ==
  /\ \A m \in PayMaxes : m.amount \in Nat
  /\ Requests \subseteq Nat
  /\ Budgets \subseteq Nat \cup {Unset}
  /\ Percentages \subseteq Nat \cup {Unset}
  /\ Whole \in Nat \ {0}
  /\ HasSpendings \in BOOLEAN
  /\ MaxTreasury \in Nat

VARIABLES
  requested,     \* requestedpay of the candidates, Unset without a row
  custReq,       \* requestedpay of the custodians
  pendReq,       \* requestedpay of the pending custodians
  pendingPay,    \* the pendingpay table; copy tells equal rows apart in their keys' place
  payMax,        \* requested_pay_max
  treasury,      \* the balance of the TREASURY account
  propPercent,   \* prop_budget_percentage
  propAmount,    \* prop_budget_amount
  spendAmount,   \* spendings_budget_amount
  budgetOpen,    \* lastclaimbudgettime < lastperiodtime
  claimedNow     \* lastclaimbudgettime is the present second

budgetVars == <<treasury, propPercent, propAmount, spendAmount>>
requestVars == <<requested, custReq, pendReq>>
treasuryVars ==
  <<requestVars, pendingPay, payMax, budgetVars, budgetOpen, claimedNow>>

(* A candidate asks for at most the maximum, in its symbol. *)
Allowed(request) ==
  request.symbol = payMax.token.symbol /\ request.amount <= payMax.amount

-----------------------------------------------------------------------------
(* distributeMeanPay *)

(* Who asks in the symbol of the maximum counts; who asks for more than the *)
(* maximum, by now, counts with nothing.                                    *)
Counted == {c \in custodians : custReq[c].symbol = payMax.token.symbol}

Asked == [c \in Counted |-> custReq[c].amount]

RequestTotal_Unfiltered == Total(Asked, Counted)

RequestTotal == Total(Asked, {c \in Counted : Asked[c] <= payMax.amount})

MeanPay == IF Counted = {} THEN 0 ELSE RequestTotal \div Cardinality(Counted)

(* The row of a receiver for a token, by the index over both; the variant   *)
(* looks under the contract of another token.                               *)
RowOf_Elsewhere(c, token) ==
  {r \in pendingPay : r.receiver = c /\ r.token.symbol = token.symbol
                        /\ r.token.contract # token.contract}

RowOf(c, token) == {r \in pendingPay : r.receiver = c /\ r.token = token}

Raised(r) == [r EXCEPT !.amount = @ + MeanPay]

NewRow(c) ==
  [receiver |-> c, token |-> payMax.token, amount |-> MeanPay,
   copy |-> Cardinality({r \in pendingPay : r.receiver = c /\ r.token = payMax.token})]

(* Every custodian gets the mean, whatever it asked for, in the row it has  *)
(* for the token of the maximum or in a new one.                            *)
DistributeMeanPay(board) ==
  LET Old == UNION {RowOf(c, payMax.token) : c \in board}
  IN IF MeanPay = 0 THEN pendingPay
     ELSE (pendingPay \ Old)
          \cup {Raised(r) : r \in Old}
          \cup {NewRow(c) : c \in {b \in board : RowOf(b, payMax.token) = {}}}

AmountsOf(rows) == [r \in rows |-> r.amount]

-----------------------------------------------------------------------------
NoRequests == [c \in {} |-> Unset]

TreasuryInit ==
  /\ Init
  /\ requested = [c \in Accounts |-> Unset]
  /\ custReq = NoRequests /\ pendReq = NoRequests
  /\ pendingPay = {}
  /\ payMax \in PayMaxes
  /\ treasury \in 0 .. MaxTreasury
  /\ propPercent \in Percentages /\ propAmount \in Budgets /\ spendAmount \in Budgets
  /\ budgetOpen = FALSE /\ claimedNow = FALSE

Second ==
  /\ Tick
  /\ claimedNow' = FALSE
  /\ UNCHANGED <<requestVars, pendingPay, payMax, budgetVars, budgetOpen>>

NominateFor(c, request) ==
  /\ Nominate(c)
  /\ Allowed(request)
  /\ requested' = [requested EXCEPT ![c] = request]
  /\ UNCHANGED <<custReq, pendReq, pendingPay, payMax, budgetVars, budgetOpen, claimedNow>>

Leave(c) == Withdraw(c) /\ UNCHANGED treasuryVars

(* updatereqpay changes what the candidate asks for, and not what it asked  *)
(* for when it was elected.                                                 *)
UpdateReqPay(c, request) ==
  /\ requested[c] # Unset
  /\ Allowed(request)
  /\ requested' = [requested EXCEPT ![c] = request]
  /\ UNCHANGED <<vars, custReq, pendReq, pendingPay, payMax, budgetVars, budgetOpen, claimedNow>>

Elect(ranking, turnout) ==
  /\ Prepare(ranking, turnout)
  /\ pendReq' = [c \in pending' |-> requested[c]]
  /\ UNCHANGED <<requested, custReq, pendingPay, payMax, budgetVars, budgetOpen, claimedNow>>

(* newperiod, with a board pending: the board that leaves is paid first.    *)
SeatAndPay_New(turnout) ==
  /\ Seat(turnout)
  /\ pendingPay' = DistributeMeanPay(pending)
  /\ Total(AmountsOf(pendingPay'), pendingPay') <= MaxPay
  /\ custReq' = pendReq /\ pendReq' = NoRequests
  /\ budgetOpen' = ~claimedNow
  /\ UNCHANGED <<requested, payMax, budgetVars, claimedNow>>

SeatAndPay(turnout) ==
  /\ Seat(turnout)
  /\ pendingPay' = DistributeMeanPay(custodians)
  /\ Total(AmountsOf(pendingPay'), pendingPay') <= MaxPay
  /\ custReq' = pendReq /\ pendReq' = NoRequests
  /\ budgetOpen' = ~claimedNow
  /\ UNCHANGED <<requested, payMax, budgetVars, claimedNow>>

ResignUnpaid(c) ==
  /\ Resign(c)
  /\ custReq' = [b \in custodians' |-> custReq[b]]
  /\ pendReq' = [b \in pending' |-> pendReq[b]]
  /\ UNCHANGED <<requested, pendingPay, payMax, budgetVars, budgetOpen, claimedNow>>

SetPayMax(max) ==
  /\ payMax' = max
  /\ UNCHANGED <<vars, requestVars, pendingPay, budgetVars, budgetOpen, claimedNow>>

-----------------------------------------------------------------------------
(* Pending pay *)

(* claimpay: the amount of the row, in the token contract of the maximum.   *)
ClaimPay(r) ==
  LET fromTreasury ==
        r.token.symbol = BudgetToken.symbol
          /\ payMax.token.contract = BudgetToken.contract
  IN /\ fromTreasury => treasury >= r.amount
     /\ treasury' = IF fromTreasury THEN treasury - r.amount ELSE treasury
     /\ pendingPay' = pendingPay \ {r}
     /\ UNCHANGED <<vars, requestVars, payMax, propPercent, propAmount, spendAmount,
                    budgetOpen, claimedNow>>

(* removecuspay by daccustodian, rejectcuspay by the receiver. *)
DropPay(r) ==
  /\ pendingPay' = pendingPay \ {r}
  /\ UNCHANGED <<vars, requestVars, payMax, budgetVars, budgetOpen, claimedNow>>

-----------------------------------------------------------------------------
(* The budget *)

SetPrpBudget(p) ==
  /\ propPercent' = p
  /\ UNCHANGED <<vars, requestVars, pendingPay, payMax, treasury, propAmount, spendAmount,
                 budgetOpen, claimedNow>>

SetPrpBudgA(n) ==
  /\ propAmount' = n
  /\ UNCHANGED <<vars, requestVars, pendingPay, payMax, treasury, propPercent, spendAmount,
                 budgetOpen, claimedNow>>

SetSpendBudg(n) ==
  /\ spendAmount' = n
  /\ UNCHANGED <<vars, requestVars, pendingPay, payMax, treasury, propPercent, propAmount,
                 budgetOpen, claimedNow>>

Income ==
  /\ treasury < MaxTreasury
  /\ treasury' = treasury + 1
  /\ UNCHANGED <<vars, requestVars, pendingPay, payMax, propPercent, propAmount, spendAmount,
                 budgetOpen, claimedNow>>

(* Both amounts, if the treasury holds more than the two ... *)
Covered ==
  propAmount # Unset /\ spendAmount # Unset /\ propAmount + spendAmount < treasury

(* ... or else a share for proposals and all but the last unit of what then *)
(* remains for spendings.                                                   *)
Share == (treasury * propPercent) \div Whole

ToProposals == IF Covered THEN propAmount ELSE Share

Rest_All == treasury - Share

Rest == treasury - Share - 1

ToSpendings ==
  IF ~HasSpendings THEN 0
  ELSE IF Covered THEN spendAmount ELSE IF Rest > 1 THEN Rest ELSE 0

(* A token refuses to transfer 0, and more than there is.  Without amounts  *)
(* that fit or a percentage claimbudget returns and does nothing.           *)
ClaimBudget ==
  /\ budgetOpen
  /\ Covered \/ propPercent # Unset
  /\ Covered => propAmount > 0 /\ (HasSpendings => spendAmount > 0)
  /\ ToProposals + ToSpendings <= treasury
  /\ treasury' = treasury - ToProposals - ToSpendings
  /\ budgetOpen' = FALSE
  /\ claimedNow' = TRUE
  /\ UNCHANGED <<vars, requestVars, pendingPay, payMax, propPercent, propAmount, spendAmount>>

-----------------------------------------------------------------------------
AllRequests == [symbol : {m.token.symbol : m \in PayMaxes}, amount : Requests]

TreasuryNext ==
  \/ Second
  \/ \E c \in Accounts :
       \/ \E request \in AllRequests : NominateFor(c, request) \/ UpdateReqPay(c, request)
       \/ Leave(c) \/ ResignUnpaid(c)
  \/ \E turnout \in Turnouts :
       \/ \E ranking \in Rankings : Elect(ranking, turnout)
       \/ SeatAndPay(turnout)
  \/ \E max \in PayMaxes : SetPayMax(max)
  \/ \E r \in pendingPay : ClaimPay(r) \/ DropPay(r)
  \/ \E p \in Percentages : SetPrpBudget(p)
  \/ \E n \in Budgets : SetPrpBudgA(n) \/ SetSpendBudg(n)
  \/ Income \/ ClaimBudget

TreasurySpec == TreasuryInit /\ [][TreasuryNext]_<<vars, treasuryVars>>

-----------------------------------------------------------------------------
(* Properties *)

Due(rows, c, token) ==
  Total(AmountsOf(rows), {r \in rows : r.receiver = c /\ r.token = token})

(* However boards, requests, the maximum and its token change between       *)
(* elections, no account has two rows of pending pay in one token: the      *)
(* second would be out of reach of the lookup in distributeMeanPay.         *)
OneRowEach ==
  \A r, s \in pendingPay : r.receiver = s.receiver /\ r.token = s.token => r = s

(* Pay is for the period just served: only who sits on the board that       *)
(* leaves gets any, not the board that comes nor who resigned, and never    *)
(* more than the maximum at that time, even where it was lowered since the  *)
(* requests were made.                                                      *)
PaidForService ==
  [][\A c \in Accounts, m \in PayMaxes :
       Due(pendingPay', c, m.token) > Due(pendingPay, c, m.token) =>
         /\ c \in custodians
         /\ Due(pendingPay', c, m.token) - Due(pendingPay, c, m.token) <= payMax.amount
    ]_<<vars, treasuryVars>>

(* claimbudget leaves something in the treasury (the comment on "0.0001     *)
(* TLM") as long as the share for proposals is below one hundred percent,   *)
(* whatever the amounts, the balance and the rounding.                      *)
BudgetLeavesUnit ==
  [][budgetOpen /\ ~budgetOpen' /\ treasury > 0 /\ (propPercent = Unset \/ propPercent < Whole)
       => treasury' > 0]_<<vars, treasuryVars>>

=============================================================================
