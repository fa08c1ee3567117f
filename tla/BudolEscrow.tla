------------------------------ MODULE BudolEscrow ------------------------------
(***************************************************************************)
(* The escrow contract the engine deploys (BudolEscrowSource in            *)
(* internal/contracts/templates.go): prediction markets on which traders   *)
(* stake tokens for an outcome, settled by the contract's owner.           *)
(*                                                                         *)
(* An external function is one atomic action: the chain executes one call  *)
(* after the other and undoes a call whose require fails.  Actions without *)
(* a trader are the owner's.  The stake token moves what it is told to, as *)
(* long as the payer holds it.                                             *)
(***************************************************************************)
EXTENDS Integers, FiniteSets, Functions

CONSTANTS
  MarketId,  \* identifiers of markets that may be created
  Trader,    \* accounts that stake
  Amounts,   \* stakes a trader may place at once
  Fees,      \* fees in basis points that the owner may ask for
  Times,     \* start and end times the owner may give, 0 for none
  MaxBuys,   \* bound on the purchases of all markets together
  MaxNow     \* bound on the block timestamp

ASSUME AmountsAssumption == Amounts \subseteq Nat /\ Fees \subseteq Nat
ASSUME FiniteAssumption == IsFiniteSet(MarketId) /\ IsFiniteSet(Trader)
ASSUME EscrowBounds == Times \subseteq Nat /\ MaxBuys \in Nat /\ MaxNow \in Nat

BPS         == 10000
MAX_FEE_BPS == 1000
Outcome     == {"yes", "no"}
MarketState == {"unset", "open", "paused", "resolved", "cancelled"}

VARIABLES
  state,          \* Market.state
  startTime,      \* Market.startTime
  endTime,        \* Market.endTime
  feeBps,         \* Market.feeBps
  winningOutcome, \* Market.winningOutcome, "none" before
  pool,           \* Market.yesPool and noPool
  feeAccrued,     \* Market.feeAccrued
  stake,          \* Position.yes and no
  claimed,        \* Position.claimed
  defaultFeeBps,  \* defaultFeeBps
  balance,        \* what the contract holds of the stake token
  paid,           \* what each trader was paid by each market
  taken,          \* fees paid to the treasury by each market
  buys,           \* purchases so far
  now             \* block.timestamp

termsVars  == <<startTime, endTime, feeBps>>
stakeVars  == <<pool, stake, buys>>
moneyVars  == <<balance, paid, taken>>
settleVars == <<winningOutcome, feeAccrued, claimed>>
vars == <<state, termsVars, stakeVars, moneyVars, settleVars, defaultFeeBps, now>>

Init ==
  /\ state          = [m \in MarketId |-> "unset"]
  /\ startTime      = [m \in MarketId |-> 0]
  /\ endTime        = [m \in MarketId |-> 0]
  /\ feeBps         = [m \in MarketId |-> 0]
  /\ winningOutcome = [m \in MarketId |-> "none"]
  /\ pool           = [m \in MarketId |-> [o \in Outcome |-> 0]]
  /\ feeAccrued     = [m \in MarketId |-> 0]
  /\ stake          = [m \in MarketId |-> [t \in Trader |-> [o \in Outcome |-> 0]]]
  /\ claimed        = [m \in MarketId |-> [t \in Trader |-> FALSE]]
  /\ defaultFeeBps \in {f \in Fees : f <= MAX_FEE_BPS}
  /\ balance        = 0
  /\ paid           = [m \in MarketId |-> [t \in Trader |-> 0]]
  /\ taken          = [m \in MarketId |-> 0]
  /\ buys           = 0
  /\ now            = 0

-----------------------------------------------------------------------------
(* Creating and steering a market.                                         *)

\* Any fee goes.
FeeAllowedAny(f) == TRUE

FeeAllowed(f) == f <= MAX_FEE_BPS

Create(m, s, e, f) ==
  /\ state[m] = "unset"
  /\ FeeAllowed(f)
  /\ s # 0 /\ e # 0 => e > s
  /\ state'     = [state EXCEPT ![m] = "open"]
  /\ startTime' = [startTime EXCEPT ![m] = s]
  /\ endTime'   = [endTime EXCEPT ![m] = e]
  /\ feeBps'    = [feeBps EXCEPT ![m] = f]
  /\ UNCHANGED <<stakeVars, moneyVars, settleVars, defaultFeeBps, now>>

CreateMarket(m, s, e, f) == Create(m, s, e, f)

CreateMarketWithDefaultFee(m, s, e) == Create(m, s, e, defaultFeeBps)

SetDefaultFeeBps(f) ==
  /\ FeeAllowed(f)
  /\ defaultFeeBps' = f
  /\ UNCHANGED <<state, termsVars, stakeVars, moneyVars, settleVars, now>>

Move(m, from, to) ==
  /\ state[m] \in from
  /\ state' = [state EXCEPT ![m] = to]
  /\ UNCHANGED <<termsVars, stakeVars, moneyVars, defaultFeeBps, now>>

PauseMarket(m)  == Move(m, {"open"}, "paused") /\ UNCHANGED settleVars
ReopenMarket(m) == Move(m, {"paused"}, "open") /\ UNCHANGED settleVars
CancelMarket(m) == Move(m, {"open", "paused"}, "cancelled") /\ UNCHANGED settleVars

-----------------------------------------------------------------------------
(* Staking.                                                                *)

\* The last second counts as before the end.
BettingUntilEnd(m) ==
  /\ startTime[m] = 0 \/ now >= startTime[m]
  /\ endTime[m] = 0 \/ now <= endTime[m]

BettingTime(m) ==
  /\ startTime[m] = 0 \/ now >= startTime[m]
  /\ endTime[m] = 0 \/ now < endTime[m]

\* MaxBuys bounds the model.
Buy(m, t, o, amount) ==
  /\ state[m] = "open"
  /\ amount > 0
  /\ BettingTime(m)
  /\ buys < MaxBuys
  /\ balance' = balance + amount
  /\ pool'    = [pool EXCEPT ![m][o] = @ + amount]
  /\ stake'   = [stake EXCEPT ![m][t][o] = @ + amount]
  /\ buys'    = buys + 1
  /\ UNCHANGED <<state, termsVars, settleVars, paid, taken, defaultFeeBps, now>>

-----------------------------------------------------------------------------
(* Settling.                                                               *)

Other(o) == IF o = "yes" THEN "no" ELSE "yes"
Total(m) == pool[m]["yes"] + pool[m]["no"]

Resolvable(m, o) ==
  /\ state[m] \in {"open", "paused"}
  /\ endTime[m] = 0 \/ now >= endTime[m]
  /\ pool[m][o] > 0

Fee(m, o) == (pool[m][Other(o)] * feeBps[m]) \div BPS

ResolveMarket(m, o) ==
  /\ Resolvable(m, o)
  /\ state'          = [state EXCEPT ![m] = "resolved"]
  /\ winningOutcome' = [winningOutcome EXCEPT ![m] = o]
  /\ feeAccrued'     = [feeAccrued EXCEPT ![m] = Fee(m, o)]
  /\ UNCHANGED <<termsVars, stakeVars, moneyVars, claimed, defaultFeeBps, now>>

\* Winners share the losing side only.
DistributableLosses(m) == pool[m][Other(winningOutcome[m])] - feeAccrued[m]

Distributable(m) == Total(m) - feeAccrued[m]

Payout(m, t) ==
  IF state[m] = "cancelled"
    THEN stake[m][t]["yes"] + stake[m][t]["no"]
    ELSE (stake[m][t][winningOutcome[m]] * Distributable(m)) \div pool[m][winningOutcome[m]]

PendingPayout(m, t) ==
  IF state[m] \in {"resolved", "cancelled"} /\ ~claimed[m][t] THEN Payout(m, t) ELSE 0

\* The transfer fails, and with it the claim, when the contract holds less.
Claim(m, t) ==
  /\ state[m] \in {"resolved", "cancelled"}
  /\ ~claimed[m][t]
  /\ Payout(m, t) > 0
  /\ Payout(m, t) <= balance
  /\ claimed' = [claimed EXCEPT ![m][t] = TRUE]
  /\ balance' = balance - Payout(m, t)
  /\ paid'    = [paid EXCEPT ![m][t] = @ + Payout(m, t)]
  /\ UNCHANGED <<state, termsVars, stakeVars, taken, winningOutcome, feeAccrued, defaultFeeBps, now>>

WithdrawFees(m) ==
  /\ state[m] = "resolved"
  /\ feeAccrued[m] > 0 /\ feeAccrued[m] <= balance
  /\ feeAccrued' = [feeAccrued EXCEPT ![m] = 0]
  /\ balance'    = balance - feeAccrued[m]
  /\ taken'      = [taken EXCEPT ![m] = @ + feeAccrued[m]]
  /\ UNCHANGED <<state, termsVars, stakeVars, paid, winningOutcome, claimed, defaultFeeBps, now>>

Tick ==
  /\ now < MaxNow
  /\ now' = now + 1
  /\ UNCHANGED <<state, termsVars, stakeVars, moneyVars, settleVars, defaultFeeBps>>

-----------------------------------------------------------------------------

OwnerStep(m) ==
  \/ \E s, e \in Times :
       \/ \E f \in Fees : CreateMarket(m, s, e, f)
       \/ CreateMarketWithDefaultFee(m, s, e)
  \/ PauseMarket(m) \/ ReopenMarket(m) \/ CancelMarket(m)
  \/ \E o \in Outcome : ResolveMarket(m, o)
  \/ WithdrawFees(m)

TraderStep(m, t) ==
  \/ \E o \in Outcome, amount \in Amounts : Buy(m, t, o, amount)
  \/ Claim(m, t)

Next ==
  \/ \E m \in MarketId : OwnerStep(m) \/ \E t \in Trader : TraderStep(m, t)
  \/ \E f \in Fees : SetDefaultFeeBps(f)
  \/ Tick

Spec == Init /\ [][Next]_vars

-----------------------------------------------------------------------------
(* Properties.                                                             *)

Unsettled(m) == IF state[m] \in {"open", "paused"} THEN Total(m) ELSE 0
PendingOf(m) == SumFunction([t \in Trader |-> PendingPayout(m, t)])
PaidBy(m)    == SumFunction(paid[m])
Owed(m)      == PendingOf(m) + feeAccrued[m] + Unsettled(m)
Winners(m)   == {t \in Trader : stake[m][t][winningOutcome[m]] > 0}

\* Amounts are natural numbers, also where the contract subtracts: a uint256
\* never goes below zero.
TypeOK ==
  /\ state          \in [MarketId -> MarketState]
  /\ startTime      \in [MarketId -> Nat]
  /\ endTime        \in [MarketId -> Nat]
  /\ feeBps         \in [MarketId -> 0 .. MAX_FEE_BPS]
  /\ winningOutcome \in [MarketId -> Outcome \cup {"none"}]
  /\ pool           \in [MarketId -> [Outcome -> Nat]]
  /\ feeAccrued     \in [MarketId -> Nat]
  /\ stake          \in [MarketId -> [Trader -> [Outcome -> Nat]]]
  /\ claimed        \in [MarketId -> [Trader -> BOOLEAN]]
  /\ defaultFeeBps  \in 0 .. MAX_FEE_BPS
  /\ balance        \in Nat
  /\ paid           \in [MarketId -> [Trader -> Nat]]
  /\ taken          \in [MarketId -> Nat]
  /\ buys           \in 0 .. MaxBuys
  /\ now            \in Nat

\* What the contract owes over all markets together is missing by no more than
\* the fees it has paid out: one market cannot eat more of another's money.
ShortfallIsFees ==
  balance + SumFunction(taken) >= SumFunction([m \in MarketId |-> Owed(m)])

\* A trader who was paid got his own stake back at least, and on a cancelled
\* market exactly that, whatever was claimed and withdrawn before.
PaidFairly ==
  \A m \in MarketId, t \in Trader : claimed[m][t] =>
    IF state[m] = "cancelled"
      THEN paid[m][t] = stake[m][t]["yes"] + stake[m][t]["no"]
      ELSE paid[m][t] >= stake[m][t][winningOutcome[m]]

\* Once every winner has claimed, nothing of a resolved market is left behind
\* in the contract but what rounding costs, less than one unit a winner.
NothingTrapped ==
  \A m \in MarketId :
    state[m] = "resolved" /\ (\A t \in Winners(m) : claimed[m][t]) =>
      Total(m) - (PaidBy(m) + taken[m] + feeAccrued[m]) < Cardinality(Winners(m))

\* A payout a trader may count on never falls: other claims, fee withdrawals
\* and the owner's later calls take nothing from it.
PayoutNeverFalls ==
  [][\A m \in MarketId, t \in Trader :
       state[m] \in {"resolved", "cancelled"} =>
         PendingPayout(m, t)' >= PendingPayout(m, t) \/ claimed'[m][t]]_vars

\* Nobody can still place a stake on a market with an end when its outcome may
\* be announced already.
NoLateBets ==
  [][\A m \in MarketId, o \in Outcome :
       endTime[m] # 0 /\ Resolvable(m, o) => pool'[m] = pool[m]]_vars

\* What pendingPayout answers over all traders and markets is there to be paid:
\* no claim has its transfer refused.
PendingPayoutsCovered == SumFunction([m \in MarketId |-> PendingOf(m)]) <= balance
=============================================================================
