--------------------------- MODULE FarmStrategies ---------------------------
(***************************************************************************)
(* The strategies whose position pays rewards in another token than want:  *)
(* what a deposit, a withdrawal, a tend, a harvest and an exit do to those *)
(* rewards, on top of what SettVault says of the want.  A Sett has one     *)
(* strategy here, of one kind:                                             *)
(*                                                                         *)
(*   "badger"    StrategyBadgerRewards: the rewards are want (SettVault)   *)
(*   "sushi"     StrategySushiLpOptimizer, SushiBadgerWbtc, SushiDiggWbtc  *)
(*   "farm"      StrategyHarvestMetaFarm                                   *)
(*   "convex"    StrategyConvexStakingOptimizer                            *)
(*   "helper"    StrategyCvxHelper, StrategyCvxCrvHelper                   *)
(*   "curve"     StrategyCurveGauge                                        *)
(*   "pancake"   StrategyPancakeLpOptimizer                                *)
(*   "badgerLp"  StrategyBadgerLpMetaFarm                                  *)
(*   "diggLp"    StrategyDiggLpMetaFarm                                    *)
(*   "uni"       StrategyUniGenericLp                                      *)
(*                                                                         *)
(* A swap gives one unit for one, and one unit of each side gives one unit *)
(* of liquidity: slippage is the exchange's.  staked stands for the want   *)
(* at work: for the kinds without a pool it is want kept in the strategy.  *)
(***************************************************************************)
EXTENDS SettVault

CONSTANTS
  Kinds,           \* the kinds of strategy to consider
  GovernanceFee,   \* performanceFeeGovernance
  StrategistFee,   \* performanceFeeStrategist
  KeepRate,        \* keepCRV
  CompoundRate,    \* autoCompoundingBps
  CompoundFee,     \* autoCompoundingPerformanceFeeGovernance
  SharePrices,     \* what one xSushi, or one share of a helper vault, costs
  Rewards1,        \* the rewards a position can earn between two transactions
  MaxReward        \* bound: rewards accrue up to this total

AllKinds == {"badger", "sushi", "farm", "convex", "helper", "curve", "pancake",
             "badgerLp", "diggLp", "uni"}

ASSUME FarmAssumption ==
  /\ Kinds \subseteq AllKinds
  /\ {GovernanceFee, StrategistFee, KeepRate, CompoundRate, CompoundFee} \subseteq 0..MaxFee
  /\ GovernanceFee + StrategistFee <= MaxFee
  /\ SharePrices \subseteq Nat \ {0}
  /\ Rewards1 \subseteq Nat /\ MaxReward \in Nat

(* main is the reward token: Sushi and xSushi, FARM, CRV and cvxCRV, Cake, *)
(* BADGER or DIGG.  side is CVX for convex, and wBTC left over by the lps. *)
Tokens == {"main", "side"}
Payees == {"tree", "rewards", "strategist"}

VARIABLES
  kind,      \* the strategy, and
  price,     \* the price of the share vault its rewards go through: both fixed
  pending,   \* rewards the position has earned and not paid
  idle,      \* reward tokens that sit in the strategy
  parked,    \* rewards put to work: xSushi, FARM in metaFarm, staked Cake, cvxCRV, CVX
  got,       \* rewards each payee has received, as the token it is paid in
  feeWant,   \* want the strategist has received in fees
  accrued    \* all rewards earned so far

farmVars == <<kind, price, pending, idle, parked, got, feeWant, accrued>>
fixed == <<kind, price>>

Nothing == [t \in Tokens |-> 0]

FarmInit ==
  /\ kind \in Kinds
  /\ price \in IF kind \in {"sushi", "convex"} THEN SharePrices ELSE {1}
  /\ pending = 0 /\ idle = Nothing /\ parked = Nothing
  /\ got = [t \in Tokens |-> [p \in Payees |-> 0]]
  /\ feeWant = 0
  /\ accrued = 0

HasPool == kind \notin {"diggLp", "uni"}
Tendable == kind \in {"sushi", "farm", "convex", "pancake"}

(* SushiChef and the Pancake chef pay what is pending whenever want is     *)
(* moved in or out of the position.                                        *)
ChefPays == kind \in {"sushi", "pancake"}

-----------------------------------------------------------------------------
(* Fees and distribution *)

(* BaseStrategy._processFee *)
Fee_RoundsUp(rate, n) == (n * rate + MaxFee - 1) \div MaxFee

Fee(rate, n) == (n * rate) \div MaxFee

(* SushiBar.enter, and depositFor of a helper vault *)
SharesOf(n) == n \div price

(* The convex strategies are deployed without a strategist fee. *)
StrategistRate == IF kind = "convex" THEN 0 ELSE StrategistFee

(* n reward tokens shared out: both fees are on n, the rest is the tree's. *)
Shared(n) ==
  LET g == Fee(GovernanceFee, n)
      s == Fee(StrategistRate, n)
  IN  [tree |-> n - g - s, rewards |-> g, strategist |-> s]

Paid(g, t, parts) ==
  [g EXCEPT ![t] = [p \in Payees |-> @[p] + parts[p]]]

(* Want in the strategy after it gained some: governance and strategist    *)
(* take their fee of all of it, the idle want included, and the rest is    *)
(* put to work.                                                            *)
CompoundWant(gain, gov, strat) ==
  LET s    == strategy
      held == want[s] + gain
  IN  /\ want' = [want EXCEPT ![s] = 0, ![Rewards] = @ + Fee(gov, held)]
      /\ feeWant' = feeWant + Fee(strat, held)
      /\ staked' = [staked EXCEPT ![s] = @ + held - Fee(gov, held) - Fee(strat, held)]

-----------------------------------------------------------------------------
(* Moving want in and out *)

(* What a move of want in or out of the position does to the rewards *)
Touch ==
  IF ChefPays
  THEN /\ idle' = [idle EXCEPT !["main"] = @ + pending]
       /\ pending' = 0
       /\ UNCHANGED <<fixed, parked, got, feeWant, accrued>>
  ELSE UNCHANGED farmVars

(* SettV4.earn: BaseStrategy.deposit calls _deposit only for some want. *)
FarmEarn ==
  /\ Earn
  /\ IF want[strategy] + Available > 0 THEN Touch ELSE UNCHANGED farmVars

FarmWithdraw(u, n) ==
  \/ WithdrawIdle(u, n) /\ UNCHANGED farmVars
  \/ WithdrawUnrolling(u, n, 0) /\ Touch

(* Time passes for the position.  A convex position pays CVX with its CRV. *)
AccrueReward(n) ==
  /\ kind \notin {"badger", "uni"}
  /\ kind = "diggLp" \/ staked[strategy] > 0
  /\ accrued + n <= MaxReward
  /\ TotalWant < MaxWant
  /\ accrued' = accrued + n
  /\ pending' = pending + n
  /\ UNCHANGED <<vars, fixed, idle, parked, got, feeWant>>

-----------------------------------------------------------------------------
(* tend: the rewards go to work, nothing is paid out *)

TendSushi ==
  /\ kind = "sushi"
  /\ parked' = [parked EXCEPT !["main"] = @ + SharesOf(idle["main"] + pending)]
  /\ idle' = Nothing

(* FARM into metaFarm, Cake into the chef.  What metaFarm and the Cake     *)
(* pool pay on top of that is part of pending.                             *)
TendStake ==
  /\ kind \in {"farm", "pancake"}
  /\ parked' = [parked EXCEPT !["main"] = @ + idle["main"] + pending]
  /\ idle' = Nothing

(* CRV, the harvested and the waiting, is swapped for cvxCRV. *)
TendConvex ==
  /\ kind = "convex"
  /\ parked' = [main |-> parked["main"] + idle["main"] + pending,
                side |-> parked["side"] + pending]
  /\ idle' = Nothing

FarmTend ==
  /\ TendSushi \/ TendStake \/ TendConvex
  /\ pending' = 0
  /\ UNCHANGED <<vars, fixed, got, feeWant, accrued>>

-----------------------------------------------------------------------------
(* harvest *)

(* Idle want is deposited, all Sushi becomes xSushi, all xSushi is shared  *)
(* out.                                                                    *)
HarvestSushi ==
  /\ kind = "sushi"
  /\ got' = Paid(got, "main", Shared(parked["main"] + SharesOf(idle["main"] + pending)))
  /\ want' = [want EXCEPT ![strategy] = 0]
  /\ staked' = [staked EXCEPT ![strategy] = @ + want[strategy]]
  /\ parked' = Nothing /\ idle' = Nothing /\ pending' = 0
  /\ UNCHANGED feeWant

HarvestFarm ==
  /\ kind = "farm"
  /\ got' = Paid(got, "main", Shared(parked["main"] + idle["main"] + pending))
  /\ parked' = Nothing /\ idle' = Nothing /\ pending' = 0
  /\ UNCHANGED <<want, staked, feeWant>>

(* cvxCRV and CVX taken out of their pools, with the CVX that was pending; *)
(* the CRV that was pending waits for the next tend.  Some of each is sold *)
(* for want, the rest is shared out as deposits in the helper vaults.      *)
ConvexHarvested(t) == parked[t] + IF t = "side" THEN pending ELSE 0

ConvexShared(t) ==
  LET n     == ConvexHarvested(t)
      parts == Shared(n - Fee(CompoundRate, n))
  IN  [p \in Payees |-> SharesOf(parts[p])]

HarvestConvex ==
  /\ kind = "convex"
  /\ LET gain == Fee(CompoundRate, ConvexHarvested("main"))
                   + Fee(CompoundRate, ConvexHarvested("side"))
         fee  == Fee(CompoundFee, gain)
     IN  /\ want' = [want EXCEPT ![strategy] = 0, ![Rewards] = @ + fee]
         /\ staked' = [staked EXCEPT ![strategy] = @ + want[strategy] + gain - fee]
  /\ got' = Paid(Paid(got, "main", ConvexShared("main")), "side", ConvexShared("side"))
  /\ idle' = [idle EXCEPT !["main"] = @ + pending]
  /\ parked' = Nothing /\ pending' = 0
  /\ UNCHANGED feeWant

(* The rewards are sold for want, which is compounded. *)
HarvestHelper ==
  /\ kind = "helper"
  /\ CompoundWant(pending, GovernanceFee, 0)
  /\ pending' = 0
  /\ UNCHANGED <<idle, parked, got>>

HarvestCurve ==
  /\ kind = "curve"
  /\ LET keep == Fee(KeepRate, pending)
     IN  /\ CompoundWant(pending - keep, GovernanceFee, StrategistFee)
         /\ got' = [got EXCEPT !["main"]["rewards"] = @ + keep]
  /\ pending' = 0
  /\ UNCHANGED <<idle, parked>>

HarvestPancake ==
  /\ kind = "pancake"
  /\ CompoundWant(parked["main"] + idle["main"] + pending, GovernanceFee, StrategistFee)
  /\ parked' = Nothing /\ idle' = Nothing /\ pending' = 0
  /\ UNCHANGED got

(* Half of what was harvested is sold for wBTC, and as much liquidity as   *)
(* the reward token and the wBTC now held allow is added.  diggLp first    *)
(* takes fees of all the DIGG it holds.                                    *)
AddLiquidity(held, taken) ==
  LET sold == pending \div 2
      wbtc == idle["side"] + sold
      rest == held - taken - sold
      lp   == IF sold = 0 THEN 0 ELSE IF wbtc <= rest THEN wbtc ELSE rest
  IN  /\ rest >= 0
      /\ staked' = [staked EXCEPT ![strategy] = @ + lp]
      /\ idle' = [main |-> rest - lp, side |-> wbtc - lp]
      /\ pending' = 0
      /\ UNCHANGED <<want, parked, feeWant>>

HarvestBadgerLp ==
  /\ kind = "badgerLp"
  /\ AddLiquidity(idle["main"] + pending, 0)
  /\ UNCHANGED got

HarvestDiggLp ==
  /\ kind = "diggLp"
  /\ LET held  == idle["main"] + pending
         parts == [Shared(held) EXCEPT !.tree = 0]
     IN  /\ got' = Paid(got, "main", parts)
         /\ AddLiquidity(held, parts.rewards + parts.strategist)

HarvestUni ==
  /\ kind = "uni"
  /\ UNCHANGED <<want, staked, pending, idle, parked, got, feeWant>>

FarmHarvest ==
  \/ kind = "badger" /\ Harvest(strategy) /\ UNCHANGED farmVars
  \/ /\ \/ HarvestSushi \/ HarvestFarm \/ HarvestConvex \/ HarvestHelper
        \/ HarvestCurve \/ HarvestPancake \/ HarvestBadgerLp \/ HarvestDiggLp
        \/ HarvestUni
     /\ UNCHANGED <<earned, claims, locked, config, fixed, accrued>>

-----------------------------------------------------------------------------
(* withdrawAll: what a migration takes out of the strategy *)

(* All the want goes to the Sett, and these rewards to the rewards address. *)
ExitWith(toRewards) ==
  /\ want' = [want EXCEPT ![strategy] = 0, ![Sett] = @ + StrategyBalance(strategy)]
  /\ staked' = [staked EXCEPT ![strategy] = 0]
  /\ got' = [got EXCEPT !["main"]["rewards"] = @ + toRewards]

ExitSushi_LeavesTheBar ==
  /\ kind = "sushi"
  /\ ExitWith(idle["main"] + pending)
  /\ idle' = Nothing /\ pending' = 0
  /\ UNCHANGED parked

ExitSushi ==
  /\ kind = "sushi"
  /\ ExitWith(idle["main"] + pending + parked["main"] * price)
  /\ parked' = Nothing /\ idle' = Nothing /\ pending' = 0

(* vaultFarm is left, and pays, only when something is staked in it. *)
ExitFarm ==
  /\ kind = "farm"
  /\ LET paid == IF staked[strategy] > 0 THEN pending ELSE 0
     IN  ExitWith(idle["main"] + paid + parked["main"]) /\ pending' = pending - paid
  /\ parked' = Nothing /\ idle' = Nothing

(* Convex and Curve withdraw the want and claim nothing. *)
ExitWantOnly ==
  /\ kind \in {"convex", "curve", "uni"}
  /\ ExitWith(0)
  /\ UNCHANGED <<pending, idle, parked>>

(* "Functionality not required for initial migration" *)
ExitHelper ==
  /\ kind = "helper"
  /\ want' = [want EXCEPT ![strategy] = 0, ![Sett] = @ + want[strategy]]
  /\ UNCHANGED <<staked, got, pending, idle, parked>>

ExitPancake ==
  /\ kind = "pancake"
  /\ ExitWith(idle["main"] + pending + parked["main"])
  /\ parked' = Nothing /\ idle' = Nothing /\ pending' = 0

(* The BADGER or DIGG is sent on, the wBTC is not.  The exit of a          *)
(* StakingRewards pool reverts when nothing is staked.                     *)
ExitLp ==
  /\ kind \in {"badgerLp", "diggLp"}
  /\ kind = "badgerLp" => staked[strategy] > 0
  /\ ExitWith(idle["main"] + pending)
  /\ idle' = [idle EXCEPT !["main"] = 0] /\ pending' = 0
  /\ UNCHANGED parked

FarmExit ==
  \/ kind = "badger" /\ Exit(strategy, 0) /\ UNCHANGED <<claims, locked, config, farmVars>>
  \/ /\ \/ ExitSushi \/ ExitFarm \/ ExitWantOnly \/ ExitHelper \/ ExitPancake \/ ExitLp
     /\ UNCHANGED <<earned, claims, locked, config, fixed, feeWant, accrued>>
=============================================================================
