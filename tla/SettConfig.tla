----------------------------- MODULE SettConfig -----------------------------
(***************************************************************************)
(* What the configuration says of a deployment: for the key of a Sett the  *)
(* name of its strategy and the parameters that are set, and for each kind *)
(* of strategy the parameters its deployment reads.  A parameter that is   *)
(* missing is an empty map, which cannot be encoded, so that a deployment  *)
(* that misses one fails before it sends a transaction.                    *)
(*                                                                         *)
(* Amounts of BADGER are in units of 250.                                  *)
(***************************************************************************)
EXTENDS Integers

\* f, and g where f says nothing
Over(f, g) ==
  [x \in DOMAIN f \cup DOMAIN g |-> IF x \in DOMAIN f THEN f[x] ELSE g[x]]

-----------------------------------------------------------------------------
(* sett_config.  A Sett is named by its key; renCrv of the sections pickle *)
(* and harvest by the section.                                             *)

Fees == {"performanceFeeGovernance", "performanceFeeStrategist", "withdrawalFee"}

(* want is set where the token is known to the configuration. *)
Entry(name, want, params) ==
  [name |-> name, want |-> want,
   params |-> params \cup Fees \cup IF want = "" THEN {} ELSE {"want"}]

(* strategyName is what the name of the artifacts was before there was one *)
(* for each pool: no strategy is called so any more.                       *)
Gauge(pool) ==
  Entry("StrategyCurveGauge", pool, {"gauge", "swap", "minter", "lpComponent", "keepCRV"})

ConvexEntry(pool) ==
  Entry("StrategyConvexStakingOptimizer", pool,
        {"pid", "lpComponent", "curvePool", "cvxHelperVault", "cvxCrvHelperVault"})

NativeConfig ==
  [badger        |-> Entry("StrategyBadgerRewards", "", {}),
   uniBadgerWbtc |-> Entry("StrategyBadgerLpMetaFarm", "", {}),
   sbtcCrv       |-> Gauge("sbtcCrv"),
   renCrv        |-> Gauge("renCrv"),
   tbtcCrv       |-> Gauge("tbtcCrv")]

ConvexConfig ==
  [convexRenCrv  |-> ConvexEntry("renCrv"),  convexSbtcCrv |-> ConvexEntry("sbtcCrv"),
   convexTbtcCrv |-> ConvexEntry("tbtcCrv"), convexHbtcCrv |-> ConvexEntry("hbtcCrv"),
   convexObtcCrv |-> ConvexEntry("obtcCrv"), convexPbtcCrv |-> ConvexEntry("pbtcCrv"),
   convexBbtcCrv |-> ConvexEntry("bbtcCrv"), convexTriCrypto |-> ConvexEntry("triCrypto"),
   convexTriCryptoDos |-> ConvexEntry("triCryptoDos")]

HelperConfig ==
  [cvx    |-> Entry("StrategyCvxHelper", "cvx", {}),
   cvxCrv |-> Entry("StrategyCvxCrvHelper", "cvxCrv", {})]

FarmConfig ==
  [pickle  |-> Entry("StrategyPickleMetaFarm", "renCrv",
                     {"pickleJar", "curveSwap", "lpComponent", "pid"}),
   harvest |-> Entry("StrategyHarvestMetaFarm", "renCrv",
                     {"harvestVault", "vaultFarm", "metaFarm", "badgerTree"})]

PairConfig ==
  [uniDiggWbtc     |-> Entry("StrategyDiggLpMetaFarm", "", {}),
   uniGenericLp    |-> [Entry("StrategyUniGenericLp", "", {}) EXCEPT !.params = {"withdrawalFee"}],
   sushiBadgerWBtc |-> Entry("StrategySushiBadgerWbtc", "", {}),
   sushiWethWBtc   |-> Entry("StrategySushiBadgerWbtc", "", {}),
   sushiDiggWBtc   |-> Entry("StrategySushiDiggWbtcLpOptimizer", "", {}),
   sushiClawUSDC   |-> Entry("StrategySushiLpOptimizer", "", {}),
   sushiWbtcIbBtc  |-> Entry("", "", {}),
   pancakeBnbBtcb  |-> Entry("StrategyPancakeLpOptimizer", "", {})]

Config ==
  Over(NativeConfig, Over(ConvexConfig, Over(HelperConfig, Over(FarmConfig, PairConfig))))

-----------------------------------------------------------------------------
(* deploy_strategy: what each kind is initialized with *)

GaugeTakes ==
  LET pool == {"want", "gauge", "minter", "swap", "lpComponent", "keepCRV"} \cup Fees
  IN  [StrategyUnitProtocolRenbtc  |-> {"want", "keepCRV"} \cup Fees,
       StrategyCurveGaugeRenBtcCrv |-> pool,
       StrategyCurveGaugeSbtcCrv   |-> pool,
       StrategyCurveGaugeTbtcCrv   |-> pool]

SushiTakes ==
  [StrategyDiggRewards      |-> {"want", "geyser"} \cup Fees,
   StrategySushiLpOptimizer |-> {"want", "badgerTree", "pid"} \cup Fees,
   StrategySushiBadgerWbtc  |-> {"want", "geyser", "badger", "badgerTree"} \cup Fees,
   StrategyPickleMetaFarm   |-> {"want", "pickleJar", "pid"} \cup Fees]

FarmTakes ==
  [StrategyHarvestMetaFarm  |-> {"want", "harvestVault", "vaultFarm", "metaFarm", "badgerTree"}
                                  \cup Fees,
   StrategyBadgerLpMetaFarm |-> {"want", "geyser"} \cup Fees,
   StrategyBadgerRewards    |-> {"geyser"} \cup Fees,
   StrategySushiDiggWbtcLpOptimizer |-> {"want", "geyser", "token", "badgerTree", "pid"} \cup Fees,
   StrategyDiggLpMetaFarm   |-> {"want", "geyser", "token"} \cup Fees]

LaterTakes ==
  [StrategyPancakeLpOptimizer |-> {"want", "token0", "token1", "pid"} \cup Fees,
   StrategyUniGenericLp       |-> {"want", "withdrawalFee"},
   StrategyConvexStakingOptimizer |->
     {"want", "badgerTree", "cvxHelperVault", "cvxCrvHelperVault", "pid", "curvePool"} \cup Fees,
   StrategyCvxHelper          |-> Fees,
   StrategyCvxCrvHelper       |-> Fees]

Takes == Over(GaugeTakes, Over(SushiTakes, Over(FarmTakes, LaterTakes)))

(* The two that are governed as the dev multisig has it, whoever is asked  *)
(* for, and the others by who is asked for.                                *)
GovernedBy(kind, asked) ==
  IF kind \in {"StrategyPancakeLpOptimizer", "StrategyUniGenericLp"} THEN "devMultisig" ELSE asked

CanDeploy(kind, params) == kind \in DOMAIN Takes /\ Takes[kind] \subseteq params

-----------------------------------------------------------------------------
(* badger_config *)

BadgerTotalSupply == 84000
HuntAmount == (BadgerTotalSupply * 10) \div 100
InitialHuntAmount == (BadgerTotalSupply * 5) \div 100
FounderRewardsAmount == (BadgerTotalSupply * 10) \div 100
RewardsEscrowBadgerAmount == (BadgerTotalSupply * 40) \div 100
BadgerLockAmount == (BadgerTotalSupply * 35) \div 100

UnlockSchedules ==
  [badger |-> 180, uniBadgerWbtc |-> 260, bSbtcCrv |-> 307, bRenCrv |-> 307, bTbtcCrv |-> 307,
   bSuperRenCrvPickle |-> 307, bSuperRenCrvHarvest |-> 307]
=============================================================================
