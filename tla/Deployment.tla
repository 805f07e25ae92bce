----------------------------- MODULE Deployment -----------------------------
(***************************************************************************)
(* The scripts that deploy the system, launch it, hand it over and add to  *)
(* it.  A BadgerSystem is the memory of a process: a name for each contract*)
(* that it has deployed or connected to, lost when the process ends; what  *)
(* print_to_file wrote remains.                                            *)
(*                                                                         *)
(* Instructions are transactions of the deployer or of a seeder, whose     *)
(* failure is an exception.  A process may also die around a transaction,  *)
(* before or after it took effect; then the script is run again, from its  *)
(* beginning, or another one is.                                           *)
(*                                                                         *)
(* Logic contracts and what is deployed elsewhere, tokens and multisigs,   *)
(* are known by a name and have no state here.  Roles other than those that*)
(* deploying and handing over depend on are left out.                      *)
(***************************************************************************)
EXTENDS ScriptRun, SettConfig, SequencesExt

CONSTANTS
  Setts,        \* the Setts that are launched, in order
  BscSetts,     \* the Setts on the other chain, in order
  MiniSetts,    \* the Setts that are tried one at a time
  ReportDelay   \* cpiOracleParams.reportDelaySec

VARIABLES
  chain,    \* the contracts, the BADGER of the deployer and the time
  memory,   \* the contracts that the BadgerSystem of the process knows
  file      \* the deploy file

deployVars == <<chain, memory, file>>
allDeployVars == <<scriptVars, deployVars>>

Blank ==
  [owner |-> "", strategist |-> "", want |-> "", controller |-> 0, paused |-> FALSE,
   vaults |-> <<>>, strategies |-> <<>>, approved |-> {}, stakers |-> {},
   holds |-> 0, links |-> <<>>, pushed |-> 0]

Elsewhere == 0    \* the address of what has no state here

-----------------------------------------------------------------------------
(* What a process knows *)

Name(part, id) == <<part, id>>
The(part) == <<part, "">>
Logic(kinds) == {Name("logic", k) : k \in kinds}

(* The connectors make a name known, the getters fail on one that is not.  *)
Knows(names) == names \subseteq DOMAIN memory
At(name) == chain.contracts[memory[name]]

Remember(names, address) == Over([n \in names |-> address], memory)

(* getController is given the first part of the id. *)
ControllerOf(id) == Name("controller", IF id \in {"harvest", "pickle"} THEN id ELSE "native")

-----------------------------------------------------------------------------
(* Instructions *)

Go(op) == <<[op |-> op]>>
Know(names) == <<[op |-> "know", names |-> names, fresh |-> FALSE]>>
New(name, needs, owner) ==
  <<[op |-> "deploy", name |-> name, needs |-> needs, owner |-> owner, links |-> <<>>]>>
NewLinked(name, needs, links) ==
  <<[op |-> "deploy", name |-> name, needs |-> needs, owner |-> "deployer", links |-> links]>>
Check(that, id) == <<[op |-> "check", that |-> that, id |-> id]>>
Pay(to, amount) == <<[op |-> "pay", to |-> to, amount |-> amount]>>
Grant(id) == <<[op |-> "grantRole", id |-> id]>>
GiveTo(on, by, to) == <<[op |-> "setOwner", on |-> on, by |-> by, to |-> to, if |-> FALSE]>>
GiveIfHeld(on, by, to) == <<[op |-> "setOwner", on |-> on, by |-> by, to |-> to, if |-> TRUE]>>
Link(on, field, to) == <<[op |-> "link", on |-> on, field |-> field, to |-> to]>>
Unpause(id, by) == <<[op |-> "unpause", id |-> id, by |-> by]>>
Wire(op, id, by, want) == <<[op |-> op, id |-> id, by |-> by, want |-> want]>>

Each(ids, F(_)) == FlattenSeq([i \in DOMAIN ids |-> F(ids[i])])

-----------------------------------------------------------------------------
(* BadgerSystem: the operations that deploy *)

NewSystem ==
  New(Name("admin", "dev"), {}, "deployer") \o New(Name("admin", "dao"), {}, "deployer")

ConnectDao == Know({The("token"), The("dao")})
ConnectMultisig == Know({The("devMultisig")})
ConnectPair == Know({The("pair")})

(* It forgets what logic was known. *)
DeployCoreLogic ==
  <<[op |-> "know", fresh |-> TRUE,
     names |-> Logic({"SmartVesting", "SmartTimelock", "RewardsEscrow", "BadgerGeyser",
                      "BadgerTree", "BadgerHunt", "SimpleTimelock"})]>>
DeploySettCoreLogic == Know(Logic({"Controller", "Sett", "DiggSett"}))
DeploySettStrategyLogicFor(kind) == Know(Logic({kind}))
DeployLogic(name) == Know(Logic({name}))

Admin == Name("admin", "dev")
DeployRewardsEscrow == New(The("escrow"), Logic({"RewardsEscrow"}) \cup {Admin}, "deployer")
DeployBadgerTree == New(The("tree"), Logic({"BadgerTree"}) \cup {Admin}, "deployer")
DeployBadgerHunt ==
  New(The("hunt"), Logic({"BadgerHunt"}) \cup {Admin, The("token"), The("escrow")}, "deployer")
DeployDaoBadgerTimelock ==
  New(The("timelock"), Logic({"SimpleTimelock"}) \cup {Admin, The("token"), The("dao")}, "dao")
DeployTeamVesting ==
  New(The("vesting"),
      Logic({"SmartVesting"}) \cup {Admin, The("token"), The("dao"), The("devMultisig")}, "dao")

AddController(id) ==
  New(Name("controller", id), Logic({"Controller"}) \cup {Admin}, "deployer")

DeploySettStakingRewards(id, staking) ==
  New(Name("rewards", id), Logic({"StakingRewards"}) \cup {Admin, The("token"), staking}, "deployer")

DeployGeyser(id) ==
  New(Name("geyser", id),
      Logic({"BadgerGeyser"}) \cup {Admin, The("token"), The("devMultisig"), The("escrow"),
                                    Name("sett", id)}, "devMultisig")

(* The token is an argument, with which the caller may be wrong. *)
NewSett(id, controller, token, owner) ==
  <<[op |-> "deploySett", id |-> id, controller |-> controller, token |-> token,
     owner |-> owner]>>

(* deploy_strategy: params are those of the configuration and those given. *)
NewStrategy(id, kind, given, want, needs, owner) ==
  <<[op |-> "deployStrategy", id |-> id, kind |-> kind, want |-> want,
     params |-> Config[id].params \cup given,
     needs |-> needs \cup Logic({kind}) \cup {Admin, ControllerOf(id)},
     owner |-> GovernedBy(kind, owner)]>>

WireUpSett_Unchecked(id) ==
  Wire("setVault", id, "deployer", "")
    \o Wire("approveStrategy", id, "deployer", "")
    \o Wire("setStrategy", id, "deployer", "")

(* The want of the strategy must be the token of the vault. *)
WireUpSett(id) ==
  Check("sameWant", id)
    \o Wire("setVault", id, "deployer", "")
    \o Wire("approveStrategy", id, "deployer", "")
    \o Wire("setStrategy", id, "deployer", "")

WireUpSettMultisig(id) ==
  Check("sameWant", id)
    \o Wire("setVault", id, "devMultisig", "")
    \o Wire("approveStrategy", id, "devMultisig", "")
    \o Wire("setStrategy", id, "devMultisig", "")

DeployStrategyNativeBadger ==
  NewStrategy("badger", "StrategyBadgerRewards", {"want", "geyser"}, "badger",
              {The("token"), Name("sett", "badger"), Name("rewards", "badger")}, "deployer")
    \o WireUpSett("badger")

DeployStrategyNativeRencrv ==
  NewStrategy("renCrv", "StrategyCurveGaugeRenBtcCrv", {}, Config["renCrv"].want,
              {Name("sett", "renCrv")}, "deployer")
    \o WireUpSett("renCrv")

DeployStrategyNativeSbtccrv ==
  NewStrategy("sbtcCrv", "StrategyCurveGaugeSbtcCrv", {}, Config["sbtcCrv"].want,
              {Name("sett", "sbtcCrv")}, "deployer")
    \o WireUpSett("sbtcCrv")

DeployStrategyNativeTbtccrv ==
  NewStrategy("tbtcCrv", "StrategyCurveGaugeTbtcCrv", {}, Config["tbtcCrv"].want,
              {Name("sett", "tbtcCrv")}, "deployer")
    \o WireUpSett("tbtcCrv")

DeployStrategyNativeUniBadgerWbtc ==
  NewStrategy("uniBadgerWbtc", "StrategyBadgerLpMetaFarm", {"want", "geyser"}, "uniBadgerWbtc",
              {The("pair"), Name("sett", "uniBadgerWbtc"), Name("rewards", "uniBadgerWbtc")},
              "deployer")
    \o WireUpSett("uniBadgerWbtc")

DeployStrategyHarvestRencrv ==
  NewStrategy("harvest", "StrategyHarvestMetaFarm", {"badgerTree"}, Config["harvest"].want,
              {The("tree"), Name("sett", "harvest")}, "deployer")
    \o WireUpSett("harvest")

(* deploy_badger has a function for each of these. *)
Launchable == {"badger", "renCrv", "sbtcCrv", "tbtcCrv", "uniBadgerWbtc", "harvest"}

DeployStrategyOf(id) ==
  CASE id = "badger"        -> DeployStrategyNativeBadger
    [] id = "renCrv"        -> DeployStrategyNativeRencrv
    [] id = "sbtcCrv"       -> DeployStrategyNativeSbtccrv
    [] id = "tbtcCrv"       -> DeployStrategyNativeTbtccrv
    [] id = "uniBadgerWbtc" -> DeployStrategyNativeUniBadgerWbtc
    [] id = "harvest"       -> DeployStrategyHarvestRencrv

KindOf(id) ==
  CASE id = "renCrv"  -> "StrategyCurveGaugeRenBtcCrv"
    [] id = "sbtcCrv" -> "StrategyCurveGaugeSbtcCrv"
    [] id = "tbtcCrv" -> "StrategyCurveGaugeTbtcCrv"
    [] id = "sushiWbtcIbBtc" -> "StrategySushiLpOptimizer"
    [] OTHER          -> Config[id].name

TokenOf(id) == IF Config[id].want # "" THEN Config[id].want ELSE id

-----------------------------------------------------------------------------
(* The launch *)

DistributeStakingRewards(id, amount) ==
  Check("rewards", id) \o Pay(Name("rewards", id), amount)

SupplyForWeek1Rewards ==
  UnlockSchedules.badger + UnlockSchedules.uniBadgerWbtc + UnlockSchedules.bRenCrv
    + UnlockSchedules.bSbtcCrv + UnlockSchedules.bTbtcCrv + UnlockSchedules.bSuperRenCrvHarvest

ToEscrow ==
  RewardsEscrowBadgerAmount - (UnlockSchedules.badger + UnlockSchedules.uniBadgerWbtc)
    - SupplyForWeek1Rewards

HuntPayment_Initial == Pay(The("hunt"), InitialHuntAmount)
HuntPayment == Pay(The("hunt"), HuntAmount)

PostDeployConfig ==
  DistributeStakingRewards("badger", UnlockSchedules.badger) \o Grant("badger")
    \o DistributeStakingRewards("uniBadgerWbtc", UnlockSchedules.uniBadgerWbtc)
    \o Grant("uniBadgerWbtc")
    \o HuntPayment
    \o Pay(The("tree"), SupplyForWeek1Rewards)
    \o Pay(The("escrow"), ToEscrow)
    \o Pay(The("timelock"), BadgerLockAmount)
    \o Pay(The("vesting"), FounderRewardsAmount)
    \o Check("geysers", "")
    \o GiveTo(The("escrow"), "deployer", "devMultisig")

(* notifyRewardAmount is called with one argument and takes three. *)
StartStakingRewards == Check("funded", "badger") \o Go("raise")

DeployFlow ==
  NewSystem \o ConnectDao \o ConnectMultisig \o ConnectPair
    \o DeployCoreLogic \o DeploySettCoreLogic \o DeployLogic("StakingRewards")
    \o Each(Setts, LAMBDA id : DeploySettStrategyLogicFor(KindOf(id)))
    \o DeployRewardsEscrow \o DeployBadgerTree \o DeployDaoBadgerTimelock
    \o DeployTeamVesting \o DeployBadgerHunt
    \o AddController("native") \o AddController("harvest")
    \o Each(Setts, LAMBDA id : NewSett(id, ControllerOf(id), TokenOf(id), "deployer"))
    \o DeploySettStakingRewards("badger", The("token"))
    \o DeploySettStakingRewards("uniBadgerWbtc", The("pair"))
    \o Each(Setts, DeployStrategyOf)
    \o Each(Setts, DeployGeyser)
    \o Go("print")
    \o PostDeployConfig \o StartStakingRewards

Launch == Go("connect") \o PostDeployConfig \o StartStakingRewards

-----------------------------------------------------------------------------
(* Afterwards *)

DeployNewStrat(id) ==
  NewStrategy(id, KindOf(id), {}, Config[id].want, {Name("sett", id)}, "deployer")
    \o WireUpSett(id)

NewStrat(id) == Go("connect") \o DeployNewStrat(id)

(* The same with the transactions of the Safe that governs by then *)
Rewire(id) ==
  Go("connect")
    \o NewStrategy(id, KindOf(id), {}, Config[id].want, {Name("sett", id)}, "deployer")
    \o WireUpSettMultisig(id)

(* convex_deploy: a vault and a strategy, to be wired by governance *)
ConvexDeploy ==
  LET id == "convexTriCryptoDos"
  IN  Go("connect") \o NewSett(id, ControllerOf(id), TokenOf(id), "devMultisig")
        \o Check("paused", id)
        \o DeploySettStrategyLogicFor(KindOf(id))
        \o NewStrategy(id, KindOf(id), {"badgerTree"}, TokenOf(id), {The("tree")}, "devMultisig")

(* deploy_ibbtc: the strategy reads a pid that nobody has set. *)
DeployIbbtc ==
  LET id == "sushiWbtcIbBtc"
  IN  Go("connect") \o DeploySettStrategyLogicFor(KindOf(id))
        \o NewSett(id, ControllerOf(id), TokenOf(id), "devMultisig")
        \o NewStrategy(id, KindOf(id), {"want", "badgerTree"}, TokenOf(id), {The("tree")},
                       "devMultisig")
        \o WireUpSett(id) \o Check("paused", id)

(* transfer_rights_to_multisig: whatever was transferred before makes it   *)
(* fail at once.                                                           *)
TransferRights ==
  Go("connect") \o Each(Setts, LAMBDA id : GiveTo(Name("sett", id), "deployer", "devMultisig"))
    \o Each(Setts, LAMBDA id : GiveTo(Name("strategy", id), "deployer", "devMultisig"))
    \o Each(<<"native", "harvest">>,
                LAMBDA id : GiveTo(Name("controller", id), "deployer", "devMultisig"))
    \o GiveTo(Admin, "deployer", "devMultisig")

-----------------------------------------------------------------------------
(* A Sett on its own, as it is deployed to be tried *)

DeployBadgerMinimal ==
  NewSystem \o DeploySettCoreLogic \o DeployLogic("RewardsEscrow") \o DeployLogic("BadgerTree")
    \o DeployRewardsEscrow \o DeployBadgerTree

(* What those who try a Sett add to its configuration *)
Fetched == {"want", "geyser", "badger", "badgerTree", "token", "token0", "token1", "pid"}

MiniDeploy(id) ==
  DeployBadgerMinimal \o ConnectDao \o ConnectMultisig
    \o AddController("native")
    \o DeployCoreLogic \o DeploySettCoreLogic \o DeploySettStrategyLogicFor(KindOf(id))
    \o AddController("native")
    \o NewSett(id, Name("controller", "native"), TokenOf(id), "deployer")
    \o NewStrategy(id, KindOf(id), Fetched, TokenOf(id), {}, "deployer")
    \o WireUpSett(id)
    \o Check("paused", id) \o Unpause(id, "deployer")

-----------------------------------------------------------------------------
(* The other chain: proxies that were deployed without being initialized   *)

Initialize(name, want) ==
  <<[op |-> "initialize", on |-> name, want |-> want]>>

InitializeSett(id) == Initialize(Name("sett", id), id) \o Wire("setVault", id, "seeder", id)

InitializeStrategy(id) ==
  Initialize(Name("strategy", id), id)
    \o Check("governedBySeeder", id)
    \o Wire("approveStrategy", id, "seeder", id)
    \o Wire("setStrategy", id, "seeder", id)

SetupBadger ==
  Go("connect") \o Initialize(Name("controller", "native"), "")
    \o Each(BscSetts, InitializeSett) \o Each(BscSetts, InitializeStrategy)

OpenVaults == Go("connect") \o Each(BscSetts, LAMBDA id : Unpause(id, "seeder"))

TestUpgrades ==
  Go("connect") \o Each(BscSetts, LAMBDA id : Check("open", id))
    \o Each(BscSetts, LAMBDA id : GiveTo(Name("strategy", id), "seeder", "opsMultisig"))

SetGovernance_ControllerFirst ==
  Go("connect")
    \o GiveIfHeld(Name("controller", "native"), "seeder", "opsMultisig")
    \o Each(BscSetts, LAMBDA id : GiveIfHeld(Name("sett", id), "seeder", "opsMultisig"))
    \o Each(BscSetts, LAMBDA id : GiveIfHeld(Name("strategy", id), "seeder", "opsMultisig"))

SetGovernance ==
  Go("connect")
    \o Each(BscSetts, LAMBDA id : GiveIfHeld(Name("sett", id), "seeder", "opsMultisig"))
    \o Each(BscSetts, LAMBDA id : GiveIfHeld(Name("strategy", id), "seeder", "opsMultisig"))
    \o GiveIfHeld(Name("controller", "native"), "seeder", "opsMultisig")

-----------------------------------------------------------------------------
(* DiggSystem *)

Digg(name) == Name("digg", name)

DeployDiggToken == New(Digg("uFragments"), {}, "deployer")
DeployDiggPolicy ==
  NewLinked(Digg("uFragmentsPolicy"), {Digg("uFragments")}, [token |-> Digg("uFragments")])
DeployOrchestrator ==
  NewLinked(Digg("orchestrator"), {Digg("uFragmentsPolicy")},
            [policy |-> Digg("uFragmentsPolicy")])
DeployMarketMedianOracle == New(Digg("marketMedianOracle"), {}, "deployer")
DeployCpiMedianOracle == New(Digg("cpiMedianOracle"), {}, "deployer")
DeployConstantOracle ==
  NewLinked(Digg("constantOracle"), {Digg("cpiMedianOracle")},
            [medianOracle |-> Digg("cpiMedianOracle")])
DeployDaoDiggTimelock == New(Digg("daoDiggTimelock"), {Digg("uFragments")}, "dao")
DeployDiggTeamVesting == New(Digg("diggTeamVesting"), {Digg("uFragments")}, "dao")
DeployAirdropDistributor ==
  New(Digg("diggDistributor"), {Digg("uFragments"), The("escrow")}, "deployer")

NoSleep == <<>>
SleepReportDelay == Go("sleep")

DeployDiggMinimal ==
  DeployDiggToken \o DeployDiggPolicy \o DeployOrchestrator
    \o DeployMarketMedianOracle \o DeployCpiMedianOracle \o DeployConstantOracle
    \o DeployDaoDiggTimelock \o DeployDiggTeamVesting
    \o Link(Digg("cpiMedianOracle"), "provider", Digg("constantOracle"))
    \o Go("updateAndPush")
    \o SleepReportDelay
    \o Link(Digg("uFragmentsPolicy"), "cpiOracle", Digg("cpiMedianOracle"))
    \o Link(Digg("uFragmentsPolicy"), "marketOracle", Digg("marketMedianOracle"))
    \o Link(Digg("uFragmentsPolicy"), "orchestrator", Digg("orchestrator"))
    \o Link(Digg("uFragmentsPolicy"), "orchestrator", Digg("orchestrator"))
    \o Link(Digg("uFragments"), "monetaryPolicy", Digg("uFragmentsPolicy"))

(* contracts_ownable, in the order of their deployment *)
TransferOwnership ==
  Each(<<"uFragments", "uFragmentsPolicy", "orchestrator", "marketMedianOracle",
         "cpiMedianOracle">>,
       LAMBDA name : GiveTo(Digg(name), "deployer", "dao"))

DeployDigg ==
  NewSystem \o DeployLogic("RewardsEscrow") \o DeployRewardsEscrow
    \o DeployDiggMinimal \o DeployAirdropDistributor \o TransferOwnership

-----------------------------------------------------------------------------
(* The scripts of a chain *)

Mainnet ==
  {"deploy", "launch", "newRenCrv", "newBadger", "rewireRenCrv", "convex", "ibbtc",
   "transferRights"}
Bsc == {"setup", "open", "upgrade", "handover"}

Programs ==
  Over(
    [deploy         |-> DeployFlow,
     launch         |-> Launch,
     newRenCrv      |-> NewStrat("renCrv"),
     newBadger      |-> NewStrat("badger"),
     rewireRenCrv   |-> Rewire("renCrv"),
     convex         |-> ConvexDeploy,
     ibbtc          |-> DeployIbbtc,
     transferRights |-> TransferRights,
     setup          |-> SetupBadger,
     open           |-> OpenVaults,
     upgrade        |-> TestUpgrades,
     handover       |-> SetGovernance,
     digg           |-> DeployDigg],
    [id \in MiniSetts |-> MiniDeploy(id)])

(* Those that may be run after a script *)
Campaign ==
  IF script \in Mainnet THEN Mainnet ELSE IF script \in Bsc THEN Bsc
  ELSE {script} \cap (MiniSetts \cup {"digg"})

BscNames ==
  <<Admin, Name("controller", "native")>>
    \o [i \in DOMAIN BscSetts |-> Name("sett", BscSetts[i])]
    \o [i \in DOMAIN BscSetts |-> Name("strategy", BscSetts[i])]

DeployInit ==
  /\ chain = [contracts |-> IF script \in Bsc THEN [i \in DOMAIN BscNames |-> Blank] ELSE <<>>,
              purse |-> BadgerTotalSupply, time |-> 1]
  /\ memory = <<>>
  /\ file = IF script \in Bsc THEN [n \in Range(BscNames) |-> CHOOSE i \in DOMAIN BscNames : BscNames[i] = n] ELSE <<>>

Init == ScriptInit /\ DeployInit

-----------------------------------------------------------------------------
(* Running them *)

Begin ==
  /\ script' \in Campaign /\ Starts(Programs[script'])
  /\ memory' = <<>>
  /\ UNCHANGED <<chain, file>>

Dies == Goes(FALSE) /\ memory' = <<>>

Transacts(possible, after, known) ==
  /\ \/ possible /\ chain' = after /\ memory' = known /\ Goes(TRUE) /\ UNCHANGED faults
     \/ possible /\ Faulty /\ chain' \in {chain, after} /\ Dies
     \/ ~possible /\ Dies /\ UNCHANGED <<chain, faults>>
  /\ UNCHANGED <<script, runs, file>>

(* A transaction by a Safe is not noticed to fail. *)
TransactsBy(by, possible, after) ==
  IF by = "devMultisig"
  THEN /\ \/ Executes(possible) /\ chain' = after
          \/ Fails(possible) /\ UNCHANGED chain
       /\ Goes(TRUE)
       /\ UNCHANGED <<script, runs, memory, file>>
  ELSE Transacts(possible, after, memory)

Created(contract) == [chain EXCEPT !.contracts = Append(@, contract)]
Put(name, contract) == [chain EXCEPT !.contracts[memory[name]] = contract]
Creates(name, contract, possible) ==
  Transacts(possible, Created(contract), Remember({name}, Len(chain.contracts) + 1))

KnowElsewhere ==
  /\ Reaches("know")
  /\ memory' = Over([n \in Instruction.names |-> Elsewhere],
                    IF Instruction.fresh
                    THEN [n \in {m \in DOMAIN memory : m[1] # "logic"} |-> memory[n]] ELSE memory)
  /\ Goes(TRUE)
  /\ UNCHANGED <<script, runs, faults, chain, file>>

DeployProxy ==
  LET i == Instruction
      links == [f \in DOMAIN i.links |-> memory[i.links[f]]]
  IN
  /\ Reaches("deploy")
  /\ IF Knows(i.needs)
     THEN Creates(i.name, [Blank EXCEPT !.owner = i.owner, !.strategist = i.owner,
                                        !.links = links], TRUE)
     ELSE Transacts(FALSE, chain, memory)

SettWith(token, i) ==
  [Blank EXCEPT !.owner = i.owner, !.want = token, !.controller = memory[i.controller],
                !.paused = TRUE]

DeploySett ==
  LET i == Instruction
      known == Knows(Logic({"Sett"}) \cup {Admin, i.controller})
      name == Name("sett", i.id)
  IN
  /\ Reaches("deploySett")
  /\ \/ known /\ Creates(name, SettWith(i.token, i), TRUE)
     \/ ~known /\ Transacts(FALSE, chain, memory)
     \/ \E token \in {TokenOf(id) : id \in Range(Setts)} \ {i.token} :
          /\ known /\ Faulty
          /\ chain' = Created(SettWith(token, i))
          /\ memory' = Remember({name}, Len(chain.contracts) + 1)
          /\ Goes(TRUE)
          /\ UNCHANGED <<script, runs, file>>

DeployStrategy ==
  LET i == Instruction
      known == Knows(i.needs)
  IN
  /\ Reaches("deployStrategy")
  /\ IF known /\ CanDeploy(i.kind, i.params)
     THEN Creates(Name("strategy", i.id),
                  [Blank EXCEPT !.owner = i.owner, !.want = i.want,
                                !.controller = memory[ControllerOf(i.id)]], TRUE)
     ELSE Transacts(FALSE, chain, memory)

Wants(i) == IF i.want # "" THEN i.want ELSE At(Name("strategy", i.id)).want

(* Controller.setVault: once for each token *)
SetVault ==
  LET i == Instruction
      controller == At(ControllerOf(i.id))
      want == Wants(i)
  IN
  /\ Reaches("setVault")
  /\ TransactsBy(i.by, i.by \in {controller.owner, controller.strategist}
                         /\ want \notin DOMAIN controller.vaults,
                 Put(ControllerOf(i.id),
                     [controller EXCEPT !.vaults = Over([w \in {want} |-> memory[Name("sett", i.id)]], @)]))

ApproveStrategy ==
  LET i == Instruction
      controller == At(ControllerOf(i.id))
  IN
  /\ Reaches("approveStrategy")
  /\ TransactsBy(i.by, i.by = controller.owner,
                 Put(ControllerOf(i.id),
                     [controller EXCEPT !.approved =
                        @ \cup {<<Wants(i), memory[Name("strategy", i.id)]>>}]))

SetStrategy ==
  LET i == Instruction
      controller == At(ControllerOf(i.id))
      want == Wants(i)
      strategy == memory[Name("strategy", i.id)]
  IN
  /\ Reaches("setStrategy")
  /\ TransactsBy(i.by, i.by \in {controller.owner, controller.strategist}
                         /\ <<want, strategy>> \in controller.approved,
                 Put(ControllerOf(i.id),
                     [controller EXCEPT !.strategies = Over([w \in {want} |-> strategy], @)]))

PayBadger ==
  LET i == Instruction
  IN
  /\ Reaches("pay")
  /\ Transacts(Knows({i.to}) /\ chain.purse >= i.amount,
               [Put(i.to, [At(i.to) EXCEPT !.holds = @ + i.amount]) EXCEPT !.purse = @ - i.amount],
               memory)

GrantRole ==
  LET rewards == Name("rewards", Instruction.id)
  IN
  /\ Reaches("grantRole")
  /\ Transacts(At(rewards).owner = "deployer",
               Put(rewards, [At(rewards) EXCEPT !.stakers =
                               @ \cup {memory[Name("strategy", Instruction.id)]}]),
               memory)

(* setGovernance and transferOwnership *)
GiveAway ==
  LET i == Instruction
  IN
  /\ Reaches("setOwner")
  /\ IF i.if /\ At(i.on).owner # i.by
     THEN Goes(TRUE) /\ UNCHANGED <<script, runs, faults, deployVars>>
     ELSE Transacts(At(i.on).owner = i.by, Put(i.on, [At(i.on) EXCEPT !.owner = i.to]), memory)

InitializeProxy ==
  LET i == Instruction
  IN
  /\ Reaches("initialize")
  /\ Transacts(At(i.on).owner = "",
               Put(i.on, [At(i.on) EXCEPT !.owner = "seeder", !.strategist = "deployer",
                            !.want = i.want, !.paused = i.on[1] = "sett",
                            !.controller = memory[Name("controller", "native")]]),
               memory)

UnpauseSett ==
  LET sett == Name("sett", Instruction.id)
  IN
  /\ Reaches("unpause")
  /\ Transacts(At(sett).owner = Instruction.by /\ At(sett).paused,
               Put(sett, [At(sett) EXCEPT !.paused = FALSE]), memory)

SetLink ==
  LET i == Instruction
  IN
  /\ Reaches("link")
  /\ Transacts(At(i.on).owner = "deployer",
               Put(i.on, [At(i.on) EXCEPT !.links = Over([f \in {i.field} |-> memory[i.to]], @)]), memory)

(* A report of the only provider *)
UpdateAndPush ==
  LET oracle == Digg("cpiMedianOracle")
  IN
  /\ Reaches("updateAndPush")
  /\ Transacts("provider" \in DOMAIN At(oracle).links,
               Put(oracle, [At(oracle) EXCEPT !.pushed = chain.time]), memory)

Sleep ==
  /\ Reaches("sleep")
  /\ chain' = [chain EXCEPT !.time = @ + ReportDelay]
  /\ Goes(TRUE)
  /\ UNCHANGED <<script, runs, faults, memory, file>>

Holds(i) ==
  CASE i.that = "sameWant" -> At(Name("sett", i.id)).want = At(Name("strategy", i.id)).want
    [] i.that = "rewards"  -> Knows({Name("rewards", i.id)}) /\ chain.purse >= UnlockSchedules[i.id]
    [] i.that = "funded"   -> At(Name("rewards", i.id)).holds >= UnlockSchedules[i.id]
    [] i.that = "geysers"  -> Knows({Name("geyser", id) : id \in Range(Setts)})
    [] i.that = "paused"   -> At(Name("sett", i.id)).paused
    [] i.that = "open"     -> ~At(Name("sett", i.id)).paused
    [] i.that = "governedBySeeder" -> At(Name("controller", "native")).owner = "seeder"

CheckThat ==
  /\ Reaches("check")
  /\ Goes(Holds(Instruction))
  /\ UNCHANGED <<script, runs, faults, deployVars>>

Raise ==
  /\ Reaches("raise")
  /\ Dies
  /\ UNCHANGED <<script, runs, faults, chain, file>>

ConnectBadger ==
  /\ Reaches("connect")
  /\ memory' = file
  /\ Goes(file # <<>>)
  /\ UNCHANGED <<script, runs, faults, chain, file>>

PrintToFile ==
  /\ Reaches("print")
  /\ file' = memory
  /\ Goes(TRUE)
  /\ UNCHANGED <<script, runs, faults, chain, memory>>

Step ==
  \/ Begin \/ KnowElsewhere \/ DeployProxy \/ DeploySett \/ DeployStrategy
  \/ SetVault \/ ApproveStrategy \/ SetStrategy \/ PayBadger \/ GrantRole \/ GiveAway
  \/ InitializeProxy \/ UnpauseSett \/ SetLink \/ UpdateAndPush \/ Sleep
  \/ CheckThat \/ Raise \/ ConnectBadger \/ PrintToFile

Spec == Init /\ [][Step]_allDeployVars

-----------------------------------------------------------------------------
(* Properties *)

Filed(name) == chain.contracts[file[name]]

(* However often the launch was begun, the escrow is handed to the multisig*)
(* only when the hunt, the tree, the escrow, the timelock and the vesting  *)
(* hold just what the plan gives them: what the deployer keeps does not    *)
(* pay any of them twice (deploy_badger.py:505-545).                       *)
LaunchIsExact ==
  The("escrow") \in DOMAIN file /\ Filed(The("escrow")).owner = "devMultisig" =>
    /\ Filed(The("hunt")).holds = HuntAmount
    /\ Filed(The("tree")).holds = SupplyForWeek1Rewards
    /\ Filed(The("escrow")).holds = ToEscrow
    /\ Filed(The("timelock")).holds = BadgerLockAmount
    /\ Filed(The("vesting")).holds = FounderRewardsAmount
    /\ \A id \in {"badger", "uniBadgerWbtc"} :
         Filed(Name("strategy", id)) .want = id
           /\ file[Name("strategy", id)] \in Filed(Name("rewards", id)).stakers

(* Wherever a script was cut off and whichever was run next, with a Sett   *)
(* deployed for the wrong token at that: a strategy that works on a        *)
(* controller serves a vault of the same token, on the same controller     *)
(* (badger_system.py:910-935).                                             *)
WiredTogether ==
  \A c \in DOMAIN chain.contracts :
    LET controller == chain.contracts[c]
    IN  \A want \in DOMAIN controller.strategies :
          /\ want \in DOMAIN controller.vaults
          /\ LET strategy == chain.contracts[controller.strategies[want]]
                 vault == chain.contracts[controller.vaults[want]]
             IN  /\ strategy.want = want /\ vault.want = want
                 /\ strategy.controller = c /\ vault.controller = c

(* What is given away last is given away after everything else, whatever   *)
(* was cut off and run again before: once the multisig has the proxy admin,*)
(* or the controller on the other chain, no Sett or strategy is left with  *)
(* the account that deployed them (transfer_rights_to_multisig.py:29-68,   *)
(* sett_bsc.py:109-137).                                                   *)
NoKeysLeftBehind ==
  LET settsAndStrategies == {n \in DOMAIN file : n[1] \in {"sett", "strategy"}}
      controllers == {n \in DOMAIN file : n[1] = "controller"}
  IN  /\ Admin \in DOMAIN file /\ Filed(Admin).owner = "devMultisig" =>
           \A n \in settsAndStrategies \cup controllers : Filed(n).owner = "devMultisig"
      /\ (\E n \in controllers : Filed(n).owner = "opsMultisig") =>
           \A n \in settsAndStrategies : Filed(n).owner # "seeder"

(* As soon as the policy may rebase the token, it has its two oracles and  *)
(* its orchestrator, and the CPI has a report that counts                  *)
(* (digg_minimal.py:28-60).                                                *)
RebaseReady ==
  \A u \in DOMAIN chain.contracts :
    LET token == chain.contracts[u]
    IN  "monetaryPolicy" \in DOMAIN token.links =>
          LET policy == chain.contracts[token.links.monetaryPolicy]
          IN  /\ {"cpiOracle", "marketOracle", "orchestrator"} \subseteq DOMAIN policy.links
              /\ chain.contracts[policy.links.orchestrator].links.policy
                   = token.links.monetaryPolicy
              /\ policy.links.token = u
              /\ LET cpi == chain.contracts[policy.links.cpiOracle]
                 IN  cpi.pushed > 0 /\ cpi.pushed + ReportDelay <= chain.time
=============================================================================
