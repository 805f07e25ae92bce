-------------------------- MODULE OperatorScripts --------------------------
(***************************************************************************)
(* The desk from which the scripts are run: those of the treasury and those*)
(* that deploy.  The two kinds meet in no contract, and each behaviour is  *)
(* about one of them.                                                      *)
(***************************************************************************)
EXTENDS Emissions

CONSTANTS Setts, BscSetts, MiniSetts, ReportDelay, DeployRuns

VARIABLES chain, memory, file

D == INSTANCE Deployment WITH MaxRuns <- DeployRuns

ASSUME DeploymentAssumption ==
  /\ Setts \in Seq(D!Launchable) /\ MiniSetts \subseteq DOMAIN D!Config
  /\ BscSetts \in Seq(STRING \ {"pickle", "harvest"})
  /\ ReportDelay \in Nat \ {0}

Deploys == script \in D!Mainnet \cup D!Bsc \cup MiniSetts \cup {"digg"}

OperatorInit ==
  /\ Init /\ D!DeployInit
  /\ Deploys => approved = {} /\ lockers = {} /\ rewardsDuration = PoolDuration

OperatorNext ==
  \/ ~Deploys /\ Next /\ UNCHANGED <<chain, memory, file>>
  \/ Deploys /\ D!Step /\ UNCHANGED <<vars, treasury>>

OperatorSpec == OperatorInit /\ [][OperatorNext]_<<allVars, chain, memory, file>>

-----------------------------------------------------------------------------
(* Properties: those of Deployment *)

(* However often the launch was begun, what it gives out is exact when the *)
(* escrow is handed over (deploy_badger.py:505-545).                       *)
LaunchIsExact == D!LaunchIsExact

(* A strategy that works serves a vault of its token (badger_system.py:910)*)
WiredTogether == D!WiredTogether

(* The admin and the controllers are handed over last                      *)
(* (transfer_rights_to_multisig.py:29-68, sett_bsc.py:109-137).            *)
NoKeysLeftBehind == D!NoKeysLeftBehind

(* A policy that may rebase has all it needs (digg_minimal.py:28-60).      *)
RebaseReady == D!RebaseReady
=============================================================================
