----------------------------- MODULE DiggHolders -----------------------------
(***************************************************************************)
(* DIGG among its holders: people who transfer, allow and spend, or, in    *)
(* behaviours of their own, the users, contracts and keepers of its Sett   *)
(* as the simulation of DiggSimulation drives them.                        *)
(***************************************************************************)
EXTENDS DiggSimulation

ASSUME DiggAssumption /\ GivenAssumption

(* No simulation, and no Sett *)
settOnlyVars == <<settVars, deposited, trip, result>>

TokenInit ==
  /\ Init
  /\ bDigg = [u \in Users |-> 0] /\ bDiggSupply = 0
  /\ min = 0 /\ withdrawalFee = 0
  /\ rewardRate = 0 /\ lastUpdateTime = 0 /\ periodFinish = 0 /\ now = 0
  /\ deposited = {} /\ trip = NoTrip
  /\ result = "none"

HoldersInit == TokenInit \/ SimInit

HoldersNext ==
  \/ result = "none" /\ Next /\ UNCHANGED settOnlyVars
  \/ SimNext

HoldersSpec == HoldersInit /\ [][HoldersNext]_simVars
=============================================================================
