------------------------------ MODULE Emissions ------------------------------
(***************************************************************************)
(* How rewards leave the treasury.  The RewardsEscrow sends tokens to      *)
(* recipients that its owner, the dev multisig, has approved.  The scripts *)
(* that prepare a week of emissions have the multisigs top up the          *)
(* BadgerTree and the rewards manager, signal unlock schedules to the      *)
(* geysers, log schedules on the RewardsLogger, and fund and notify a pool *)
(* of StakingRewards.                                                      *)
(*                                                                         *)
(* Instructions are transactions of a multisig.  A Gnosis Safe whose inner *)
(* call fails emits an event and does not revert, and the check of that    *)
(* event is commented out, so a script goes on unless it compares what it  *)
(* finds with what it wanted.                                              *)
(*                                                                         *)
(* DIGG is held in fragments and emitted in shares.                        *)
(***************************************************************************)
EXTENDS StakingRewards, ScriptRun, SequencesExt

CONSTANTS
  Order,              \* the keys of weekly_schedule, in order
  Amount,             \* weekly_schedule: [key -> [asset -> amount]]
  AllCompounds,       \* pairs of a key and an asset: compounding_only
  HalfCompounds,      \* has_compounding
  GeyserKeys,         \* the keys that have a geyser, in order
  Unlisted,           \* native.digg, which printState leaves out
  TopUp,              \* of the tree: [asset -> amount]
  HarvestDigg,        \* harvest_digg
  Compounded,         \* what calc_emissions sends: [asset -> set of keys]
  DaysSent,           \* days of compounding left: [key -> number]
  SharesPerFragment,
  Logged,             \* the schedules of one_off_schedule and its like
  Payment,            \* an argument of RewardsSchedule.transfer
  Cover, NoCover,     \* amounts for the two pools of the blacksmith
  PoolStart, PoolDuration, PoolReward,  \* arguments of the distributor
  EscrowHolds         \* what the escrow begins with

Assets == {"badger", "digg"}
Keys == Range(Order)
Others == {"tree", "manager", "blacksmith", "badgerToken", Payment.to}

ASSUME EmissionsAssumption ==
  /\ PoolAssumption
  /\ Order \in Seq(Keys) /\ GeyserKeys \in Seq(Keys)
  /\ Payment.asset \in Assets /\ Payment.amount \in Nat
  /\ Amount \in [Keys -> [Assets -> Nat]]
  /\ AllCompounds \subseteq Keys \X Assets /\ HalfCompounds \subseteq Keys \X Assets
  /\ AllCompounds \cap HalfCompounds = {}
  /\ TopUp \in [Assets -> Nat] /\ SharesPerFragment \in Nat \ {0}
  /\ PoolStart \in Nat /\ PoolDuration \in Nat \ {0} /\ PoolReward \in Nat

VARIABLES
  escrow,     \* what the RewardsEscrow holds of each asset
  approved,   \* RewardsEscrow.isApproved
  allowance,  \* what the blacksmith may take from the escrow
  sent,       \* what was sent to each recipient
  lockers,    \* the geysers on which the UnlockScheduler is a token locker
  locked,     \* the sum of the unlock schedules of each geyser
  logged      \* the sum of the schedules on the RewardsLogger

treasury == <<escrow, approved, allowance, sent, lockers, locked, logged>>
emissionVars == <<scriptVars, treasury>>
allVars == <<vars, emissionVars>>

PoolScripts == {"none", "distribute"}

Nothing == [k \in Keys |-> [a \in Assets |-> 0]]

Init ==
  /\ PoolInit
  /\ ScriptInit
  /\ escrow = EscrowHolds
  /\ approved \in {{}, Others \cup Range(GeyserKeys)} /\ (script \in PoolScripts => approved = {})
  /\ allowance = 0
  /\ sent = [r \in Others |-> [a \in Assets |-> 0]]
  /\ lockers \in {{}, Range(GeyserKeys)} /\ (script # "schedule" => lockers = {})
  /\ locked = Nothing /\ logged = Nothing

-----------------------------------------------------------------------------
(* RewardsDist: how the amount of a key and an asset is split *)

ToGeyser(k, a) ==
  IF <<k, a>> \in AllCompounds THEN 0
  ELSE IF <<k, a>> \in HalfCompounds THEN Amount[k][a] \div 2
  ELSE Amount[k][a]

ToStakingRewards(k, a) ==
  IF <<k, a>> \in AllCompounds THEN Amount[k][a]
  ELSE IF <<k, a>> \in HalfCompounds THEN Amount[k][a] \div 2
  ELSE 0

(* One asset that only compounds keeps all of them from the geyser. *)
HasGeyserDistribution(k) == \A a \in Assets : <<k, a>> \notin AllCompounds

(* GeyserDistributor.generate over all keys *)
GeyserDists ==
  [k \in Keys |-> [a \in Assets |-> IF HasGeyserDistribution(k) THEN ToGeyser(k, a) ELSE 0]]

ToStakingRewardsDaily(k, a) == ToStakingRewards(k, a) \div 7

SharesToFragments(shares) == shares \div SharesPerFragment

(* calc_emissions *)
RemainingWeekly(a) ==
  MapThenSumSet(LAMBDA k : IF a = "digg"
                           THEN SharesToFragments(ToStakingRewardsDaily(k, a)) * DaysSent[k]
                           ELSE ToStakingRewardsDaily(k, a) * DaysSent[k],
                Compounded[a])

-----------------------------------------------------------------------------
(* The scripts *)

Do(op) == <<[op |-> op]>>
Approve(r) == <<[op |-> "approve", to |-> r, checked |-> FALSE]>>
Send(a, r, n, check) == <<[op |-> "send", asset |-> a, to |-> r, amount |-> n, check |-> check]>>
Log(schedules) == <<[op |-> "log", schedules |-> schedules]>>

(* Each non-zero distribution of a geyser has it approved, in two attempts.*)
Approvals ==
  FlattenSeq([i \in DOMAIN Order |->
    IF \E a \in Assets : GeyserDists[Order[i]][a] > 0
    THEN Approve(Order[i]) \o Approve(Order[i]) ELSE <<>>])

(* RewardsSchedule.testTransactions, after printState *)
EmitSchedule ==
  Do("printState")
    \o Send("badger", "tree", TopUp["badger"], "exactly")
    \o Send("digg", "tree", TopUp["digg"], "exactly")
    \o Send("digg", "manager", HarvestDigg, "never")
    \o Approvals
    \o Do("signalTokenLocks")

SendCompounded ==
  Do("printState")
    \o Send("badger", "manager", RemainingWeekly("badger"), "at least")
    \o Send("digg", "manager", RemainingWeekly("digg"), "at least")

Transfer ==
  Approve(Payment.to) \o Send(Payment.asset, Payment.to, Payment.amount, "exactly")

GrantTokenLocking ==
  FlattenSeq([i \in DOMAIN GeyserKeys |-> <<[op |-> "grant", key |-> GeyserKeys[i]]>>])

(* StakingRewardsDistributor, up to the harvest that tries out the result *)
Distribute ==
  <<[op |-> "approve", to |-> "pool", checked |-> TRUE]>>
    \o Do("topUp") \o Do("setRewardsDuration") \o Do("notifyRewardAmount") \o Do("verify")

Bonus(amount, sum) == <<[op |-> "addBonusToken", amount |-> amount, sum |-> sum]>>

CoverRewards ==
  Approve("blacksmith") \o Approve("badgerToken")
    \o Do("allow") \o Do("checkTime")
    \o Bonus(Cover, Cover) \o Bonus(NoCover, Cover + NoCover)

WeeklyEmissions == Log(Amount)
LogOthers == Log(Logged)

Program ==
  CASE script = "schedule"   -> EmitSchedule
    [] script = "compounded" -> SendCompounded
    [] script = "transfer"   -> Transfer
    [] script = "grant"      -> GrantTokenLocking
    [] script = "distribute" -> Distribute
    [] script = "cover"      -> CoverRewards
    [] script = "weekly"     -> WeeklyEmissions
    [] script = "one_off"    -> LogOthers
    [] OTHER                 -> <<>>

-----------------------------------------------------------------------------
(* Running them *)

Begin ==
  /\ Starts(Program)
  /\ UNCHANGED <<vars, script, treasury>>

PrintState ==
  /\ Reaches("printState")
  /\ Goes(\A k \in Keys \ Unlisted : k \in Range(GeyserKeys) \cap approved)
  /\ UNCHANGED <<vars, script, runs, faults, treasury>>

ApproveRecipient ==
  /\ Reaches("approve")
  /\ IF Instruction.to \in approved THEN Goes(TRUE) /\ UNCHANGED <<approved, faults>>
     ELSE \/ Executes(TRUE) /\ approved' = approved \cup {Instruction.to} /\ Goes(TRUE)
          \/ Fails(TRUE) /\ UNCHANGED approved /\ Goes(~Instruction.checked)
  /\ UNCHANGED <<vars, script, runs, escrow, allowance, sent, lockers, locked, logged>>

(* A transfer that did not take place is noticed unless nothing, or no     *)
(* more than the balance, is looked at.                                    *)
Unnoticed(i) ==
  i.check = "never" \/ (i.check = "at least" /\ sent[i.to][i.asset] >= i.amount)

SendTokens_Unchecked ==
  LET i == Instruction
      possible == i.to \in approved /\ escrow[i.asset] >= i.amount
  IN
  /\ Reaches("send")
  /\ \/ /\ Executes(possible)
        /\ escrow' = [escrow EXCEPT ![i.asset] = @ - i.amount]
        /\ sent' = [sent EXCEPT ![i.to][i.asset] = @ + i.amount]
     \/ Fails(possible) /\ UNCHANGED <<escrow, sent>>
  /\ Goes(TRUE)
  /\ UNCHANGED <<vars, script, runs, approved, allowance, lockers, locked, logged>>

(* RewardsEscrow.transfer *)
SendTokens ==
  LET i == Instruction
      possible == i.to \in approved /\ escrow[i.asset] >= i.amount
  IN
  /\ Reaches("send")
  /\ \/ /\ Executes(possible)
        /\ escrow' = [escrow EXCEPT ![i.asset] = @ - i.amount]
        /\ sent' = [sent EXCEPT ![i.to][i.asset] = @ + i.amount]
        /\ Goes(TRUE)
     \/ /\ Fails(possible)
        /\ UNCHANGED <<escrow, sent>>
        /\ Goes(Unnoticed(i))
  /\ UNCHANGED <<vars, script, runs, approved, allowance, lockers, locked, logged>>

(* UnlockScheduler.signalTokenLocks: all of them or none *)
SignalTokenLocks ==
  LET possible == \A k \in Keys : GeyserDists[k] # Nothing[k] => k \in lockers
  IN
  /\ Reaches("signalTokenLocks")
  /\ \/ /\ Executes(possible)
        /\ locked' = [k \in Keys |-> [a \in Assets |-> locked[k][a] + GeyserDists[k][a]]]
     \/ Fails(possible) /\ UNCHANGED locked
  /\ Goes(TRUE)
  /\ UNCHANGED <<vars, script, runs, escrow, approved, allowance, sent, lockers, logged>>

GrantRole ==
  /\ Reaches("grant")
  /\ \/ Executes(TRUE) /\ lockers' = lockers \cup {Instruction.key} /\ Goes(TRUE)
     \/ Fails(TRUE) /\ UNCHANGED lockers /\ Goes(Instruction.key \in lockers)
  /\ UNCHANGED <<vars, script, runs, escrow, approved, allowance, sent, locked, logged>>

(* set_schedules and publish: one multisend *)
SetUnlockSchedules ==
  /\ Reaches("log")
  /\ \/ /\ Executes(TRUE)
        /\ logged' = [k \in Keys |-> [a \in Assets |->
                        logged[k][a] + Instruction.schedules[k][a]]]
     \/ Fails(TRUE) /\ UNCHANGED logged
  /\ Goes(TRUE)
  /\ UNCHANGED <<vars, script, runs, escrow, approved, allowance, sent, lockers, locked>>

-----------------------------------------------------------------------------
(* cover_rewards: the escrow calls contracts that it has approved. *)

Allow ==
  /\ Reaches("allow")
  /\ \/ Executes("badgerToken" \in approved) /\ allowance' = Cover + NoCover /\ Goes(TRUE)
     \/ /\ Fails("badgerToken" \in approved)
        /\ UNCHANGED allowance /\ Goes(allowance = Cover + NoCover)
  /\ UNCHANGED <<vars, script, runs, escrow, approved, sent, lockers, locked, logged>>

CheckTime ==
  /\ Reaches("checkTime")
  /\ \E inTime \in BOOLEAN : Goes(inTime)
  /\ UNCHANGED <<vars, script, runs, faults, treasury>>

(* The blacksmith takes the tokens; it must then hold just what was due.   *)
AddBonusToken ==
  LET n == Instruction.amount
      possible == "blacksmith" \in approved /\ allowance >= n /\ escrow["badger"] >= n
      holds == sent["blacksmith"]["badger"]
  IN
  /\ Reaches("addBonusToken")
  /\ \/ /\ Executes(possible)
        /\ escrow' = [escrow EXCEPT !["badger"] = @ - n]
        /\ allowance' = allowance - n
        /\ sent' = [sent EXCEPT !["blacksmith"]["badger"] = @ + n]
        /\ Goes(holds + n = Instruction.sum)
     \/ Fails(possible) /\ UNCHANGED <<escrow, allowance, sent>> /\ Goes(holds = Instruction.sum)
  /\ UNCHANGED <<vars, script, runs, approved, lockers, locked, logged>>

-----------------------------------------------------------------------------
(* StakingRewardsDistributor *)

(* Up to the reward by what the pool holds, stakes and what it owes alike *)
TopUpPool ==
  LET required == PoolReward - held
      possible == "pool" \in approved /\ escrow["badger"] >= required
  IN
  /\ Reaches("topUp")
  /\ IF required <= 0 THEN Goes(TRUE) /\ UNCHANGED <<vars, faults, escrow>>
     ELSE \/ /\ Executes(possible)
             /\ escrow' = [escrow EXCEPT !["badger"] = @ - required]
             /\ Receive(required)
             /\ Goes(TRUE)
          \/ Fails(possible) /\ UNCHANGED <<vars, escrow>> /\ Goes(FALSE)
  /\ UNCHANGED <<script, runs, approved, allowance, sent, lockers, locked, logged>>

ModifyDuration ==
  LET possible == now > periodFinish
  IN
  /\ Reaches("setRewardsDuration")
  /\ IF rewardsDuration = PoolDuration THEN UNCHANGED <<vars, faults>>
     ELSE \/ Executes(possible) /\ SetRewardsDuration(PoolDuration)
          \/ Fails(possible) /\ UNCHANGED vars
  /\ Goes(TRUE)
  /\ UNCHANGED <<script, runs, treasury>>

Notify ==
  LET possible == Accrues /\ NotifiedRate(PoolStart, PoolReward) <= held \div rewardsDuration
  IN
  /\ Reaches("notifyRewardAmount")
  /\ \/ Executes(possible) /\ NotifyRewardAmount(PoolStart, PoolReward)
     \/ Fails(possible) /\ UNCHANGED vars
  /\ Goes(TRUE)
  /\ UNCHANGED <<script, runs, treasury>>

VerifyPool ==
  /\ Reaches("verify")
  /\ Goes(/\ lastUpdateTime = PoolStart
          /\ rewardsDuration = PoolDuration
          /\ rewardRate = PoolReward \div rewardsDuration
          /\ periodFinish = PoolStart + PoolDuration
          /\ held >= PoolReward)
  /\ UNCHANGED <<vars, script, runs, faults, treasury>>

-----------------------------------------------------------------------------

(* The owner of the escrow may change its mind. *)
RevokeRecipient(r) ==
  /\ Program # <<>> /\ todo # <<>> /\ Faulty
  /\ r \in approved /\ approved' = approved \ {r}
  /\ UNCHANGED <<vars, script, todo, runs, escrow, allowance, sent, lockers, locked, logged>>

ScriptStep ==
  \/ Begin \/ PrintState \/ ApproveRecipient \/ SendTokens \/ SignalTokenLocks
  \/ GrantRole \/ SetUnlockSchedules \/ Allow \/ CheckTime \/ AddBonusToken
  \/ TopUpPool \/ ModifyDuration \/ Notify \/ VerifyPool

(* What the scripts but the distributor never read is left alone; while it *)
(* runs it is the admin.                                                   *)
PoolStep ==
  /\ \/ script \in PoolScripts /\ (StakerStep \/ Tick)
     \/ script = "none" /\ AdminStep
  /\ UNCHANGED emissionVars

Next ==
  \/ ScriptStep
  \/ PoolStep
  \/ \E r \in Others \cup Range(GeyserKeys) \cup {"pool"} : RevokeRecipient(r)

Spec == Init /\ [][Next]_allVars

-----------------------------------------------------------------------------
(* Properties *)

InFragments(a, amount) ==
  IF a = "digg" THEN amount * SharesPerFragment ELSE amount

(* However often a schedule is emitted, started anew after an assertion    *)
(* that failed, or passed over by a Safe whose call failed unnoticed, the  *)
(* geysers never promise more than the tree was sent to pay it with        *)
(* (RewardsSchedule.py:202-301, gnosis_safe.py:201).                       *)
LocksAreFunded ==
  \A a \in Assets :
    SumFunction([k \in Keys |-> locked[k][a]]) <= InFragments(a, sent["tree"][a])
=============================================================================
