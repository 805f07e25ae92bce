--------------------------- MODULE SettSimulation ---------------------------
(***************************************************************************)
(* The randomized simulation that is run against a Sett and its strategy:  *)
(* actors deposit, withdraw, earn and harvest in a random order, and after *)
(* each transaction SnapshotManager compares a snapshot of the chain taken *)
(* before it with one taken after it, through the confirm_* assertions of  *)
(* the resolver written for the kind of strategy.  The model asks of those *)
(* assertions what a run of the simulation cannot: whether they hold of    *)
(* every order of actions.                                                 *)
(*                                                                         *)
(* The chain is FarmStrategies.  randomize() draws the whole list of       *)
(* actions before run() executes it; what an actor can draw depends on its *)
(* own earlier draws only, so drawing each action when it runs gives the   *)
(* same lists.  Every transaction is in a block of its own.  A simulation  *)
(* may end in the exit of the strategy that a migration brings.            *)
(***************************************************************************)
EXTENDS FarmStrategies

CONSTANT NoTrip  \* no DepositAndWithdrawAction is under way

VARIABLES
  deposited,   \* the UserActors with deposited = True
  trip,        \* the DepositAndWithdrawAction that has deposited and not withdrawn:
               \* its user, with the want and the shares it had before
  result       \* "ok", or what ends the run: "exited", or the exception of a "revert",
               \* of a check ("earn", "deposit", "withdraw", "harvest", "tend") or of a
               \* "round_trip"

simVars == <<vars, farmVars, deposited, trip, result>>

(* The provisioner gives every user some want. *)
DistributeWant ==
  want \in {f \in [Holders -> 0..InitialWant] :
              \A h \in Holders : IF h \in Users THEN f[h] >= 2 ELSE f[h] = 0}

(* provision(): nothing is deposited, the Sett is open and its strategy is *)
(* in place.                                                               *)
SimInit ==
  /\ DistributeWant
  /\ staked = [s \in Strategies |-> 0]
  /\ earned = [s \in Strategies |-> 0]
  /\ shares = [u \in Users |-> 0]
  /\ supply = 0
  /\ locked = {}
  /\ paused = FALSE
  /\ min \in Mins
  /\ guestList = NoList
  /\ contractAccess = {}
  /\ vaultSet = TRUE
  /\ strategy \in Strategies
  /\ approved = {strategy}
  /\ stratPaused = {}
  /\ withdrawalFee \in [Strategies -> Fees]
  /\ threshold \in [Strategies -> Thresholds]
  /\ FarmInit
  /\ deposited = {}
  /\ trip = NoTrip
  /\ result = "ok"

-----------------------------------------------------------------------------
(* The assertions of the resolvers, on the state before and after a transaction *)

(* approx(actual, expected, 1) of helpers/utils.py, for an expected value  *)
(* that is the fraction num/den: no difference once it is cut to an        *)
(* integer, or less than a hundredth of the actual value.                  *)
Approx(actual, num, den) ==
  LET diff == (IF actual * den >= num THEN actual * den - num ELSE num - actual * den) \div den
  IN  diff = 0 \/ diff < actual \div 100

(* The figures of a snapshot *)
SettBalance == want[Sett]
BalanceOfWant == want[strategy] + IF HasPool THEN 0 ELSE staked[strategy]
BalanceOfPool == IF HasPool THEN staked[strategy] ELSE 0

(* Too little is idle to be moved, or the want of the Sett went to work. *)
EarnConfirmed ==
  \/ SettBalance <= 1
  \/ /\ SettBalance' <= SettBalance
     /\ \/ BalanceOfWant' = 0 /\ BalanceOfPool' > BalanceOfPool
        \/ BalanceOfWant' > BalanceOfWant /\ BalanceOfPool' = 0
     /\ StrategyBalance(strategy)' > StrategyBalance(strategy)

(* The shares expected for a deposit are amount / pricePerFullShare. *)
DepositConfirmed(u, amount) ==
  LET n == IF supply = 0 THEN amount ELSE amount * supply
      d == IF supply = 0 THEN 1 ELSE Balance
  IN  /\ Approx(supply', supply * d + n, d)
      /\ Approx(SettBalance', SettBalance + amount, 1)
      /\ Approx(want'[u], want[u] - amount, 1)
      /\ Approx(shares'[u], shares[u] * d + n, d)

(* What the pool has to give for n shares, times the supply: the pro-rata  *)
(* part that neither the Sett nor the strategy holds idle.                 *)
DueFromPool(n) == n * Balance - (SettBalance + BalanceOfWant) * supply

WithdrawConfirmed(u, n) ==
  IF n = 0
  THEN supply' = supply /\ shares'[u] = shares[u]
  ELSE /\ supply' < supply
       /\ shares'[u] < shares[u]
       /\ SettBalance > 0 => SettBalance' < SettBalance /\ Available' <= Available
       /\ (n > SettBalance /\ DueFromPool(n) > 0) =>
            /\ DueFromPool(n) <= BalanceOfPool * supply
            /\ Approx(BalanceOfPool, BalanceOfPool' * supply + DueFromPool(n), supply)
       /\ BalanceOfWant + SettBalance > 0 =>
            BalanceOfWant' + SettBalance' < BalanceOfWant + SettBalance
       /\ (withdrawalFee[strategy] > 0 /\ BalanceOfWant > BalanceOfWant') =>
            want'[Rewards] > want[Rewards]

(* Strategy balance and price per share do not fall. *)
NothingLost ==
  /\ StrategyBalance(strategy)' >= StrategyBalance(strategy)
  /\ supply > 0 => Balance' >= Balance

(* "assert after >= before if before else 0": with nothing in the strategy *)
(* before, the assertion is of the number 0 and fails.                     *)
BadgerHarvestConfirmed == StrategyBalance(strategy) # 0 /\ NothingLost

(* The same assertions, written again for the Badger LP strategy *)
BadgerLpHarvestConfirmed == StrategyBalance(strategy) # 0 /\ NothingLost

DiggLpHarvestConfirmed == NothingLost

HelperHarvestConfirmed == NothingLost

PancakeHarvestConfirmed == NothingLost

(* Sushi: the tree has no less xSushi and the strategy no Sushi. *)
TreeRewards == got["main"]["tree"]

SushiHarvestConfirmed ==
  /\ NothingLost
  /\ TreeRewards' >= TreeRewards
  /\ idle'["main"] = 0

SushiTendConfirmed ==
  idle["main"] + pending > 0 => parked'["main"] > parked["main"]

FarmHarvestConfirmed ==
  /\ want'[strategy] >= want[strategy]
  /\ idle'["main"] = 0 /\ pending' = 0 /\ parked'["main"] = 0
  /\ TreeRewards' > TreeRewards

FarmTendConfirmed ==
  /\ pending >= pending'
  /\ parked'["main"] >= parked["main"]

(* The events of a convex harvest: at least one distribution to the tree   *)
(* and one fee of governance, none of the strategist.                      *)
ConvexEventsConfirmed ==
  /\ \E t \in Tokens : ConvexHarvested(t) > 0
  /\ \A t \in Tokens : got'[t]["strategist"] = got[t]["strategist"]

(* What a helper vault received in token t, and the shares of it that went *)
(* to p *)
ToHelper(t) == ConvexHarvested(t) - Fee(CompoundRate, ConvexHarvested(t))
SharesTo(t, p) == got'[t][p] - got[t][p]

(* The share checks multiply what the vault received by the price of a     *)
(* share (for both tokens the CVX vault's) and take 80 % of it for the     *)
(* tree, 20 % for governance.                                              *)
ConvexHarvestConfirmed ==
  /\ ConvexEventsConfirmed
  /\ NothingLost
  /\ \A t \in Tokens :
       /\ ToHelper(t) * price * (MaxFee - GovernanceFee) >= SharesTo(t, "tree") * MaxFee
       /\ ToHelper(t) * price * GovernanceFee >= SharesTo(t, "rewards") * MaxFee

ConvexTendConfirmed ==
  /\ pending > 0 => parked'["side"] > parked["side"] /\ idle["side"] = 0 /\ idle'["side"] = 0
  /\ idle["main"] + pending > 0 => parked'["main"] > parked["main"]

(* init_resolver: the resolver of a strategy, by its name *)
HarvestConfirmed ==
  CASE kind = "badger"   -> BadgerHarvestConfirmed
    [] kind = "badgerLp" -> BadgerLpHarvestConfirmed
    [] kind = "diggLp"   -> DiggLpHarvestConfirmed
    [] kind = "sushi"    -> SushiHarvestConfirmed
    [] kind = "farm"     -> FarmHarvestConfirmed
    [] kind = "convex"   -> ConvexHarvestConfirmed
    [] kind = "helper"   -> HelperHarvestConfirmed
    [] kind = "pancake"  -> PancakeHarvestConfirmed
    [] kind \in {"curve", "uni"} -> TRUE

TendConfirmed ==
  CASE kind = "sushi"   -> SushiTendConfirmed
    [] kind = "farm"    -> FarmTendConfirmed
    [] kind = "convex"  -> ConvexTendConfirmed
    [] kind = "pancake" -> TRUE

Outcome(ok, name) == result' = IF ok THEN "ok" ELSE name

-----------------------------------------------------------------------------
(* The actors *)

Ready == result = "ok" /\ locked = {}
Between == Ready /\ trip = NoTrip

(* settDeposit of half of what the user holds *)
SettDeposit(u) ==
  LET amount == want[u] \div 2
  IN  /\ DepositFor(u, u, amount)
      /\ Outcome(DepositConfirmed(u, amount), "deposit")
      /\ UNCHANGED farmVars

WithdrawReverts(n) ==
  supply > 0 =>
    ProRata(n) > want[Sett] /\ ~StrategyWithdrawGuard(ProRata(n) - want[Sett], 0)

SettWithdraw(u, n) == FarmWithdraw(u, n)

DepositAction(u) ==
  /\ Between
  /\ u \notin deposited
  /\ SettDeposit(u)
  /\ deposited' = deposited \cup {u}
  /\ UNCHANGED trip

WithdrawAction(u) ==
  /\ Between
  /\ u \in deposited
  /\ SettWithdraw(u, shares[u])
  /\ Outcome(WithdrawConfirmed(u, shares[u]), "withdraw")
  /\ deposited' = deposited \ {u}
  /\ UNCHANGED trip

(* A withdrawal of nothing from a Sett without shares divides by zero. *)
WithdrawActionReverts(u) ==
  /\ Between
  /\ u \in deposited
  /\ WithdrawReverts(shares[u])
  /\ result' = "revert"
  /\ UNCHANGED <<vars, farmVars, deposited, trip>>

(* DepositAndWithdrawAction: deposit, then withdraw the shares received. *)
TripDeposits(u) ==
  /\ Between
  /\ SettDeposit(u)
  /\ trip' = [user |-> u, start |-> want[u], held |-> shares[u]]
  /\ UNCHANGED deposited

TripWithdraws ==
  /\ Ready
  /\ trip # NoTrip
  /\ LET u == trip.user
         n == shares[u] - trip.held
     IN  /\ SettWithdraw(u, n)
         /\ IF WithdrawConfirmed(u, n)
            THEN Outcome(trip.start - want'[u] <= 2, "round_trip")
            ELSE result' = "withdraw"
  /\ trip' = NoTrip
  /\ UNCHANGED deposited

KeeperEarns ==
  /\ Between
  /\ FarmEarn
  /\ Outcome(EarnConfirmed, "earn")
  /\ UNCHANGED <<deposited, trip>>

KeeperHarvests ==
  /\ Between
  /\ FarmHarvest
  /\ Outcome(HarvestConfirmed, "harvest")
  /\ UNCHANGED <<deposited, trip>>

KeeperTends ==
  /\ Between
  /\ Tendable
  /\ FarmTend
  /\ Outcome(TendConfirmed, "tend")
  /\ UNCHANGED <<deposited, trip>>

(* ChainActor's SleepAction: time passes for the position. *)
Sleep ==
  /\ Between
  /\ \/ kind = "badger" /\ Accrue(strategy) /\ UNCHANGED farmVars
     \/ \E n \in Rewards1 : AccrueReward(n)
  /\ UNCHANGED <<deposited, trip, result>>

(* The block of a transaction, or ChainActor's MineAction *)
Mine ==
  /\ locked # {}
  /\ NextBlock
  /\ UNCHANGED <<farmVars, deposited, trip, result>>

(* Controller.setStrategy, for a successor of the strategy *)
Migrates ==
  /\ Between
  /\ FarmExit
  /\ result' = "exited"
  /\ UNCHANGED <<deposited, trip>>

SimNext ==
  \/ \E u \in Users :
       \/ DepositAction(u)
       \/ WithdrawAction(u)
       \/ WithdrawActionReverts(u)
       \/ TripDeposits(u)
  \/ TripWithdraws
  \/ KeeperEarns
  \/ KeeperHarvests
  \/ KeeperTends
  \/ Sleep
  \/ Mine
  \/ Migrates

SimSpec == SimInit /\ [][SimNext]_simVars

-----------------------------------------------------------------------------
(* Properties *)

(* The assertions of the resolvers hold of every run of the simulation,    *)
(* whatever the order of its actions, but for: a withdrawal whose fee is   *)
(* rounded down to nothing, which is asserted of want kept in the strategy *)
(* itself; a harvest of a badger or                                        *)
(* Badger LP strategy that holds nothing, of a farm with nothing for the   *)
(* tree, of a convex strategy with nothing harvested or whose fee is       *)
(* rounded down at a share price of one; a tend of less Sushi than one     *)
(* xSushi costs; and a deposit withdrawn at once, whose loss may exceed 2  *)
(* only when a share is worth more than 2.                                 *)
HarvestExcused ==
  \/ kind \in {"badger", "badgerLp"} /\ StrategyBalance(strategy) = 0
  \/ kind = "farm" /\ TreeRewards' = TreeRewards
  \/ kind = "convex" /\ \/ \A t \in Tokens : ConvexHarvested(t) = 0
                         \/ price = 1

ConfirmationsHold ==
  [][/\ result' \notin {"earn", "deposit"}
     /\ result' = "withdraw" => ~HasPool /\ want'[Rewards] = want[Rewards]
     /\ result' = "harvest" => HarvestExcused
     /\ result' = "tend" => kind = "sushi" /\ idle["main"] + pending < price
     /\ result' = "round_trip" => Balance > 2 * supply]_simVars

(* A migration strands nothing: whatever was tended, harvested, deposited  *)
(* and withdrawn before, the exit of the strategy brings all want to the   *)
(* Sett and all rewards to the rewards address.  Except: the helpers exit  *)
(* nothing; convex and curve leave the rewards they did not harvest, a     *)
(* farm that is no longer staked leaves what it had earned, and a DIGG lp  *)
(* leaves wBTC.                                                            *)
NothingLeftBehind ==
  result = "exited" =>
    /\ kind # "helper" => StrategyBalance(strategy) = 0 /\ earned[strategy] = 0
    /\ kind \in {"sushi", "pancake", "badgerLp", "diggLp"} => pending = 0
    /\ kind \notin {"helper", "convex", "curve"} =>
         idle["main"] = 0 /\ parked = Nothing /\ (kind # "diggLp" => idle["side"] = 0)

(* Fees are a share of what is distributed, however often and in whatever  *)
(* order the keeper tends and harvests: neither the strategist nor         *)
(* governance receives more than its rate of all the rewards paid out.     *)
FeesAreTakenOnce ==
  kind \in {"sushi", "farm", "convex"} /\ result # "exited" =>
    \A t \in Tokens :
      LET paid == got[t]["tree"] + got[t]["rewards"] + got[t]["strategist"]
      IN  /\ got[t]["rewards"] * MaxFee <= GovernanceFee * paid
          /\ got[t]["strategist"] * MaxFee <= StrategistFee * paid
=============================================================================
