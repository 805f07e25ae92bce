---------------------------- MODULE DiggSimulation ----------------------------
(***************************************************************************)
(* The randomized simulation of the Sett of DIGG: besides users and        *)
(* keepers, a DiggActor rebases the token, and StrategyDiggRewardsResolver *)
(* and the resolver it derives from compare snapshots before and after     *)
(* each transaction.  SettSimulation describes how a simulation is run.    *)
(* Meanwhile the admin of the faucet may notify a new period, and a        *)
(* strategist may bring all want back to the Sett.                         *)
(***************************************************************************)
EXTENDS DiggSett

CONSTANTS
  Given,   \* the shares of the users and of the faucet at the start
  NoTrip   \* no DepositAndWithdrawAction is under way

GivenAssumption ==
  \A given \in Given :
    /\ DOMAIN given \subseteq Holders \ {Treasury, Sett, Strategy}
    /\ given \in [DOMAIN given -> Nat]
    /\ SumFunction(given) \in 0..TotalShares

VARIABLES
  deposited,   \* the UserActors with deposited = True
  trip,        \* the DepositAndWithdrawAction that has deposited: its user, and what
               \* the user had before
  result       \* "ok", or the assertion or transaction whose exception ends the run

simVars == <<vars, settVars, deposited, trip, result>>

(* The rest of the DIGG is with the treasury; rebases have been enabled.   *)
SimInit ==
  /\ totalSupply = InitialSupply
  /\ sharesPerFragment = InitialSharesPerFragment
  /\ \E given \in Given :
       shareBalances = [h \in Holders |->
         IF h \in DOMAIN given THEN given[h]
         ELSE IF h = Treasury THEN TotalShares - SumFunction(given) ELSE 0]
  /\ allowedFragments = [h \in Holders |-> [s \in Spenders |-> 0]]
  /\ rebasePaused = FALSE
  /\ remDiggMint = FALSE
  /\ bDigg = [u \in Users |-> 0]
  /\ bDiggSupply = 0
  /\ min \in Mins
  /\ withdrawalFee \in Fees
  /\ rewardRate = 0 /\ lastUpdateTime = 0 /\ periodFinish = 0
  /\ now = 1
  /\ deposited = {}
  /\ trip = NoTrip
  /\ result = "ok"

-----------------------------------------------------------------------------
(* The assertions of the resolver, on the state before and after *)

(* approx(actual, expected, 1), for an expected value of num/den *)
Approx(actual, num, den) ==
  LET diff == (IF actual * den >= num THEN actual * den - num ELSE num - actual * den) \div den
  IN  diff = 0 \/ diff < actual \div 100

(* The shares expected are computed from the snapshots of sett.shares.     *)
DepositConfirmed(u, amount) ==
  LET transferred == ToScaledShares(PoolShares' - PoolShares)
      n == IF bDiggSupply = 0 THEN transferred ELSE transferred * bDiggSupply
      d == IF bDiggSupply = 0 THEN 1 ELSE ToScaledShares(PoolShares)
  IN  /\ Approx(bDiggSupply', bDiggSupply * d + n, d)
      /\ Approx(BalanceOf(Sett)', BalanceOf(Sett) + amount, 1)
      /\ Approx(BalanceOf(u)', BalanceOf(u) - amount, 1)
      /\ Approx(bDigg'[u], bDigg[u] * d + n, d)

(* With no want in a pool, sett.balance is what Sett and strategy hold.    *)
WantHeld == BalanceOf(Sett) + BalanceOf(Strategy)

WithdrawConfirmed(u, n) ==
  IF n = 0
  THEN UNCHANGED <<bDigg, bDiggSupply>>
  ELSE /\ bDiggSupply' < bDiggSupply
       /\ bDigg'[u] < bDigg[u]
       /\ BalanceOf(Sett) > 0 => BalanceOf(Sett)' < BalanceOf(Sett) /\ Available' <= Available
       /\ n > BalanceOf(Sett) => n * WantHeld <= WantHeld * bDiggSupply
       /\ WantHeld > 0 => WantHeld' < WantHeld
       /\ (withdrawalFee > 0 /\ BalanceOf(Strategy) > BalanceOf(Strategy)') =>
            BalanceOf(Rewards)' > BalanceOf(Rewards)

EarnConfirmed ==
  \/ BalanceOf(Sett) <= 1
  \/ BalanceOf(Sett)' <= BalanceOf(Sett) /\ BalanceOf(Strategy)' > BalanceOf(Strategy)

PricePerFullShare == ToScaledShares(PoolShares)

(* A price is compared with the same supply on both sides. *)
HarvestConfirmed ==
  /\ BalanceOf(Strategy)' >= BalanceOf(Strategy)
  /\ bDiggSupply > 0 => PricePerFullShare' >= PricePerFullShare

(* A rebase at a price above or below the target *)
RebaseConfirmed(aboveTarget) ==
  /\ UNCHANGED <<shareBalances, bDiggSupply>>
  /\ \A u \in Users : IF aboveTarget THEN BalanceOf(u)' >= BalanceOf(u)
                      ELSE BalanceOf(u)' <= BalanceOf(u)

Outcome(ok, name) == result' = IF ok THEN "ok" ELSE name

-----------------------------------------------------------------------------
(* The actors *)

Between == result = "ok" /\ trip = NoTrip

Half(u) == BalanceOf(u) \div 2

Reverts(name) ==
  /\ result' = name
  /\ UNCHANGED <<vars, settVars, deposited, trip>>

SettDeposit(u) ==
  /\ Deposit(u, Half(u))
  /\ Outcome(DepositConfirmed(u, Half(u)), "deposit")

DepositAction(u) ==
  /\ Between
  /\ u \notin deposited
  /\ SettDeposit(u)
  /\ deposited' = deposited \cup {u}
  /\ UNCHANGED trip

WithdrawAction(u) ==
  /\ Between
  /\ u \in deposited
  /\ Withdraw(u, bDigg[u])
  /\ Outcome(WithdrawConfirmed(u, bDigg[u]), "withdraw")
  /\ deposited' = deposited \ {u}
  /\ UNCHANGED trip

WithdrawReverts(u) ==
  /\ Between
  /\ u \in deposited
  /\ bDiggSupply = 0
  /\ Reverts("withdraw_reverts")

TripDeposits(u) ==
  /\ Between
  /\ SettDeposit(u)
  /\ trip' = [user |-> u, start |-> BalanceOf(u), held |-> bDigg[u]]
  /\ UNCHANGED deposited

TripWithdraws ==
  /\ result = "ok" /\ trip # NoTrip
  /\ \E u \in Users :
       /\ u = trip.user
       /\ LET n == bDigg[u] - trip.held
          IN  /\ Withdraw(u, n)
              /\ IF WithdrawConfirmed(u, n)
                 THEN Outcome(trip.start - BalanceOf(u)' <= 2, "round_trip")
                 ELSE result' = "withdraw"
  /\ trip' = NoTrip
  /\ UNCHANGED deposited

TripReverts ==
  /\ result = "ok" /\ trip # NoTrip
  /\ bDiggSupply = 0
  /\ Reverts("withdraw_reverts")

KeeperEarns ==
  /\ Between
  /\ Earn
  /\ Outcome(EarnConfirmed, "earn")
  /\ UNCHANGED <<deposited, trip>>

KeeperHarvests ==
  /\ Between
  /\ Harvest
  /\ Outcome(HarvestConfirmed, "harvest")
  /\ UNCHANGED <<deposited, trip>>

HarvestReverts ==
  /\ Between
  /\ ~GetRewardGuard
  /\ Reverts("harvest_reverts")

(* RebaseAction: the price is above or below the target, and the policy    *)
(* moves the supply that way or not at all.                                *)
Rebases ==
  /\ Between
  /\ \E supplyDelta \in Deltas, aboveTarget \in BOOLEAN :
       /\ IF aboveTarget THEN supplyDelta >= 0 ELSE supplyDelta <= 0
       /\ RebaseDigg(supplyDelta)
       /\ Outcome(RebaseConfirmed(aboveTarget), "rebase")
  /\ UNCHANGED <<deposited, trip>>

Sleep ==
  /\ Between
  /\ Tick
  /\ UNCHANGED <<deposited, trip, result>>

Notifies ==
  /\ Between
  /\ \E start \in Starts, duration \in Durations, reward \in RewardsInShares :
       NotifyRewardAmount(start, duration, reward)
  /\ UNCHANGED <<deposited, trip, result>>

Exits ==
  /\ Between
  /\ WithdrawAll
  /\ UNCHANGED <<deposited, trip, result>>

SimNext ==
  \/ \E u \in Users :
       \/ DepositAction(u)
       \/ WithdrawAction(u)
       \/ WithdrawReverts(u)
       \/ TripDeposits(u)
  \/ TripWithdraws
  \/ TripReverts
  \/ KeeperEarns
  \/ KeeperHarvests
  \/ HarvestReverts
  \/ Rebases
  \/ Sleep
  \/ Notifies
  \/ Exits

SimSpec == SimInit /\ [][SimNext]_simVars

-----------------------------------------------------------------------------
(* Properties *)

(* A bDIGG never loses worth, whatever is deposited, withdrawn with a fee, *)
(* harvested or rebased in whatever order: the shares behind each do not   *)
(* fall, and across a deposit they do not when cut to initial fragments,   *)
(* in which DiggSett accounts (DiggSett.sol:63-116).                       *)
WorthKept ==
  bDiggSupply > 0 /\ bDiggSupply' > 0 =>
    IF bDiggSupply' > bDiggSupply
    THEN ToScaledShares(PoolShares') * bDiggSupply >= ToScaledShares(PoolShares) * bDiggSupply'
    ELSE PoolShares' * bDiggSupply >= PoolShares * bDiggSupply'

BDiggKeepsItsWorth == [][WorthKept]_simVars

(* The assertions of the resolvers hold of every run, and no transaction   *)
(* reverts, but for: a withdrawal that is worth less than a fragment or    *)
(* whose fee is; one where there is no bDIGG, as deposits of less than an  *)
(* initial fragment issue none; a harvest before the notified start; and a *)
(* deposit withdrawn at once that pays a fee, or loses an initial fragment *)
(* when that is worth more than one                                        *)
(* (StrategyDiggRewardsResolver.py:12-93, DiggRewardsFaucet.sol:68-120).   *)
Paid(u) == BalanceOf(u)' > BalanceOf(u)

DiggConfirmationsHold ==
  [][/\ result' \notin {"earn", "deposit", "harvest", "rebase"}
     /\ result' = "withdraw" =>
          \/ \A u \in Users : ~Paid(u)
          \/ withdrawalFee > 0 /\ shareBalances'[Rewards] = shareBalances[Rewards]
     /\ result' = "round_trip" =>
          withdrawalFee > 0 \/ sharesPerFragment < InitialSharesPerFragment
     /\ result' = "withdraw_reverts" => bDiggSupply = 0
     /\ result' = "harvest_reverts" => now < lastUpdateTime]_simVars
=============================================================================
