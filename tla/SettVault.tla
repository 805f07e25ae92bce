------------------------------ MODULE SettVault ------------------------------
(***************************************************************************)
(* The Sett system for one want token: SettV4 (the vault that issues       *)
(* shares), the Controller (which routes want to the active strategy) and  *)
(* strategies derived from BaseStrategy, with the internals of             *)
(* StrategyBadgerRewards (want staked in a StakingRewards pool whose       *)
(* reward is want itself).                                                 *)
(*                                                                         *)
(* A transaction is atomic, so each action is one external call with every *)
(* call it makes; a require, a SafeMath underflow or a division by zero    *)
(* anywhere in it disables the action.                                     *)
(*                                                                         *)
(* The partial exits (_withdrawSome) and full exits (_withdrawAll) of the  *)
(* pool may return up to PartialSlip and FullSlip less than asked: 0 for   *)
(* StrategyBadgerRewards, more for the strategies whose position is a      *)
(* third-party vault (StrategyHarvestMetaFarm).                            *)
(***************************************************************************)
EXTENDS Integers, FiniteSetsExt, Functions

CONSTANTS
  Users,          \* accounts that hold want and Sett shares
  Contracts,      \* the users that are contracts, not externally owned
  Strategies,     \* strategies whose want is this Sett's token
  NoStrategy,     \* address(0) in strategies[want]
  NoList,         \* address(0) in guestList
  GuestLists,     \* the guest lists governance can install: sets of users
  Approvals,      \* pairs <<owner, spender>> with an ERC20 allowance
  MaxFee,         \* MAX_FEE of the strategy and max of the Sett (10000)
  Mins,           \* the values governance gives to min
  Fees,           \* the values governance gives to withdrawalFee
  Thresholds,     \* the values given to withdrawalMaxDeviationThreshold
  Amounts,        \* amounts a call can name
  InitialWant,    \* want each user starts with
  MaxWant,        \* bound: yield accrues only while less want than this exists
  PartialSlip,    \* bound on what a partial exit of a position falls short
  FullSlip        \* bound on what a full exit of a position falls short

ASSUME SettAssumption ==
  /\ IsFiniteSet(Users)
  /\ Contracts \subseteq Users
  /\ Approvals \subseteq Users \X Users
  /\ NoStrategy \notin Strategies
  /\ MaxFee \in Nat \ {0}
  /\ Mins \subseteq Nat /\ Mins # {}
  /\ Fees \subseteq 0..MaxFee /\ Fees # {}
  /\ Thresholds \subseteq 0..MaxFee /\ Thresholds # {}
  /\ Amounts \subseteq Nat
  /\ InitialWant \in Nat
  /\ MaxWant \in Nat
  /\ PartialSlip \in Nat /\ FullSlip \in Nat

Sett == "Sett"
Controller == "Controller"
Rewards == "rewards"
Governance == "governance"
Contract == {Sett, Controller, Rewards, Governance}

ASSUME HoldersDistinct ==
  /\ Contract \cap Users = {}
  /\ Contract \cap Strategies = {}
  /\ Users \cap Strategies = {}

Holders == Users \cup Strategies \cup Contract

VARIABLES
  want,           \* ERC20 balances of the want token
  staked,         \* StakingRewards._balances[strategy]
  earned,         \* StakingRewards.earned(strategy)
  shares,         \* ERC20 balances of the Sett
  supply,         \* ERC20 totalSupply of the Sett
  locked,         \* the accounts with blockLock[account] = block.number
  paused,         \* Sett paused
  min,            \* Sett.min
  guestList,      \* Sett.guestList
  contractAccess, \* SettAccessControlDefended.approved
  vaultSet,       \* Controller.vaults[want] is the Sett
  strategy,       \* Controller.strategies[want]
  approved,       \* Controller.approvedStrategies[want]
  stratPaused,    \* the strategies that are paused
  withdrawalFee,  \* BaseStrategy.withdrawalFee of each strategy
  threshold       \* BaseStrategy.withdrawalMaxDeviationThreshold of each

funds  == <<want, staked, earned>>
claims == <<shares, supply>>
config == <<paused, min, guestList, contractAccess, vaultSet, strategy,
            approved, stratPaused, withdrawalFee, threshold>>
vars   == <<want, staked, earned, shares, supply, locked, config>>

TypeOK ==
  /\ want \in [Holders -> Nat]
  /\ staked \in [Strategies -> Nat]
  /\ earned \in [Strategies -> Nat]
  /\ shares \in [Users -> Nat]
  /\ supply \in Nat
  /\ locked \subseteq Users
  /\ paused \in BOOLEAN
  /\ min \in Mins
  /\ guestList \in GuestLists \cup {NoList}
  /\ contractAccess \subseteq Contracts
  /\ vaultSet \in BOOLEAN
  /\ strategy \in Strategies \cup {NoStrategy}
  /\ approved \subseteq Strategies
  /\ stratPaused \subseteq Strategies
  /\ withdrawalFee \in [Strategies -> Fees]
  /\ threshold \in [Strategies -> Thresholds]

Init ==
  /\ want = [h \in Holders |-> IF h \in Users THEN InitialWant ELSE 0]
  /\ staked = [s \in Strategies |-> 0]
  /\ earned = [s \in Strategies |-> 0]
  /\ shares = [u \in Users |-> 0]
  /\ supply = 0
  /\ locked = {}
  /\ paused = TRUE                 \* "Paused on launch"
  /\ min \in Mins
  /\ guestList = NoList
  /\ contractAccess = {}
  /\ vaultSet = FALSE
  /\ strategy = NoStrategy
  /\ approved = {}
  /\ stratPaused = {}
  /\ withdrawalFee \in [Strategies -> Fees]
  /\ threshold \in [Strategies -> Thresholds]

-----------------------------------------------------------------------------
(* Views *)

(* BaseStrategy.balanceOf: want idle in the strategy and in its position.  *)
StrategyBalance(s) == want[s] + staked[s]

(* SettV4.balance.  With no strategy the code reverts; the value here is   *)
(* what the Sett would then be responsible for.                            *)
Balance == want[Sett] + IF strategy = NoStrategy THEN 0 ELSE StrategyBalance(strategy)

Available == (want[Sett] * min) \div MaxFee

Move(f, t, n) ==
  IF f = t THEN want ELSE [want EXCEPT ![f] = @ - n, ![t] = @ + n]

Defended(u) == u \in Contracts => u \in contractAccess

Authorized(u) == guestList # NoList => u \in guestList

TotalWant ==
  SumFunction(want) + SumFunction(staked) + SumFunction(earned)

-----------------------------------------------------------------------------
(* SettV4: deposits and withdrawals *)

SharesFor_IgnoresPool(a) == a

SharesFor(a) == IF supply = 0 THEN a ELSE (a * supply) \div Balance

(* deposit, depositAll and depositFor: a deposit of one's own locks the    *)
(* caller and asks the guest list about it, depositFor locks and asks      *)
(* about the recipient.                                                    *)
DepositFor(u, r, a) ==
  /\ ~paused
  /\ Defended(u)
  /\ u \notin locked
  /\ Authorized(r)
  /\ strategy # NoStrategy
  /\ a <= want[u]
  /\ supply > 0 => Balance > 0
  /\ want' = Move(u, Sett, a)
  /\ shares' = [shares EXCEPT ![r] = @ + SharesFor(a)]
  /\ supply' = supply + SharesFor(a)
  /\ locked' = locked \cup {r}
  /\ UNCHANGED <<staked, earned, config>>

(* withdraw and withdrawAll, when the Sett holds enough. *)
ProRata_RoundsUp(n) == (Balance * n + supply - 1) \div supply

ProRata(n) == (Balance * n) \div supply

WithdrawGuard(u, n) ==
  /\ ~paused
  /\ Defended(u)
  /\ u \notin locked
  /\ strategy # NoStrategy
  /\ supply > 0
  /\ n <= shares[u] /\ n <= supply

Burn_KeepsTotalSupply(u, n) ==
  shares' = [shares EXCEPT ![u] = @ - n] /\ locked' = locked \cup {u} /\ UNCHANGED supply

Burn(u, n) ==
  /\ shares' = [shares EXCEPT ![u] = @ - n]
  /\ supply' = supply - n
  /\ locked' = locked \cup {u}

WithdrawIdle(u, n) ==
  /\ WithdrawGuard(u, n)
  /\ want[Sett] >= ProRata(n)
  /\ Burn(u, n)
  /\ want' = Move(Sett, u, ProRata(n))
  /\ UNCHANGED <<staked, earned, config>>

(* BaseStrategy.withdraw(amount) as StrategyBadgerRewards runs it: take    *)
(* what is idle first, unstake the rest (of which slip is lost), refuse    *)
(* when that is short of amount by more than the threshold allows, then    *)
(* pay the withdrawal fee out of what was recovered.                       *)
Unstaked_IgnoresIdle(amount) == amount

Unstaked(amount) == IF want[strategy] >= amount THEN 0 ELSE amount - want[strategy]

Recovered(amount, slip) ==
  IF want[strategy] >= amount THEN amount ELSE amount - slip

FeeOn(amount) == (amount * withdrawalFee[strategy]) \div MaxFee

StrategyWithdrawGuard_NoDeviationCheck(amount, slip) ==
  vaultSet /\ strategy \notin stratPaused /\ Unstaked(amount) <= staked[strategy] /\ slip <= Unstaked(amount)

StrategyWithdrawGuard(amount, slip) ==
  /\ vaultSet
  /\ strategy \notin stratPaused
  /\ Unstaked(amount) <= staked[strategy]
  /\ slip <= Unstaked(amount)
  /\ amount - Recovered(amount, slip) <= (amount * threshold[strategy]) \div MaxFee

(* withdraw, when the strategy has to cover the rest: whatever the         *)
(* strategy sends short, in slip or in fee, is taken off the payout.       *)
WithdrawUnrolling(u, n, slip) ==
  LET amount == ProRata(n) - want[Sett]
      got    == Recovered(amount, slip)
      fee    == FeeOn(got)
  IN  /\ WithdrawGuard(u, n)
      /\ want[Sett] < ProRata(n)
      /\ StrategyWithdrawGuard(amount, slip)
      /\ Burn(u, n)
      /\ staked' = [staked EXCEPT ![strategy] = @ - Unstaked(amount)]
      /\ want' = [want EXCEPT ![strategy] = @ + Unstaked(amount) - slip - got,
                              ![Rewards]  = @ + fee,
                              ![Sett]     = 0,
                              ![u]        = @ + want[Sett] + got - fee]
      /\ UNCHANGED <<earned, config>>

(* ERC20 transfer and transferFrom: the lock that is checked is the        *)
(* caller's, also when the caller spends another account's shares.         *)
Transfer(caller, f, t, n) ==
  /\ ~paused
  /\ caller \notin locked
  /\ caller = f \/ <<f, caller>> \in Approvals
  /\ n <= shares[f]
  /\ shares' = IF f = t THEN shares
                        ELSE [shares EXCEPT ![f] = @ - n, ![t] = @ + n]
  /\ UNCHANGED <<funds, supply, locked, config>>

-----------------------------------------------------------------------------
(* Moving want to work: keeper and governance *)

(* A transfer of n from f to strategy s followed by BaseStrategy.deposit,  *)
(* which stakes all the want the strategy holds.                           *)
DepositToStrategy(f, s, n) ==
  /\ s \notin stratPaused
  /\ n <= want[f]
  /\ want' = [want EXCEPT ![f] = @ - n, ![s] = 0]
  /\ staked' = [staked EXCEPT ![s] = @ + want[s] + n]

(* SettV4.earn, through Controller.earn, which lets the Sett in only when  *)
(* it is the registered vault.                                             *)
Earn ==
  /\ ~paused
  /\ vaultSet
  /\ strategy # NoStrategy
  /\ DepositToStrategy(Sett, strategy, Available)
  /\ UNCHANGED <<earned, claims, locked, config>>

(* Controller.earn called by the keeper, strategist or governance: it      *)
(* moves want that sits in the Controller.                                 *)
ControllerEarn(n) ==
  /\ strategy # NoStrategy
  /\ DepositToStrategy(Controller, strategy, n)
  /\ UNCHANGED <<earned, claims, locked, config>>

(* BaseStrategy.deposit called by the keeper or governance *)
StrategyDeposit(s) ==
  /\ DepositToStrategy(s, s, 0)
  /\ UNCHANGED <<earned, claims, locked, config>>

(* StrategyBadgerRewards.harvest: the rewards, in want, are staked again.  *)
Harvest(s) ==
  /\ s \notin stratPaused
  /\ want' = [want EXCEPT ![s] = 0]
  /\ staked' = [staked EXCEPT ![s] = @ + want[s] + earned[s]]
  /\ earned' = [earned EXCEPT ![s] = 0]
  /\ UNCHANGED <<claims, locked, config>>

(* Time passes for a staked position: StakingRewards.earned grows. *)
Accrue(s) ==
  /\ staked[s] > 0
  /\ TotalWant < MaxWant
  /\ earned' = [earned EXCEPT ![s] = @ + 1]
  /\ UNCHANGED <<want, staked, claims, locked, config>>

-----------------------------------------------------------------------------
(* Controller: registration and migration *)

SetVault ==
  /\ ~vaultSet
  /\ vaultSet' = TRUE
  /\ UNCHANGED <<funds, claims, locked, paused, min, guestList, contractAccess,
                 strategy, approved, stratPaused, withdrawalFee, threshold>>

ApproveStrategy(s) ==
  /\ approved' = approved \cup {s}
  /\ UNCHANGED <<funds, claims, locked, paused, min, guestList, contractAccess,
                 vaultSet, strategy, stratPaused, withdrawalFee, threshold>>

RevokeStrategy(s) ==
  /\ approved' = approved \ {s}
  /\ UNCHANGED <<funds, claims, locked, paused, min, guestList, contractAccess,
                 vaultSet, strategy, stratPaused, withdrawalFee, threshold>>

(* BaseStrategy.withdrawAll: StakingRewards.exit withdraws the whole stake *)
(* (and reverts when it is 0) and claims, then everything goes to the      *)
(* registered vault.                                                       *)
CanExit(s, slip) ==
  /\ s \notin stratPaused
  /\ vaultSet
  /\ staked[s] > 0
  /\ slip <= staked[s]

Exit_LeavesIdleWant(s, slip) ==
  /\ CanExit(s, slip)
  /\ want' = [want EXCEPT ![Sett] = @ + staked[s] - slip + earned[s]]
  /\ staked' = [staked EXCEPT ![s] = 0]
  /\ earned' = [earned EXCEPT ![s] = 0]

Exit(s, slip) ==
  /\ CanExit(s, slip)
  /\ want' = [want EXCEPT ![s] = 0,
                          ![Sett] = @ + want[s] + staked[s] - slip + earned[s]]
  /\ staked' = [staked EXCEPT ![s] = 0]
  /\ earned' = [earned EXCEPT ![s] = 0]

(* Controller.setStrategy *)
SetStrategy(s, slip) ==
  /\ s \in approved
  /\ IF strategy = NoStrategy THEN UNCHANGED funds ELSE Exit(strategy, slip)
  /\ strategy' = s
  /\ UNCHANGED <<claims, locked, paused, min, guestList, contractAccess,
                 vaultSet, approved, stratPaused, withdrawalFee, threshold>>

(* Controller.withdrawAll *)
WithdrawAllToVault(slip) ==
  /\ strategy # NoStrategy
  /\ Exit(strategy, slip)
  /\ UNCHANGED <<claims, locked, config>>

(* Controller.inCaseTokensGetStuck, for want *)
RescueFromController(n) ==
  /\ n <= want[Controller]
  /\ want' = Move(Controller, Governance, n)
  /\ UNCHANGED <<staked, earned, claims, locked, config>>

-----------------------------------------------------------------------------
(* Configuration *)

SetMin(m) ==
  /\ ~paused
  /\ min' = m
  /\ UNCHANGED <<funds, claims, locked, paused, guestList, contractAccess, vaultSet,
                 strategy, approved, stratPaused, withdrawalFee, threshold>>

SetGuestList(g) ==
  /\ ~paused
  /\ guestList' = g
  /\ UNCHANGED <<funds, claims, locked, paused, min, contractAccess, vaultSet,
                 strategy, approved, stratPaused, withdrawalFee, threshold>>

SetContractAccess(u, grant) ==
  /\ contractAccess' = IF grant THEN contractAccess \cup {u} ELSE contractAccess \ {u}
  /\ UNCHANGED <<funds, claims, locked, paused, min, guestList, vaultSet,
                 strategy, approved, stratPaused, withdrawalFee, threshold>>

(* Pausable reverts a pause of what is paused, and the other way round. *)
Pause ==
  /\ ~paused
  /\ paused' = TRUE
  /\ UNCHANGED <<funds, claims, locked, min, guestList, contractAccess, vaultSet,
                 strategy, approved, stratPaused, withdrawalFee, threshold>>

Unpause ==
  /\ paused
  /\ paused' = FALSE
  /\ UNCHANGED <<funds, claims, locked, min, guestList, contractAccess, vaultSet,
                 strategy, approved, stratPaused, withdrawalFee, threshold>>

PauseStrategy(s) ==
  /\ s \notin stratPaused
  /\ stratPaused' = stratPaused \cup {s}
  /\ UNCHANGED <<funds, claims, locked, paused, min, guestList, contractAccess,
                 vaultSet, strategy, approved, withdrawalFee, threshold>>

UnpauseStrategy(s) ==
  /\ s \in stratPaused
  /\ stratPaused' = stratPaused \ {s}
  /\ UNCHANGED <<funds, claims, locked, paused, min, guestList, contractAccess,
                 vaultSet, strategy, approved, withdrawalFee, threshold>>

SetWithdrawalFee(s, fee) ==
  /\ withdrawalFee' = [withdrawalFee EXCEPT ![s] = fee]
  /\ UNCHANGED <<funds, claims, locked, paused, min, guestList, contractAccess,
                 vaultSet, strategy, approved, stratPaused, threshold>>

SetThreshold(s, t) ==
  /\ threshold' = [threshold EXCEPT ![s] = t]
  /\ UNCHANGED <<funds, claims, locked, paused, min, guestList, contractAccess,
                 vaultSet, strategy, approved, stratPaused, withdrawalFee>>

-----------------------------------------------------------------------------
(* The environment *)

(* Anyone can send want to the Sett, the Controller or the active strategy. *)
Donate(u, h, n) ==
  /\ n <= want[u]
  /\ want' = Move(u, h, n)
  /\ UNCHANGED <<staked, earned, claims, locked, config>>

(* A new block: every blockLock is now in the past. *)
NextBlock ==
  /\ locked' = {}
  /\ UNCHANGED <<funds, claims, config>>

UserStep ==
  \/ \E u, r \in Users, a \in Amounts : DepositFor(u, r, a)
  \/ \E u \in Users, n \in Amounts : WithdrawIdle(u, n)
  \/ \E u \in Users, n \in Amounts, slip \in 0..PartialSlip : WithdrawUnrolling(u, n, slip)
  \/ \E c, f, t \in Users, n \in Amounts : Transfer(c, f, t, n)
  \/ \E u \in Users, h \in {Sett, Controller} \cup ({strategy} \ {NoStrategy}), n \in Amounts :
        Donate(u, h, n)

KeeperStep ==
  \/ Earn
  \/ \E n \in Amounts : ControllerEarn(n)
  \/ \E s \in Strategies : StrategyDeposit(s)
  \/ \E s \in Strategies : Harvest(s)
  \/ \E s \in Strategies : Accrue(s)

ControllerStep ==
  \/ SetVault
  \/ \E s \in Strategies : ApproveStrategy(s)
  \/ \E s \in Strategies : RevokeStrategy(s)
  \/ \E s \in Strategies, slip \in 0..FullSlip : SetStrategy(s, slip)
  \/ \E slip \in 0..FullSlip : WithdrawAllToVault(slip)
  \/ \E n \in Amounts : RescueFromController(n)

ConfigStep ==
  \/ \E m \in Mins : SetMin(m)
  \/ \E g \in GuestLists \cup {NoList} : SetGuestList(g)
  \/ \E u \in Contracts, grant \in BOOLEAN : SetContractAccess(u, grant)
  \/ Pause
  \/ Unpause
  \/ \E s \in Strategies : PauseStrategy(s)
  \/ \E s \in Strategies : UnpauseStrategy(s)
  \/ \E s \in Strategies, fee \in Fees : SetWithdrawalFee(s, fee)
  \/ \E s \in Strategies, t \in Thresholds : SetThreshold(s, t)

Next == UserStep \/ KeeperStep \/ ControllerStep \/ ConfigStep \/ NextBlock

Spec == Init /\ [][Next]_vars

-----------------------------------------------------------------------------
(* Properties *)

(* Every share is backed by at least the one want it was first issued for, *)
(* wherever that want is: in the Sett, idle in the strategy or staked.     *)
(* Roundings, fees and shortfalls are borne by the account that deposits   *)
(* or withdraws, never by those who stay.  Holds if FullSlip = 0.          *)
SharesBacked == supply <= Balance

(* Changing the strategy never strands want behind: a strategy that is not *)
(* the active one holds none, staked, idle or still to be claimed.         *)
NothingStranded ==
  \A s \in Strategies : s # strategy => StrategyBalance(s) = 0 /\ earned[s] = 0

(* With nothing paused, whoever holds shares can redeem any part of them:  *)
(* no SafeMath underflow or missing stake on the way through Controller    *)
(* and strategy can stop a withdrawal the position has no losses on.       *)
Redeemable ==
  (~paused /\ vaultSet /\ strategy \in Strategies \ stratPaused) =>
    \A u \in Users : \A n \in 1..shares[u] :
      /\ n <= supply
      /\ \/ ProRata(n) <= want[Sett]
         \/ StrategyWithdrawGuard(ProRata(n) - want[Sett], 0)

(* The want behind one share, getPricePerFullShare without its scaling,    *)
(* never falls, whoever does what.  Holds if FullSlip = 0.                 *)
PricePerShareNeverFalls ==
  [][(supply > 0 /\ supply' > 0) => Balance' * supply >= Balance * supply']_vars

(* A redemption pays its holder the pro-rata part of the pot, less the     *)
(* withdrawal fee (which goes to the rewards address) and a shortfall of   *)
(* the position no larger than the deviation threshold.                    *)
PayoutIsProRata ==
  [][\A u \in Users :
       (shares'[u] < shares[u] /\ supply' < supply) =>
         LET due  == ProRata(shares[u] - shares'[u])
             paid == want'[u] - want[u]
             fee  == want'[Rewards] - want[Rewards]
         IN  /\ paid >= 0 /\ fee >= 0
             /\ paid + fee <= due
             /\ fee * MaxFee <= due * withdrawalFee[strategy]
             /\ (due - paid - fee) * MaxFee <= due * threshold[strategy]]_vars

(* The Sett system implements the pro-rata vault of ShareVault.  Holds if  *)
(* FullSlip = 0.                                                           *)
Vault == INSTANCE ShareVault WITH Holders <- Users, Amounts <- Amounts, assets <- Balance
ImplementsShareVault == Vault!Spec
=============================================================================
