------------------------------ MODULE SettProofs ------------------------------
(* Proofs about SettVault, for any set of accounts and strategies, any       *)
(* amounts and any fees: nothing is left in a strategy that was replaced,    *)
(* shares add up to their supply, can be redeemed and pay their part of the  *)
(* pot; and the chain of contracts implements the abstract vault.  Then      *)
(* about SettSimulation, for every kind of strategy and every order of its   *)
(* actors: what a migration leaves behind, what fees take, and that the      *)
(* assertions of the resolvers hold.                                         *)
EXTENDS SettSimulation, Arithmetic

LEMMA HolderFacts ==
  /\ Users \subseteq Holders /\ Strategies \subseteq Holders /\ Contract \subseteq Holders
  /\ Sett \in Holders /\ Controller \in Holders /\ Rewards \in Holders /\ Governance \in Holders
  /\ Sett # Controller /\ Sett # Rewards /\ Sett # Governance
  /\ Controller # Rewards /\ Controller # Governance /\ Rewards # Governance
  /\ \A u \in Users : u \notin Contract /\ u \notin Strategies
  /\ \A s \in Strategies : s \notin Contract /\ s \notin Users
BY HoldersDistinct DEF Holders, Contract, Sett, Controller, Rewards, Governance

LEMMA BalanceNat ==
  ASSUME TypeOK
  PROVE  Balance \in Nat /\ want[Sett] \in Nat /\ Available \in Nat
<1>1. Balance \in Nat /\ want[Sett] \in Nat
  BY HolderFacts DEF TypeOK, Balance, StrategyBalance
<1>2. Available \in Nat
  <2>1. want[Sett] * min \in Nat
    BY <1>1, MulNat, SettAssumption DEF TypeOK
  <2> QED BY <2>1, FloorBounds, SettAssumption DEF Available
<1> QED BY <1>1, <1>2

LEMMA ProRataBounds ==
  ASSUME TypeOK, supply > 0, NEW n \in Nat
  PROVE  ProRata(n) \in Nat /\ ProRata(n) * supply <= n * Balance
<1>1. Balance * n \in Nat /\ Balance * n = n * Balance
  BY BalanceNat, MulNat
<1>2. supply \in Nat
  BY DEF TypeOK
<1> QED BY <1>1, <1>2, FloorBounds DEF ProRata

LEMMA SharesForBounds ==
  ASSUME TypeOK, NEW a \in Nat, supply > 0 => Balance > 0
  PROVE  /\ SharesFor(a) \in Nat
         /\ IF supply = 0 THEN SharesFor(a) = a ELSE SharesFor(a) * Balance <= a * supply
<1>1. a * supply \in Nat /\ Balance \in Nat
  BY BalanceNat, MulNat DEF TypeOK
<1>2. supply \in Nat
  BY DEF TypeOK
<1> QED BY <1>1, <1>2, FloorBounds DEF SharesFor

(* What a withdrawal takes from the strategy: nothing goes negative, and no  *)
(* more than amount leaves it.                                               *)
LEMMA UnrollBounds ==
  ASSUME TypeOK, strategy \in Strategies, NEW amount \in Nat, NEW slip \in Nat,
         StrategyWithdrawGuard(amount, slip)
  PROVE  /\ Unstaked(amount) \in Nat /\ Unstaked(amount) <= staked[strategy]
         /\ Recovered(amount, slip) \in Nat /\ Recovered(amount, slip) <= amount
         /\ FeeOn(Recovered(amount, slip)) \in Nat
         /\ FeeOn(Recovered(amount, slip)) <= Recovered(amount, slip)
         /\ want[strategy] + Unstaked(amount) - slip - Recovered(amount, slip) \in Nat
<1>1. want[strategy] \in Nat /\ staked[strategy] \in Nat
  BY HolderFacts DEF TypeOK
<1>2. /\ Unstaked(amount) \in Nat /\ Unstaked(amount) <= staked[strategy]
      /\ Recovered(amount, slip) \in Nat /\ Recovered(amount, slip) <= amount
      /\ want[strategy] + Unstaked(amount) - slip - Recovered(amount, slip) \in Nat
  BY <1>1 DEF StrategyWithdrawGuard, Unstaked, Recovered
<1>3. withdrawalFee[strategy] \in Nat /\ withdrawalFee[strategy] <= MaxFee
  <2>1. withdrawalFee[strategy] \in Fees
    BY DEF TypeOK
  <2>2. MaxFee \in Nat /\ Fees \subseteq 0..MaxFee
    BY SettAssumption
  <2>3. withdrawalFee[strategy] \in 0..MaxFee
    BY <2>1, <2>2, Zenon
  <2> QED BY <2>2, <2>3
<1>4. /\ FeeOn(Recovered(amount, slip)) \in Nat
      /\ FeeOn(Recovered(amount, slip)) <= Recovered(amount, slip)
  BY <1>2, <1>3, PartAtMostWhole, SettAssumption DEF FeeOn
<1> QED BY <1>1, <1>2, <1>4

-----------------------------------------------------------------------------
(* Type correctness *)

LEMMA InitType == Init => TypeOK
<1> SUFFICES ASSUME Init PROVE TypeOK
  OBVIOUS
<1>1. want \in [Holders -> Nat]
  BY SettAssumption DEF Init
<1>2. withdrawalFee \in [Strategies -> Fees] /\ threshold \in [Strategies -> Thresholds]
  BY DEF Init
<1> QED BY <1>1, <1>2 DEF Init, TypeOK

LEMMA DepositType ==
  ASSUME TypeOK, NEW u \in Users, NEW r \in Users, NEW a \in Nat, DepositFor(u, r, a)
  PROVE  TypeOK'
<1>1. SharesFor(a) \in Nat
  BY SharesForBounds DEF DepositFor
<1>2. want' \in [Holders -> Nat]
  BY <1>1, HolderFacts DEF DepositFor, Move, TypeOK
<1> QED BY <1>1, <1>2 DEF DepositFor, TypeOK, config

LEMMA WithdrawIdleType ==
  ASSUME TypeOK, NEW u \in Users, NEW n \in Nat, WithdrawIdle(u, n)
  PROVE  TypeOK'
<1>1. ProRata(n) \in Nat
  BY ProRataBounds DEF WithdrawIdle, WithdrawGuard
<1>2. want' \in [Holders -> Nat]
  BY <1>1, HolderFacts DEF WithdrawIdle, Move, TypeOK
<1> QED BY <1>1, <1>2 DEF WithdrawIdle, WithdrawGuard, Burn, TypeOK, config

LEMMA WithdrawUnrollingType ==
  ASSUME TypeOK, NEW u \in Users, NEW n \in Nat, NEW slip \in 0..PartialSlip,
         WithdrawUnrolling(u, n, slip)
  PROVE  TypeOK'
<1> DEFINE amount == ProRata(n) - want[Sett]
           sent    == Recovered(amount, slip)
           fee    == FeeOn(sent)
<1>1. n \in Nat /\ slip \in Nat /\ ProRata(n) \in Nat /\ strategy \in Strategies
  BY SettAssumption, ProRataBounds DEF WithdrawUnrolling, WithdrawGuard, TypeOK
<1>2. amount \in Nat /\ StrategyWithdrawGuard(amount, slip)
  BY <1>1, BalanceNat DEF WithdrawUnrolling
<1>3. /\ Unstaked(amount) \in Nat /\ Unstaked(amount) <= staked[strategy]
      /\ sent \in Nat /\ fee \in Nat /\ fee <= sent
      /\ want[strategy] + Unstaked(amount) - slip - sent \in Nat
  BY <1>1, <1>2, UnrollBounds
<1>4. /\ staked' = [staked EXCEPT ![strategy] = @ - Unstaked(amount)]
      /\ want' = [want EXCEPT ![strategy] = @ + Unstaked(amount) - slip - sent,
                              ![Rewards]  = @ + fee,
                              ![Sett]     = 0,
                              ![u]        = @ + want[Sett] + sent - fee]
  BY DEF WithdrawUnrolling
<1> HIDE DEF amount, sent, fee
<1>5. want' \in [Holders -> Nat]
  BY <1>1, <1>3, <1>4, HolderFacts DEF TypeOK, Contract
<1>6. staked' \in [Strategies -> Nat]
  BY <1>1, <1>3, <1>4 DEF TypeOK
<1> QED BY <1>1, <1>5, <1>6 DEF WithdrawUnrolling, WithdrawGuard, Burn, TypeOK, config

LEMMA DepositToStrategyType ==
  ASSUME TypeOK, NEW f \in Holders, NEW s \in Strategies, NEW n \in Nat,
         DepositToStrategy(f, s, n)
  PROVE  want' \in [Holders -> Nat] /\ staked' \in [Strategies -> Nat]
BY HolderFacts DEF DepositToStrategy, TypeOK

LEMMA ExitType ==
  ASSUME TypeOK, NEW s \in Strategies, NEW slip \in Nat, Exit(s, slip)
  PROVE  /\ want' \in [Holders -> Nat] /\ staked' \in [Strategies -> Nat]
         /\ earned' \in [Strategies -> Nat]
<1>1. /\ want[s] \in Nat /\ staked[s] \in Nat /\ earned[s] \in Nat /\ slip <= staked[s]
      /\ want[Sett] \in Nat
  BY HolderFacts DEF TypeOK, Exit, CanExit
<1>2. want[Sett] + want[s] + staked[s] - slip + earned[s] \in Nat
  BY <1>1
<1>3. s # Sett
  BY HolderFacts DEF Contract
<1> QED BY <1>1, <1>2, <1>3, HolderFacts DEF TypeOK, Exit

LEMMA UserStepType == TypeOK /\ UserStep => TypeOK'
<1> SUFFICES ASSUME TypeOK, UserStep PROVE TypeOK'
  OBVIOUS
<1>1. CASE \E u, r \in Users, a \in Amounts : DepositFor(u, r, a)
  BY <1>1, SettAssumption, DepositType
<1>2. CASE \E u \in Users, n \in Amounts : WithdrawIdle(u, n)
  BY <1>2, SettAssumption, WithdrawIdleType
<1>3. CASE \E u \in Users, n \in Amounts, slip \in 0..PartialSlip : WithdrawUnrolling(u, n, slip)
  BY <1>3, SettAssumption, WithdrawUnrollingType
<1>4. CASE \E c, f, t \in Users, n \in Amounts : Transfer(c, f, t, n)
  BY <1>4, SettAssumption DEF Transfer, TypeOK, funds, config
<1>5. CASE \E u \in Users, h \in {Sett, Controller} \cup ({strategy} \ {NoStrategy}), n \in Amounts :
              Donate(u, h, n)
  <2>1. PICK u \in Users, h \in {Sett, Controller} \cup ({strategy} \ {NoStrategy}), n \in Amounts :
               Donate(u, h, n)
    BY <1>5
  <2>2. h \in Holders /\ n \in Nat
    BY HolderFacts, SettAssumption DEF TypeOK
  <2>3. want' \in [Holders -> Nat]
    BY <2>1, <2>2, HolderFacts DEF Donate, Move, TypeOK
  <2> QED BY <2>1, <2>3 DEF Donate, TypeOK, claims, config
<1> QED BY <1>1, <1>2, <1>3, <1>4, <1>5 DEF UserStep

LEMMA KeeperStepType == TypeOK /\ KeeperStep => TypeOK'
<1> SUFFICES ASSUME TypeOK, KeeperStep PROVE TypeOK'
  OBVIOUS
<1>1. CASE Earn
  <2>1. strategy \in Strategies /\ Available \in Nat
    BY <1>1, BalanceNat DEF Earn, TypeOK
  <2>2. want' \in [Holders -> Nat] /\ staked' \in [Strategies -> Nat]
    BY <1>1, <2>1, DepositToStrategyType, HolderFacts DEF Earn
  <2> QED BY <1>1, <2>2 DEF Earn, TypeOK, claims, config
<1>2. CASE \E n \in Amounts : ControllerEarn(n)
  <2>1. PICK n \in Amounts : ControllerEarn(n)
    BY <1>2
  <2>2. strategy \in Strategies /\ n \in Nat
    BY <2>1, SettAssumption DEF ControllerEarn, TypeOK
  <2>3. want' \in [Holders -> Nat] /\ staked' \in [Strategies -> Nat]
    BY <2>1, <2>2, DepositToStrategyType, HolderFacts DEF ControllerEarn
  <2> QED BY <2>1, <2>3 DEF ControllerEarn, TypeOK, claims, config
<1>3. CASE \E s \in Strategies : StrategyDeposit(s)
  <2>1. PICK s \in Strategies : StrategyDeposit(s)
    BY <1>3
  <2>2. want' \in [Holders -> Nat] /\ staked' \in [Strategies -> Nat]
    BY <2>1, DepositToStrategyType, HolderFacts DEF StrategyDeposit
  <2> QED BY <2>1, <2>2 DEF StrategyDeposit, TypeOK, claims, config
<1>4. CASE \E s \in Strategies : Harvest(s)
  BY <1>4, HolderFacts DEF Harvest, TypeOK, claims, config
<1>5. CASE \E s \in Strategies : Accrue(s)
  BY <1>5 DEF Accrue, TypeOK, claims, config
<1> QED BY <1>1, <1>2, <1>3, <1>4, <1>5 DEF KeeperStep

LEMMA ControllerStepType == TypeOK /\ ControllerStep => TypeOK'
<1> SUFFICES ASSUME TypeOK, ControllerStep PROVE TypeOK'
  OBVIOUS
<1>1. CASE SetVault
  BY <1>1 DEF SetVault, TypeOK, funds, claims
<1>2. CASE \E s \in Strategies : ApproveStrategy(s)
  BY <1>2 DEF ApproveStrategy, TypeOK, funds, claims
<1>3. CASE \E s \in Strategies : RevokeStrategy(s)
  BY <1>3 DEF RevokeStrategy, TypeOK, funds, claims
<1>4. CASE \E s \in Strategies, slip \in 0..FullSlip : SetStrategy(s, slip)
  <2>1. PICK s \in Strategies, slip \in 0..FullSlip : SetStrategy(s, slip)
    BY <1>4
  <2>2. /\ want' \in [Holders -> Nat] /\ staked' \in [Strategies -> Nat]
        /\ earned' \in [Strategies -> Nat]
    <3>1. CASE strategy = NoStrategy
      BY <2>1, <3>1 DEF SetStrategy, funds, TypeOK
    <3>2. CASE strategy # NoStrategy
      <4>1. strategy \in Strategies /\ slip \in Nat
        BY <3>2, SettAssumption DEF TypeOK
      <4> QED BY <2>1, <3>2, <4>1, ExitType DEF SetStrategy
    <3> QED BY <3>1, <3>2
  <2> QED BY <2>1, <2>2 DEF SetStrategy, TypeOK, claims
<1>5. CASE \E slip \in 0..FullSlip : WithdrawAllToVault(slip)
  <2>1. PICK slip \in 0..FullSlip : WithdrawAllToVault(slip)
    BY <1>5
  <2>2. strategy \in Strategies /\ slip \in Nat
    BY <2>1, SettAssumption DEF WithdrawAllToVault, TypeOK
  <2>3. /\ want' \in [Holders -> Nat] /\ staked' \in [Strategies -> Nat]
        /\ earned' \in [Strategies -> Nat]
    BY <2>1, <2>2, ExitType DEF WithdrawAllToVault
  <2> QED BY <2>1, <2>3 DEF WithdrawAllToVault, TypeOK, claims, config
<1>6. CASE \E n \in Amounts : RescueFromController(n)
  <2>1. want' \in [Holders -> Nat]
    BY <1>6, HolderFacts, SettAssumption DEF RescueFromController, Move, TypeOK
  <2> QED BY <1>6, <2>1 DEF RescueFromController, TypeOK, claims, config
<1> QED BY <1>1, <1>2, <1>3, <1>4, <1>5, <1>6 DEF ControllerStep

LEMMA ConfigStepType == TypeOK /\ ConfigStep => TypeOK'
<1> SUFFICES ASSUME TypeOK, ConfigStep PROVE TypeOK'
  OBVIOUS
<1> USE DEF TypeOK, funds, claims
<1>1. CASE \E m \in Mins : SetMin(m)
  BY <1>1 DEF SetMin
<1>2. CASE \E g \in GuestLists \cup {NoList} : SetGuestList(g)
  BY <1>2 DEF SetGuestList
<1>3. CASE \E u \in Contracts, grant \in BOOLEAN : SetContractAccess(u, grant)
  BY <1>3 DEF SetContractAccess
<1>4. CASE Pause
  BY <1>4 DEF Pause
<1>5. CASE Unpause
  BY <1>5 DEF Unpause
<1>6. CASE \E s \in Strategies : PauseStrategy(s)
  BY <1>6 DEF PauseStrategy
<1>7. CASE \E s \in Strategies : UnpauseStrategy(s)
  BY <1>7 DEF UnpauseStrategy
<1>8. CASE \E s \in Strategies, fee \in Fees : SetWithdrawalFee(s, fee)
  BY <1>8 DEF SetWithdrawalFee
<1>9. CASE \E s \in Strategies, t \in Thresholds : SetThreshold(s, t)
  BY <1>9 DEF SetThreshold
<1> QED BY <1>1, <1>2, <1>3, <1>4, <1>5, <1>6, <1>7, <1>8, <1>9 DEF ConfigStep

(* Amounts never go below zero: no transaction that is let through moves     *)
(* more want or shares than there are.                                       *)
THEOREM TypeCorrect == Spec => []TypeOK
<1>1. TypeOK /\ [Next]_vars => TypeOK'
  <2> SUFFICES ASSUME TypeOK, [Next]_vars PROVE TypeOK'
    OBVIOUS
  <2>1. CASE NextBlock
    BY <2>1 DEF NextBlock, TypeOK, funds, claims, config
  <2>2. CASE UNCHANGED vars
    BY <2>2 DEF vars, TypeOK, config
  <2> QED BY <2>1, <2>2, UserStepType, KeeperStepType, ControllerStepType, ConfigStepType DEF Next
<1> QED BY <1>1, InitType, PTL DEF Spec

-----------------------------------------------------------------------------
(* Nothing is stranded in a strategy that is not the active one *)

(* The actions that move want only touch the active strategy. *)
LEMMA DepositToStrategyStrands ==
  ASSUME TypeOK, NothingStranded, NEW f \in Holders, NEW s \in Strategies, NEW n \in Nat,
         DepositToStrategy(f, s, n), f \notin Strategies \/ (f = s /\ n = 0),
         s = strategy \/ n = 0, UNCHANGED <<earned, strategy>>
  PROVE  NothingStranded'
<1> SUFFICES ASSUME NEW x \in Strategies, x # strategy
             PROVE  want'[x] = 0 /\ staked'[x] = 0 /\ earned'[x] = 0
  BY DEF NothingStranded, StrategyBalance
<1>1. want[x] = 0 /\ staked[x] = 0 /\ earned[x] = 0 /\ x \in Holders /\ s \in Holders
  BY HolderFacts DEF NothingStranded, StrategyBalance, TypeOK
<1>2. earned'[x] = 0
  BY <1>1
<1>3. CASE x = s
  BY <1>1, <1>2, <1>3 DEF DepositToStrategy, TypeOK
<1>4. CASE x # s
  <2>1. x # f
    BY <1>4
  <2> QED BY <1>1, <1>2, <1>4, <2>1 DEF DepositToStrategy, TypeOK
<1> QED BY <1>3, <1>4

LEMMA ExitStrands ==
  ASSUME TypeOK, NothingStranded, strategy \in Strategies, NEW slip \in Nat, Exit(strategy, slip)
  PROVE  \A s \in Strategies : want'[s] = 0 /\ staked'[s] = 0 /\ earned'[s] = 0
<1> SUFFICES ASSUME NEW s \in Strategies
             PROVE  want'[s] = 0 /\ staked'[s] = 0 /\ earned'[s] = 0
  OBVIOUS
<1>1. s \in Holders /\ s # Sett
  BY HolderFacts DEF Contract
<1>2. s # strategy => want[s] = 0 /\ staked[s] = 0 /\ earned[s] = 0
  BY <1>1 DEF NothingStranded, StrategyBalance, TypeOK
<1> QED BY <1>1, <1>2, HolderFacts DEF Exit, TypeOK

LEMMA UserStepStrands == TypeOK /\ NothingStranded /\ UserStep => NothingStranded'
<1> SUFFICES ASSUME TypeOK, NothingStranded, UserStep, NEW s \in Strategies, s # strategy'
             PROVE  StrategyBalance(s)' = 0 /\ earned'[s] = 0
  BY DEF NothingStranded
<1>1. /\ want[s] \in Nat /\ staked[s] \in Nat /\ s \in Holders
      /\ s # Sett /\ s # Rewards /\ s # Controller
  BY HolderFacts DEF TypeOK, Contract
<1>2. s # strategy => want[s] = 0 /\ staked[s] = 0 /\ earned[s] = 0
  BY <1>1 DEF NothingStranded, StrategyBalance
<1>3. CASE \E u, r \in Users, a \in Amounts : DepositFor(u, r, a)
  BY <1>1, <1>2, <1>3, HolderFacts DEF DepositFor, Move, StrategyBalance, TypeOK, config
<1>4. CASE \E u \in Users, n \in Amounts : WithdrawIdle(u, n)
  BY <1>1, <1>2, <1>4, HolderFacts DEF WithdrawIdle, Move, StrategyBalance, TypeOK, config
<1>5. CASE \E u \in Users, n \in Amounts, slip \in 0..PartialSlip : WithdrawUnrolling(u, n, slip)
  BY <1>1, <1>2, <1>5, HolderFacts DEF WithdrawUnrolling, StrategyBalance, TypeOK, config
<1>6. CASE \E c, f, t \in Users, n \in Amounts : Transfer(c, f, t, n)
  BY <1>1, <1>2, <1>6 DEF Transfer, StrategyBalance, funds, config
<1>7. CASE \E u \in Users, h \in {Sett, Controller} \cup ({strategy} \ {NoStrategy}), n \in Amounts :
              Donate(u, h, n)
  BY <1>1, <1>2, <1>7, HolderFacts DEF Donate, Move, StrategyBalance, TypeOK, config
<1> QED BY <1>3, <1>4, <1>5, <1>6, <1>7 DEF UserStep

LEMMA KeeperStepStrands == TypeOK /\ NothingStranded /\ KeeperStep => NothingStranded'
<1> SUFFICES ASSUME TypeOK, NothingStranded, KeeperStep PROVE NothingStranded'
  OBVIOUS
<1>1. CASE Earn
  <2>1. strategy \in Strategies /\ Available \in Nat /\ Sett \in Holders /\ Sett \notin Strategies
    BY <1>1, BalanceNat, HolderFacts DEF Earn, TypeOK, Contract
  <2> QED BY <1>1, <2>1, DepositToStrategyStrands DEF Earn, config
<1>2. CASE \E n \in Amounts : ControllerEarn(n)
  <2>1. PICK n \in Amounts : ControllerEarn(n)
    BY <1>2
  <2>2. /\ strategy \in Strategies /\ n \in Nat
        /\ Controller \in Holders /\ Controller \notin Strategies
    BY <2>1, SettAssumption, HolderFacts DEF ControllerEarn, TypeOK, Contract
  <2> QED BY <2>1, <2>2, DepositToStrategyStrands DEF ControllerEarn, config
<1>3. CASE \E s \in Strategies : StrategyDeposit(s)
  <2>1. PICK s \in Strategies : StrategyDeposit(s)
    BY <1>3
  <2>2. s \in Holders
    BY HolderFacts
  <2> QED BY <2>1, <2>2, DepositToStrategyStrands DEF StrategyDeposit, config
<1>4. CASE \E s \in Strategies : Harvest(s)
  BY <1>4, HolderFacts DEF Harvest, NothingStranded, StrategyBalance, TypeOK, config
<1>5. CASE \E s \in Strategies : Accrue(s)
  BY <1>5, HolderFacts DEF Accrue, NothingStranded, StrategyBalance, TypeOK, config
<1> QED BY <1>1, <1>2, <1>3, <1>4, <1>5 DEF KeeperStep

LEMMA ControllerStepStrands == TypeOK /\ NothingStranded /\ ControllerStep => NothingStranded'
<1> SUFFICES ASSUME TypeOK, NothingStranded, ControllerStep PROVE NothingStranded'
  OBVIOUS
<1> USE DEF NothingStranded, StrategyBalance
<1>1. CASE SetVault
  BY <1>1 DEF SetVault, funds
<1>2. CASE \E s \in Strategies : ApproveStrategy(s)
  BY <1>2 DEF ApproveStrategy, funds
<1>3. CASE \E s \in Strategies : RevokeStrategy(s)
  BY <1>3 DEF RevokeStrategy, funds
<1>4. CASE \E s \in Strategies, slip \in 0..FullSlip : SetStrategy(s, slip)
  <2>1. PICK s \in Strategies, slip \in 0..FullSlip : SetStrategy(s, slip)
    BY <1>4
  <2>2. CASE strategy = NoStrategy
    <3>1. strategy \notin Strategies
      BY <2>2, SettAssumption
    <3> QED BY <2>1, <2>2, <3>1 DEF SetStrategy, funds
  <2>3. CASE strategy # NoStrategy
    <3>1. strategy \in Strategies /\ slip \in Nat
      BY <2>3, SettAssumption DEF TypeOK
    <3>2. \A x \in Strategies : want'[x] = 0 /\ staked'[x] = 0 /\ earned'[x] = 0
      BY <2>1, <2>3, <3>1, ExitStrands DEF SetStrategy
    <3> QED BY <3>2
  <2> QED BY <2>2, <2>3
<1>5. CASE \E slip \in 0..FullSlip : WithdrawAllToVault(slip)
  <2>1. PICK slip \in 0..FullSlip : WithdrawAllToVault(slip)
    BY <1>5
  <2>2. strategy \in Strategies /\ slip \in Nat
    BY <2>1, SettAssumption DEF WithdrawAllToVault, TypeOK
  <2>3. \A x \in Strategies : want'[x] = 0 /\ staked'[x] = 0 /\ earned'[x] = 0
    BY <2>1, <2>2, ExitStrands DEF WithdrawAllToVault
  <2> QED BY <2>3
<1>6. CASE \E n \in Amounts : RescueFromController(n)
  <2>1. \A s \in Strategies : s \in Holders /\ s # Controller /\ s # Governance
    BY HolderFacts DEF Contract
  <2> QED BY <1>6, <2>1 DEF RescueFromController, Move, TypeOK, config
<1> QED BY <1>1, <1>2, <1>3, <1>4, <1>5, <1>6 DEF ControllerStep

(* No configuration step touches want or the choice of strategy. *)
LEMMA ConfigKeeps == ConfigStep \/ NextBlock => UNCHANGED <<want, staked, earned, shares, supply, strategy>>
BY DEF ConfigStep, SetMin, SetGuestList, SetContractAccess, Pause, Unpause, PauseStrategy,
       UnpauseStrategy, SetWithdrawalFee, SetThreshold, NextBlock, funds, claims, config

LEMMA StrandsStep == TypeOK /\ NothingStranded /\ [Next]_vars => NothingStranded'
<1> SUFFICES ASSUME TypeOK, NothingStranded, [Next]_vars PROVE NothingStranded'
  OBVIOUS
<1>1. CASE ConfigStep \/ NextBlock
  BY <1>1, ConfigKeeps DEF NothingStranded, StrategyBalance
<1>2. CASE UNCHANGED vars
  BY <1>2 DEF vars, config, NothingStranded, StrategyBalance
<1> QED BY <1>1, <1>2, UserStepStrands, KeeperStepStrands, ControllerStepStrands DEF Next

(* However strategies are approved, revoked, paused, harvested and switched, *)
(* none that is not active keeps want or a claim to want.                    *)
THEOREM NeverStranded == Spec => []NothingStranded
<1>1. Init => NothingStranded
  <2>1. \A s \in Strategies : s \in Holders /\ s \notin Users
    BY HolderFacts
  <2> QED BY <2>1 DEF Init, NothingStranded, StrategyBalance
<1> QED BY <1>1, StrandsStep, TypeCorrect, PTL DEF Spec

-----------------------------------------------------------------------------
(* The pro-rata vault keeps its promise, with any assets: what is proved of  *)
(* it here uses the definitions of ShareVault alone.                         *)

VN == INSTANCE ShareVault WITH Holders <- Users, Amounts <- Nat, assets <- Balance

(* One unit of the asset stays behind every share, and every step keeps the *)
(* price.  These are facts about single steps, so that a refinement can     *)
(* cite them.                                                               *)
LEMMA MintKeeps ==
  ASSUME VN!TypeOK, VN!Backed, NEW h \in Users, NEW a \in Nat, NEW n \in Nat, VN!Mint(h, a, n)
  PROVE  VN!TypeOK' /\ VN!Backed' /\ (supply > 0 => Balance' * supply >= Balance * supply')
<1> USE DEF VN!TypeOK, VN!Backed, VN!Mint
<1>1. VN!TypeOK'
  OBVIOUS
<1>2. CASE supply = 0
  BY <1>1, <1>2
<1>3. CASE supply > 0
  <2>1. n * Balance <= a * supply
    BY <1>3
  <2>2. a * supply <= a * Balance
    BY MulMono
  <2>3. n <= a
    <3>1. n * Balance \in Int /\ a * supply \in Int /\ a * Balance \in Int
      OBVIOUS
    <3>2. n * Balance <= a * Balance
      BY <2>1, <2>2, <3>1
    <3> QED BY <3>2, <1>3, MulCancel
  <2>4. Balance' * supply >= Balance * supply'
    <3>1. Balance' * supply = Balance * supply + a * supply
      OBVIOUS
    <3>2. Balance * supply' = Balance * supply + n * Balance
      OBVIOUS
    <3>3. n * Balance \in Int /\ a * supply \in Int /\ Balance * supply \in Int
      OBVIOUS
    <3> QED BY <3>1, <3>2, <3>3, <2>1
  <2> QED BY <1>1, <2>3, <2>4
<1> QED BY <1>2, <1>3

LEMMA RedeemKeeps ==
  ASSUME VN!TypeOK, VN!Backed, NEW h \in Users, NEW a \in Nat, NEW n \in Nat, VN!Redeem(h, n, a)
  PROVE  VN!TypeOK' /\ VN!Backed' /\ (supply > 0 => Balance' * supply >= Balance * supply')
<1> USE DEF VN!TypeOK, VN!Backed, VN!Redeem
<1>1. VN!TypeOK'
  OBVIOUS
<1>2. CASE supply = 0
  BY <1>1, <1>2
<1>3. CASE supply > 0
  <2>1. supply - n <= Balance - a
    BY <1>3, RedeemedPart
  <2>2. Balance' * supply >= Balance * supply'
    <3>1. Balance' * supply = Balance * supply - a * supply
      OBVIOUS
    <3>2. Balance * supply' = Balance * supply - n * Balance
      OBVIOUS
    <3>3. n * Balance \in Int /\ a * supply \in Int /\ Balance * supply \in Int
      OBVIOUS
    <3>4. a * supply <= n * Balance
      OBVIOUS
    <3> QED BY <3>1, <3>2, <3>3, <3>4
  <2> QED BY <1>1, <2>1, <2>2
<1> QED BY <1>2, <1>3

LEMMA TransferKeeps ==
  ASSUME VN!TypeOK, VN!Backed, NEW f \in Users, NEW t \in Users, NEW n \in Nat, VN!Transfer(f, t, n)
  PROVE  VN!TypeOK' /\ VN!Backed' /\ Balance' * supply >= Balance * supply'
BY DEF VN!TypeOK, VN!Backed, VN!Transfer

LEMMA GainKeeps ==
  ASSUME VN!TypeOK, VN!Backed, NEW a \in Nat, VN!Gain(a)
  PROVE  VN!TypeOK' /\ VN!Backed' /\ Balance' * supply >= Balance * supply'
<1> USE DEF VN!TypeOK, VN!Backed, VN!Gain
<1>1. Balance' * supply = Balance * supply + a * supply /\ a * supply \in Nat /\ Balance * supply \in Nat
  BY MulNat
<1> QED BY <1>1

LEMMA StepKeeps ==
  ASSUME VN!TypeOK, VN!Backed, [VN!Next]_(VN!vars)
  PROVE  VN!TypeOK' /\ VN!Backed' /\ (supply > 0 => Balance' * supply >= Balance * supply')
<1>1. CASE \E h \in Users, a, n \in Nat : VN!Mint(h, a, n)
  BY <1>1, MintKeeps
<1>2. CASE \E h \in Users, n, a \in Nat : VN!Redeem(h, n, a)
  BY <1>2, RedeemKeeps
<1>3. CASE \E f, t \in Users, n \in Nat : VN!Transfer(f, t, n)
  BY <1>3, TransferKeeps
<1>4. CASE \E a \in Nat : VN!Gain(a)
  BY <1>4, GainKeeps
<1>5. CASE UNCHANGED VN!vars
  <2>1. Balance * supply \in Int
    BY DEF VN!TypeOK
  <2> QED BY <1>5, <2>1 DEF VN!vars, VN!TypeOK, VN!Backed
<1> QED BY <1>1, <1>2, <1>3, <1>4, <1>5 DEF VN!Next

(* Every share is backed by one unit of the asset, in every reachable state. *)
THEOREM AlwaysBacked ==
  VN!Spec => [](VN!TypeOK /\ VN!Backed)
<1>1. VN!Init => VN!TypeOK /\ VN!Backed
  BY DEF VN!Init, VN!TypeOK, VN!Backed
<1>2. VN!TypeOK /\ VN!Backed /\ [VN!Next]_(VN!vars) => (VN!TypeOK /\ VN!Backed)'
  BY StepKeeps
<1> QED BY <1>1, <1>2, PTL DEF VN!Spec

(* No step lowers what a share is worth.                                     *)
THEOREM PriceKept ==
  VN!Spec => VN!PriceNeverFalls
<1>1. VN!TypeOK /\ VN!Backed /\ [VN!Next]_(VN!vars)
        => [(supply > 0 /\ supply' > 0) => Balance' * supply >= Balance * supply']_(VN!vars)
  BY StepKeeps
<1>2. VN!Spec => [](VN!TypeOK /\ VN!Backed)
  BY AlwaysBacked
<1> QED BY <1>1, <1>2, PTL DEF VN!Spec, VN!PriceNeverFalls

-----------------------------------------------------------------------------
(* The Sett implements the pro-rata vault.  The refinement maps assets to    *)
(* Balance: each action below is the abstract step named in its lemma.       *)

(* What Balance is before and after a step that keeps the strategy. *)
LEMMA BalanceIs ==
  ASSUME TypeOK, strategy \in Strategies, strategy' = strategy
  PROVE  /\ want[Sett] \in Nat /\ want[strategy] \in Nat /\ staked[strategy] \in Nat
         /\ Balance = want[Sett] + (want[strategy] + staked[strategy])
         /\ Balance' = want'[Sett] + (want'[strategy] + staked'[strategy])
BY HolderFacts, SettAssumption DEF TypeOK, Balance, StrategyBalance

LEMMA DepositIsMint ==
  ASSUME TypeOK, NEW u \in Users, NEW r \in Users, NEW a \in Nat, DepositFor(u, r, a)
  PROVE  SharesFor(a) \in Nat /\ VN!Mint(r, a, SharesFor(a))
<1>1. /\ SharesFor(a) \in Nat
      /\ IF supply = 0 THEN SharesFor(a) = a ELSE SharesFor(a) * Balance <= a * supply
  BY SharesForBounds DEF DepositFor
<1>2. Balance' = Balance + a
  <2>1. strategy \in Strategies /\ strategy' = strategy /\ staked' = staked
    BY DEF DepositFor, TypeOK, config
  <2>2. want'[Sett] = want[Sett] + a /\ want'[strategy] = want[strategy]
    BY <2>1, HolderFacts DEF DepositFor, Move, TypeOK, Contract
  <2> QED BY <1>1, <2>1, <2>2, BalanceIs
<1> QED BY <1>1, <1>2 DEF DepositFor, VN!Mint

LEMMA WithdrawIdleIsRedeem ==
  ASSUME TypeOK, NEW u \in Users, NEW n \in Nat, WithdrawIdle(u, n)
  PROVE  ProRata(n) \in Nat /\ VN!Redeem(u, n, ProRata(n))
<1>1. ProRata(n) \in Nat /\ ProRata(n) * supply <= n * Balance
  BY ProRataBounds DEF WithdrawIdle, WithdrawGuard
<1>2. strategy \in Strategies /\ strategy' = strategy /\ staked' = staked
  BY DEF WithdrawIdle, WithdrawGuard, TypeOK, config
<1>3. Balance' = Balance - ProRata(n)
  <2>1. want'[Sett] = want[Sett] - ProRata(n) /\ want'[strategy] = want[strategy]
    BY <1>1, <1>2, HolderFacts DEF WithdrawIdle, Move, TypeOK, Contract
  <2> QED BY <1>1, <1>2, <2>1, BalanceIs
<1>4. ProRata(n) <= Balance
  BY <1>1, <1>2, BalanceIs DEF WithdrawIdle
<1> QED BY <1>1, <1>3, <1>4 DEF WithdrawIdle, WithdrawGuard, Burn, VN!Redeem

LEMMA WithdrawUnrollingIsRedeem ==
  ASSUME TypeOK, NEW u \in Users, NEW n \in Nat, NEW slip \in 0..PartialSlip,
         WithdrawUnrolling(u, n, slip)
  PROVE  ProRata(n) \in Nat /\ VN!Redeem(u, n, ProRata(n))
<1> DEFINE amount == ProRata(n) - want[Sett]
           sent    == Recovered(amount, slip)
           fee    == FeeOn(sent)
<1>1. /\ slip \in Nat /\ strategy \in Strategies
      /\ ProRata(n) \in Nat /\ ProRata(n) * supply <= n * Balance
  BY SettAssumption, ProRataBounds DEF WithdrawUnrolling, WithdrawGuard, TypeOK
<1>2. amount \in Nat /\ StrategyWithdrawGuard(amount, slip)
  BY <1>1, BalanceNat DEF WithdrawUnrolling
<1>3. /\ Unstaked(amount) \in Nat /\ Unstaked(amount) <= staked[strategy]
      /\ sent \in Nat /\ fee \in Nat
  BY <1>1, <1>2, UnrollBounds
<1>4. slip + sent = amount
  BY <1>1, <1>2 DEF StrategyWithdrawGuard, Unstaked, Recovered, TypeOK
<1>5. /\ staked' = [staked EXCEPT ![strategy] = @ - Unstaked(amount)]
      /\ want' = [want EXCEPT ![strategy] = @ + Unstaked(amount) - slip - sent,
                              ![Rewards]  = @ + fee,
                              ![Sett]     = 0,
                              ![u]        = @ + want[Sett] + sent - fee]
      /\ strategy' = strategy
  BY DEF WithdrawUnrolling, config
<1>6. ProRata(n) = amount + want[Sett]
  BY <1>1, BalanceNat
<1> HIDE DEF amount, sent, fee
<1>7. /\ want'[strategy] = want[strategy] + Unstaked(amount) - slip - sent
      /\ want'[Sett] = 0
      /\ staked'[strategy] = staked[strategy] - Unstaked(amount)
  BY <1>1, <1>5, HolderFacts DEF TypeOK, Contract
<1>8. want[strategy] \in Nat /\ staked[strategy] \in Nat /\ want[Sett] \in Nat
  BY <1>1, <1>5, BalanceIs
<1>9. /\ Balance = want[Sett] + (want[strategy] + staked[strategy])
      /\ Balance' = want'[Sett] + (want'[strategy] + staked'[strategy])
  BY <1>1, <1>5, BalanceIs
<1>10. Balance' = Balance - ProRata(n)
  BY <1>1, <1>2, <1>3, <1>4, <1>6, <1>7, <1>8, <1>9
<1>11. supply > 0 /\ supply \in Nat /\ n <= supply /\ n <= shares[u]
  BY DEF WithdrawUnrolling, WithdrawGuard, TypeOK
<1>12. ProRata(n) <= Balance
  BY <1>1, <1>11, BalanceNat, RedeemedPart
<1> QED BY <1>1, <1>10, <1>11, <1>12 DEF WithdrawUnrolling, Burn, VN!Redeem

LEMMA TransferIsTransfer ==
  ASSUME TypeOK, NEW c \in Users, NEW f \in Users, NEW t \in Users, NEW n \in Amounts,
         Transfer(c, f, t, n)
  PROVE  n \in Nat /\ VN!Transfer(f, t, n)
BY SettAssumption DEF Transfer, funds, config, Balance, StrategyBalance, VN!Transfer

(* Whatever moves want without touching the shares is a gain, of 0 for most. *)
LEMMA Gains ==
  ASSUME TypeOK, Balance' >= Balance, Balance' \in Nat, UNCHANGED <<supply, shares>>
  PROVE  \E a \in Nat : VN!Gain(a)
<1>1. Balance' - Balance \in Nat /\ Balance' = Balance + (Balance' - Balance)
  BY BalanceNat
<1> QED BY <1>1 DEF VN!Gain

LEMMA DonateGains ==
  ASSUME TypeOK, NEW u \in Users,
         NEW h \in {Sett, Controller} \cup ({strategy} \ {NoStrategy}), NEW n \in Amounts,
         Donate(u, h, n)
  PROVE  Balance' >= Balance /\ Balance' \in Nat /\ UNCHANGED <<supply, shares>>
<1>1. /\ n \in Nat /\ strategy' = strategy /\ staked' = staked /\ UNCHANGED <<supply, shares>>
      /\ want' = [want EXCEPT ![u] = @ - n, ![h] = @ + n]
  BY HolderFacts, SettAssumption DEF Donate, Move, claims, config, Contract, TypeOK
<1>2. \A x \in Holders : x \notin Users => want'[x] = want[x] \/ want'[x] = want[x] + n
  BY <1>1, HolderFacts DEF TypeOK
<1>3. want[Sett] \in Nat /\ Sett \in Holders /\ Sett \notin Users
  BY HolderFacts DEF TypeOK, Contract
<1>4. CASE strategy = NoStrategy
  <2>1. Balance = want[Sett] + 0 /\ Balance' = want'[Sett] + 0
    BY <1>1, <1>4 DEF Balance
  <2>2. want'[Sett] = want[Sett] \/ want'[Sett] = want[Sett] + n
    BY <1>2, <1>3
  <2> QED BY <1>1, <1>3, <2>1, <2>2
<1>5. CASE strategy \in Strategies
  <2>1. want'[strategy] = want[strategy] \/ want'[strategy] = want[strategy] + n
    <3>1. strategy \in Holders /\ strategy \notin Users
      BY <1>5, HolderFacts
    <3> QED BY <1>2, <3>1
  <2>2. want'[Sett] = want[Sett] \/ want'[Sett] = want[Sett] + n
    BY <1>2, <1>3
  <2>3. /\ want[Sett] \in Nat /\ want[strategy] \in Nat /\ staked[strategy] \in Nat
        /\ Balance = want[Sett] + (want[strategy] + staked[strategy])
        /\ Balance' = want'[Sett] + (want'[strategy] + staked'[strategy])
        /\ staked'[strategy] = staked[strategy]
    BY <1>1, <1>5, BalanceIs
  <2> QED BY <1>1, <2>1, <2>2, <2>3
<1> QED BY <1>4, <1>5 DEF TypeOK

LEMMA DepositToStrategyGains ==
  ASSUME TypeOK, strategy \in Strategies, strategy' = strategy,
         NEW f \in Holders, NEW n \in Nat, DepositToStrategy(f, strategy, n),
         f \notin Strategies
  PROVE  Balance' >= Balance /\ Balance' \in Nat
<1>1. /\ want'[strategy] = 0 /\ staked'[strategy] = staked[strategy] + want[strategy] + n
      /\ want'[Sett] = IF f = Sett THEN want[Sett] - n ELSE want[Sett]
      /\ n <= want[f]
  BY HolderFacts DEF DepositToStrategy, TypeOK, Contract
<1> QED BY <1>1, BalanceIs

LEMMA KeeperGains ==
  ASSUME TypeOK, NothingStranded, KeeperStep
  PROVE  Balance' >= Balance /\ Balance' \in Nat /\ UNCHANGED <<supply, shares>>
<1> USE DEF config, claims
<1>1. CASE Earn
  <2>1. /\ strategy \in Strategies /\ Available \in Nat /\ strategy' = strategy
        /\ Sett \in Holders /\ Sett \notin Strategies
    BY <1>1, BalanceNat, HolderFacts DEF Earn, TypeOK, Contract
  <2> QED BY <1>1, <2>1, DepositToStrategyGains DEF Earn
<1>2. CASE \E n \in Amounts : ControllerEarn(n)
  <2>1. PICK n \in Amounts : ControllerEarn(n)
    BY <1>2
  <2>2. /\ strategy \in Strategies /\ n \in Nat /\ strategy' = strategy
        /\ Controller \in Holders /\ Controller \notin Strategies
    BY <2>1, SettAssumption, HolderFacts DEF ControllerEarn, TypeOK, Contract
  <2> QED BY <2>1, <2>2, DepositToStrategyGains DEF ControllerEarn
<1> DEFINE Restaked(s) ==
      /\ want' = [want EXCEPT ![s] = 0]
      /\ \E e \in Nat : /\ staked' = [staked EXCEPT ![s] = @ + want[s] + e]
                         /\ e <= earned[s]
      /\ UNCHANGED <<supply, shares, strategy>>
<1>3. ASSUME NEW s \in Strategies, Restaked(s)
      PROVE  Balance' >= Balance /\ Balance' \in Nat /\ UNCHANGED <<supply, shares>>
  <2>1. PICK e \in Nat : staked' = [staked EXCEPT ![s] = @ + want[s] + e] /\ e <= earned[s]
    BY <1>3
  <2>2. s \in Holders /\ s # Sett /\ want[s] \in Nat /\ earned[s] \in Nat
    BY HolderFacts DEF TypeOK, Contract
  <2>3. want'[Sett] = want[Sett]
    BY <1>3, <2>2, HolderFacts DEF TypeOK
  <2>4. CASE strategy = NoStrategy
    BY <1>3, <2>3, <2>4, BalanceNat DEF Balance
  <2>5. CASE strategy = s
    <3>1. want'[s] = 0 /\ staked'[s] = staked[s] + want[s] + e
      BY <1>3, <2>1, <2>2 DEF TypeOK
    <3> QED BY <1>3, <2>3, <2>5, <3>1, BalanceIs
  <2>6. CASE strategy \in Strategies /\ strategy # s
    <3>1. want'[strategy] = want[strategy] /\ staked'[strategy] = staked[strategy]
      BY <1>3, <2>1, <2>2, <2>6, HolderFacts DEF TypeOK
    <3> QED BY <1>3, <2>3, <2>6, <3>1, BalanceIs
  <2> QED BY <2>4, <2>5, <2>6, <1>3 DEF TypeOK
<1>4. CASE \E s \in Strategies : StrategyDeposit(s)
  <2>1. PICK s \in Strategies : StrategyDeposit(s)
    BY <1>4
  <2>2. /\ want' = [want EXCEPT ![s] = 0] /\ staked' = [staked EXCEPT ![s] = @ + want[s] + 0]
        /\ UNCHANGED <<supply, shares, strategy>>
    BY <2>1, HolderFacts DEF StrategyDeposit, DepositToStrategy, TypeOK
  <2>3. 0 <= earned[s]
    BY DEF TypeOK
  <2>4. Restaked(s)
    BY <2>2, <2>3
  <2> QED BY <2>4, <1>3
<1>5. CASE \E s \in Strategies : Harvest(s)
  <2>1. PICK s \in Strategies : Harvest(s)
    BY <1>5
  <2>2. earned[s] \in Nat
    BY DEF TypeOK
  <2>3. /\ want' = [want EXCEPT ![s] = 0] /\ UNCHANGED <<supply, shares, strategy>>
        /\ staked' = [staked EXCEPT ![s] = @ + want[s] + earned[s]]
    BY <2>1 DEF Harvest
  <2>4. \E e \in Nat : staked' = [staked EXCEPT ![s] = @ + want[s] + e] /\ e <= earned[s]
    <3>1. earned[s] <= earned[s]
      BY <2>2
    <3> QED BY <2>2, <2>3, <3>1
  <2>5. Restaked(s)
    BY <2>3, <2>4
  <2> QED BY <2>5, <1>3
<1>6. CASE \E s \in Strategies : Accrue(s)
  BY <1>6, BalanceNat DEF Accrue, Balance, StrategyBalance
<1> QED BY <1>1, <1>2, <1>4, <1>5, <1>6 DEF KeeperStep

(* A full exit that loses nothing brings all of the strategy's want, and its *)
(* rewards, back to the Sett.                                                *)
LEMMA ExitReturns ==
  ASSUME TypeOK, strategy \in Strategies, Exit(strategy, 0)
  PROVE  want'[Sett] \in Nat /\ want'[Sett] >= Balance
<1>1. earned[strategy] \in Nat
  BY DEF TypeOK
<1>2. want'[Sett] = want[Sett] + want[strategy] + staked[strategy] - 0 + earned[strategy]
  BY HolderFacts DEF Exit, TypeOK, Contract
<1>3. /\ want[Sett] \in Nat /\ want[strategy] \in Nat /\ staked[strategy] \in Nat
      /\ Balance = want[Sett] + (want[strategy] + staked[strategy])
  BY HolderFacts, SettAssumption DEF TypeOK, Balance, StrategyBalance
<1> QED BY <1>1, <1>2, <1>3

LEMMA ControllerGains ==
  ASSUME FullSlip = 0, TypeOK, NothingStranded, ControllerStep
  PROVE  Balance' >= Balance /\ Balance' \in Nat /\ UNCHANGED <<supply, shares>>
<1> USE DEF claims
<1>1. CASE SetVault \/ (\E s \in Strategies : ApproveStrategy(s)) \/ (\E s \in Strategies : RevokeStrategy(s))
  BY <1>1, BalanceNat DEF SetVault, ApproveStrategy, RevokeStrategy, funds, Balance, StrategyBalance
<1>2. CASE \E s \in Strategies, slip \in 0..FullSlip : SetStrategy(s, slip)
  <2>1. PICK s \in Strategies : SetStrategy(s, 0)
    <3>1. \A slip \in 0..FullSlip : slip = 0
      OBVIOUS
    <3> QED BY <1>2, <3>1
  <2>2. strategy' = s /\ s # NoStrategy /\ UNCHANGED <<supply, shares>>
    BY <2>1, SettAssumption DEF SetStrategy
  <2>3. CASE strategy = NoStrategy
    <3>1. want[s] = 0 /\ staked[s] = 0
      BY <2>2, <2>3, HolderFacts DEF NothingStranded, StrategyBalance, TypeOK
    <3>2. UNCHANGED <<want, staked>>
      BY <2>1, <2>3 DEF SetStrategy, funds
    <3> QED BY <2>2, <2>3, <3>1, <3>2, BalanceNat DEF Balance, StrategyBalance
  <2>4. CASE strategy # NoStrategy
    <3>1. strategy \in Strategies /\ Exit(strategy, 0)
      BY <2>1, <2>4 DEF SetStrategy, TypeOK
    <3>2. want'[s] = 0 /\ staked'[s] = 0
      BY <3>1, ExitStrands
    <3>3. Balance' = want'[Sett] + 0
      BY <2>2, <3>2 DEF Balance, StrategyBalance
    <3> QED BY <2>2, <3>1, <3>3, ExitReturns
  <2> QED BY <2>3, <2>4
<1>3. CASE \E slip \in 0..FullSlip : WithdrawAllToVault(slip)
  <2>1. WithdrawAllToVault(0)
    <3>1. \A slip \in 0..FullSlip : slip = 0
      OBVIOUS
    <3> QED BY <1>3, <3>1
  <2>2. strategy \in Strategies /\ strategy' = strategy /\ Exit(strategy, 0) /\ UNCHANGED <<supply, shares>>
    BY <2>1 DEF WithdrawAllToVault, TypeOK, config
  <2>3. want'[strategy] = 0 /\ staked'[strategy] = 0
    BY <2>2, ExitStrands
  <2>4. want'[Sett] \in Nat /\ want'[Sett] >= Balance
    BY <2>2, ExitReturns
  <2>5. Balance' = want'[Sett] + (want'[strategy] + staked'[strategy])
    BY <2>2, BalanceIs
  <2>6. Balance' = want'[Sett]
    BY <2>3, <2>4, <2>5
  <2> QED BY <2>2, <2>4, <2>6
<1>4. CASE \E n \in Amounts : RescueFromController(n)
  <2>1. /\ want'[Sett] = want[Sett] /\ UNCHANGED <<staked, strategy, supply, shares>>
        /\ \A s \in Strategies : want'[s] = want[s]
    BY <1>4, HolderFacts DEF RescueFromController, Move, TypeOK, config, Contract
  <2> QED BY <2>1, BalanceNat DEF Balance, StrategyBalance, TypeOK
<1> QED BY <1>1, <1>2, <1>3, <1>4 DEF ControllerStep

(* Every step of the Sett is a step of the pro-rata vault or leaves it alone. *)
LEMMA StepMaps ==
  ASSUME FullSlip = 0, TypeOK, NothingStranded, [Next]_vars
  PROVE  [VN!Next]_(VN!vars)
<1>1. CASE \E u, r \in Users, a \in Amounts : DepositFor(u, r, a)
  BY <1>1, DepositIsMint, SettAssumption DEF VN!Next
<1>2. CASE \E u \in Users, n \in Amounts : WithdrawIdle(u, n)
  BY <1>2, WithdrawIdleIsRedeem, SettAssumption DEF VN!Next
<1>3. CASE \E u \in Users, n \in Amounts, slip \in 0..PartialSlip : WithdrawUnrolling(u, n, slip)
  BY <1>3, WithdrawUnrollingIsRedeem, SettAssumption DEF VN!Next
<1>4. CASE \E c, f, t \in Users, n \in Amounts : Transfer(c, f, t, n)
  BY <1>4, TransferIsTransfer DEF VN!Next
<1>5. CASE \E u \in Users, h \in {Sett, Controller} \cup ({strategy} \ {NoStrategy}), n \in Amounts :
              Donate(u, h, n)
  BY <1>5, DonateGains, Gains DEF VN!Next
<1>6. CASE KeeperStep
  BY <1>6, KeeperGains, Gains DEF VN!Next
<1>7. CASE ControllerStep
  BY <1>7, ControllerGains, Gains DEF VN!Next
<1>8. CASE ConfigStep \/ NextBlock \/ UNCHANGED vars
  BY <1>8, ConfigKeeps DEF vars, config, VN!vars, Balance, StrategyBalance
<1> QED BY <1>1, <1>2, <1>3, <1>4, <1>5, <1>6, <1>7, <1>8 DEF Next, UserStep

LEMMA InitMaps == Init => VN!Init
BY HolderFacts, SettAssumption DEF Init, VN!Init, Balance, Contract

(* The Sett, Controller and strategies together implement the pro-rata      *)
(* vault, whatever order accounts, keepers and the strategist act in, if     *)
(* the positions can be exited in full without a loss.                       *)
THEOREM SettImplementsShareVault ==
  ASSUME FullSlip = 0
  PROVE  Spec => VN!Spec
<1>1. TypeOK /\ NothingStranded /\ [Next]_vars => [VN!Next]_(VN!vars)
  BY StepMaps
<1> QED BY <1>1, InitMaps, TypeCorrect, NeverStranded, PTL DEF Spec, VN!Spec

(* Every Sett share is backed by at least one want, in every reachable state. *)
THEOREM SharesAlwaysBacked ==
  ASSUME FullSlip = 0
  PROVE  Spec => []SharesBacked
<1>1. Spec => [](VN!TypeOK /\ VN!Backed)
  BY SettImplementsShareVault, AlwaysBacked
<1>2. VN!Backed => SharesBacked
  BY DEF VN!Backed, SharesBacked
<1> QED BY <1>1, <1>2, PTL

(* No transaction lowers the price per full share.                           *)
THEOREM PriceKeptBySett ==
  ASSUME FullSlip = 0
  PROVE  Spec => PricePerShareNeverFalls
<1>1. VN!TypeOK /\ VN!Backed /\ [VN!Next]_(VN!vars)
        => ((supply > 0 /\ supply' > 0) => Balance' * supply >= Balance * supply')
  BY StepKeeps
<1>2. Spec => [](VN!TypeOK /\ VN!Backed)
  BY SettImplementsShareVault, AlwaysBacked
<1>3. TypeOK /\ NothingStranded /\ [Next]_vars => [VN!Next]_(VN!vars)
  BY StepMaps
<1> QED BY <1>1, <1>2, <1>3, TypeCorrect, NeverStranded, PTL DEF Spec, PricePerShareNeverFalls

-----------------------------------------------------------------------------
(* Whoever holds shares can redeem them: the shares of all accounts add up   *)
(* to the total supply, so that no account holds more than the supply.       *)

Held == SumFunctionOnSet(shares, Users)

SupplyIsHeld == supply = Held

LEMMA SharesSum ==
  ASSUME TypeOK
  PROVE  IsFiniteSet(Users) /\ \A u \in Users : shares[u] \in Int /\ shares[u] >= 0
BY SettAssumption DEF TypeOK

(* n shares more, or fewer when n is negative, for one account. *)
LEMMA HeldChanges ==
  ASSUME TypeOK, TypeOK', NEW u \in Users, NEW n \in Int,
         shares'[u] = shares[u] + n, \A x \in Users \ {u} : shares'[x] = shares[x]
  PROVE  Held' = Held + n
<1>1. shares \in [Users -> Int] /\ shares' \in [Users -> Int] /\ IsFiniteSet(Users)
  BY SettAssumption DEF TypeOK
<1>2. SumFunctionOnSet(shares', Users) = SumFunctionOnSet(shares, Users) + n
  <2>. DEFINE f == shares
              g == shares'
  <2>1. f \in [Users -> Int] /\ g \in [Users -> Int] /\ IsFiniteSet(Users)
        /\ g[u] = f[u] + n /\ \A x \in Users \ {u} : g[x] = f[x]
    BY <1>1
  <2>. HIDE DEF f, g
  <2>2. SumFunctionOnSet(g, Users) = SumFunctionOnSet(f, Users) + n
    BY <2>1, SumAdded
  <2>. QED
    BY <2>2 DEF f, g
<1>. QED
  BY <1>2 DEF Held

(* Shares that change hands are as many as before. *)
LEMMA HeldMoves ==
  ASSUME TypeOK, TypeOK', NEW f \in Users, NEW t \in Users, NEW n \in Int, f # t,
         shares' = [shares EXCEPT ![f] = @ - n, ![t] = @ + n]
  PROVE  Held' = Held
<1>. DEFINE a == shares
            m == [shares EXCEPT ![f] = @ - n]
            b == shares'
<1>1. IsFiniteSet(Users) /\ a \in [Users -> Int] /\ m \in [Users -> Int] /\ b \in [Users -> Int]
  BY SettAssumption DEF TypeOK
<1>2. m[f] = a[f] + (0 - n) /\ \A x \in Users \ {f} : m[x] = a[x]
  BY <1>1
<1>3. b[t] = m[t] + n /\ \A x \in Users \ {t} : b[x] = m[x]
  BY <1>1
<1>. HIDE DEF a, m, b
<1>4. SumFunctionOnSet(m, Users) = SumFunctionOnSet(a, Users) + (0 - n)
  BY <1>1, <1>2, SumAdded
<1>5. SumFunctionOnSet(b, Users) = SumFunctionOnSet(m, Users) + n
  BY <1>1, <1>3, SumAdded
<1>6. SumFunctionOnSet(a, Users) \in Int
  BY <1>1, SumType
<1>7. SumFunctionOnSet(b, Users) = SumFunctionOnSet(a, Users)
  BY <1>4, <1>5, <1>6
<1>. QED
  BY <1>7 DEF Held, a, b

LEMMA SupplyStep == TypeOK /\ TypeOK' /\ SupplyIsHeld /\ [Next]_vars => SupplyIsHeld'
<1>. SUFFICES ASSUME TypeOK, TypeOK', SupplyIsHeld, [Next]_vars PROVE SupplyIsHeld'
  OBVIOUS
<1>0. Held \in Int
  BY SharesSum, SumType DEF Held
<1>1. CASE \E u, r \in Users, a \in Amounts : DepositFor(u, r, a)
  <2>1. PICK u \in Users, r \in Users, a \in Amounts : DepositFor(u, r, a)
    BY <1>1
  <2>2. SharesFor(a) \in Int /\ supply' = supply + SharesFor(a)
        /\ shares'[r] = shares[r] + SharesFor(a)
        /\ \A x \in Users \ {r} : shares'[x] = shares[x]
    BY <2>1, SettAssumption, SharesForBounds DEF DepositFor, TypeOK
  <2>3. Held' = Held + SharesFor(a)
    BY <2>2, HeldChanges
  <2>. QED
    BY <2>2, <2>3 DEF SupplyIsHeld
<1>2. ASSUME NEW u \in Users, NEW n \in Amounts, Burn(u, n) PROVE SupplyIsHeld'
  <2>1. n \in Nat /\ supply \in Nat /\ shares \in [Users -> Nat]
    BY SettAssumption DEF TypeOK
  <2>2. supply' = supply - n /\ shares'[u] = shares[u] - n
        /\ \A x \in Users \ {u} : shares'[x] = shares[x]
    BY <1>2, <2>1 DEF Burn
  <2>3. 0 - n \in Int /\ supply' = supply + (0 - n) /\ shares'[u] = shares[u] + (0 - n)
    BY <2>1, <2>2
  <2>4. Held' = Held + (0 - n)
    BY <2>2, <2>3, HeldChanges
  <2>. QED
    BY <2>3, <2>4 DEF SupplyIsHeld
<1>3. CASE \/ \E u \in Users, n \in Amounts : WithdrawIdle(u, n)
           \/ \E u \in Users, n \in Amounts, slip \in 0..PartialSlip : WithdrawUnrolling(u, n, slip)
  BY <1>2, <1>3 DEF WithdrawIdle, WithdrawUnrolling
<1>4. CASE \E c, f, t \in Users, n \in Amounts : Transfer(c, f, t, n)
  <2>1. PICK c \in Users, f \in Users, t \in Users, n \in Amounts : Transfer(c, f, t, n)
    BY <1>4
  <2>2. n \in Int /\ supply' = supply
    BY <2>1, SettAssumption DEF Transfer
  <2>3. Held' = Held
    <3>1. CASE f = t
      BY <2>1, <3>1 DEF Transfer, Held
    <3>2. CASE f # t
      <4>1. shares' = [shares EXCEPT ![f] = @ - n, ![t] = @ + n]
        BY <2>1, <3>2 DEF Transfer
      <4>. QED
        BY <2>2, <3>2, <4>1, HeldMoves
    <3>. QED
      BY <3>1, <3>2
  <2>. QED
    BY <2>2, <2>3 DEF SupplyIsHeld
<1>5. ASSUME UNCHANGED <<shares, supply>> PROVE SupplyIsHeld'
  BY <1>5 DEF SupplyIsHeld, Held
<1>6. CASE \E u \in Users, h \in {Sett, Controller} \cup ({strategy} \ {NoStrategy}), n \in Amounts :
              Donate(u, h, n)
  BY <1>5, <1>6 DEF Donate, claims
<1>7. CASE KeeperStep
  BY <1>5, <1>7 DEF KeeperStep, Earn, ControllerEarn, StrategyDeposit, Harvest, Accrue, claims
<1>8. CASE ControllerStep
  BY <1>5, <1>8 DEF ControllerStep, SetVault, ApproveStrategy, RevokeStrategy, SetStrategy,
                    WithdrawAllToVault, RescueFromController, claims
<1>9. CASE ConfigStep \/ NextBlock
  BY <1>5, <1>9, ConfigKeeps
<1>10. CASE UNCHANGED vars
  BY <1>5, <1>10 DEF vars
<1>. QED
  BY <1>1, <1>3, <1>4, <1>6, <1>7, <1>8, <1>9, <1>10 DEF Next, UserStep

(* Shares are only ever minted, burnt and moved: totalSupply is their sum.   *)
THEOREM SupplyAlwaysHeld == Spec => []SupplyIsHeld
<1>1. Init => SupplyIsHeld
  <2>. SUFFICES ASSUME Init PROVE supply = Held
    BY DEF SupplyIsHeld
  <2>1. IsFiniteSet(Users) /\ supply = 0 /\ \A u \in Users : shares[u] = 0
    BY SettAssumption DEF Init
  <2>. QED
    BY <2>1, SumOfZeros DEF Held
<1>. QED
  BY <1>1, SupplyStep, TypeCorrect, PTL DEF Spec

LEMMA RatesNat ==
  ASSUME TypeOK, strategy \in Strategies
  PROVE  /\ withdrawalFee[strategy] \in Nat /\ threshold[strategy] \in Nat
         /\ MaxFee \in Nat /\ MaxFee > 0
<1>1. withdrawalFee[strategy] \in Fees /\ threshold[strategy] \in Thresholds
  BY DEF TypeOK
<1>2. Fees \subseteq 0..MaxFee /\ Thresholds \subseteq 0..MaxFee /\ MaxFee \in Nat \ {0}
  BY SettAssumption
<1>3. withdrawalFee[strategy] \in 0..MaxFee /\ threshold[strategy] \in 0..MaxFee
  BY <1>1, <1>2, Zenon
<1>. QED
  BY <1>2, <1>3

(* With nothing paused, no division, subtraction or missing stake on the way *)
(* through Sett, Controller and strategy can stop a holder from redeeming:   *)
(* shares that add up to the supply are worth no more than the pot, and the  *)
(* pot is where the strategy looks for it.                                   *)
THEOREM AlwaysRedeemable == Spec => []Redeemable
<1>1. TypeOK /\ SupplyIsHeld => Redeemable
  <2>. SUFFICES ASSUME TypeOK, SupplyIsHeld, vaultSet, strategy \in Strategies,
                       strategy \notin stratPaused, NEW u \in Users, NEW n \in 1..shares[u]
                PROVE  /\ n <= supply
                       /\ \/ ProRata(n) <= want[Sett]
                          \/ StrategyWithdrawGuard(ProRata(n) - want[Sett], 0)
    BY DEF Redeemable
  <2>1. n \in Nat /\ n > 0 /\ n <= shares[u] /\ shares[u] \in Nat /\ supply \in Nat
    BY DEF TypeOK
  <2>2. shares[u] <= supply
    <3>1. IsFiniteSet(Users \ {u}) /\ \A x \in Users \ {u} : shares[x] \in Int /\ shares[x] >= 0
      BY SharesSum, FS_RemoveElement
    <3>2. SumFunctionOnSet(shares, Users \ {u}) \in Int
          /\ SumFunctionOnSet(shares, Users \ {u}) >= 0
      BY <3>1, SumType
    <3>3. Held = shares[u] + SumFunctionOnSet(shares, Users \ {u})
      BY SharesSum, SumWithout DEF Held
    <3>. QED
      BY <2>1, <3>2, <3>3 DEF SupplyIsHeld
  <2>3. n <= supply /\ supply > 0
    BY <2>1, <2>2
  <2>4. ProRata(n) \in Nat /\ ProRata(n) * supply <= n * Balance
    BY <2>1, <2>3, ProRataBounds
  <2>5. ProRata(n) <= Balance
    BY <2>1, <2>3, <2>4, BalanceNat, RedeemedPart
  <2>6. CASE ProRata(n) > want[Sett]
    <3>. DEFINE amount == ProRata(n) - want[Sett]
    <3>1. /\ want[Sett] \in Nat /\ want[strategy] \in Nat /\ staked[strategy] \in Nat
          /\ Balance = want[Sett] + (want[strategy] + staked[strategy])
      BY HolderFacts, SettAssumption DEF TypeOK, Balance, StrategyBalance
    <3>2. amount \in Nat /\ amount <= want[strategy] + staked[strategy]
      BY <2>4, <2>5, <2>6, <3>1
    <3>3. threshold[strategy] \in Nat /\ MaxFee \in Nat /\ MaxFee > 0
      BY RatesNat
    <3>4. (amount * threshold[strategy]) \div MaxFee \in Nat
      BY <3>2, <3>3, MulNat, FloorBounds
    <3>. HIDE DEF amount
    <3>5. /\ Unstaked(amount) \in Nat /\ Unstaked(amount) <= staked[strategy]
          /\ Recovered(amount, 0) = amount
      BY <3>1, <3>2 DEF Unstaked, Recovered
    <3>6. amount - Recovered(amount, 0) = 0
      BY <3>2, <3>5
    <3>7. StrategyWithdrawGuard(amount, 0)
      BY <3>4, <3>5, <3>6 DEF StrategyWithdrawGuard
    <3>. QED
      BY <2>3, <3>7 DEF amount
  <2>7. CASE ProRata(n) <= want[Sett]
    BY <2>3, <2>7
  <2>8. want[Sett] \in Nat
    BY BalanceNat
  <2>. QED
    BY <2>3, <2>4, <2>6, <2>7, <2>8
<1>. QED
  BY <1>1, TypeCorrect, SupplyAlwaysHeld, PTL

-----------------------------------------------------------------------------
(* What a redemption pays *)

(* The account, the payout, the fee and the shortfall of one redemption of   *)
(* what due is the pro-rata part of.                                         *)
PaysOut(u) ==
  LET due  == ProRata(shares[u] - shares'[u])
      paid == want'[u] - want[u]
      fee  == want'[Rewards] - want[Rewards]
  IN  /\ paid >= 0 /\ fee >= 0
      /\ paid + fee <= due
      /\ fee * MaxFee <= due * withdrawalFee[strategy]
      /\ (due - paid - fee) * MaxFee <= due * threshold[strategy]

LEMMA BurnIsSeen ==
  ASSUME TypeOK, NEW u \in Users, NEW n \in Nat, Burn(u, n)
  PROVE  /\ shares[u] - shares'[u] = n
         /\ \A x \in Users : shares'[x] < shares[x] => x = u
BY DEF Burn, TypeOK

LEMMA IdlePaysOut ==
  ASSUME TypeOK, NEW u \in Users, NEW n \in Amounts, WithdrawIdle(u, n)
  PROVE  PaysOut(u) /\ \A x \in Users : shares'[x] < shares[x] => x = u
<1>1. n \in Nat /\ ProRata(n) \in Nat /\ strategy \in Strategies
  BY SettAssumption, ProRataBounds DEF WithdrawIdle, WithdrawGuard, TypeOK
<1>2. /\ shares[u] - shares'[u] = n
      /\ \A x \in Users : shares'[x] < shares[x] => x = u
  BY <1>1, BurnIsSeen DEF WithdrawIdle
<1>3. want[u] \in Nat /\ want[Rewards] \in Nat
  BY HolderFacts DEF TypeOK
<1>4. want'[u] = want[u] + ProRata(n) /\ want'[Rewards] = want[Rewards]
  BY <1>1, HolderFacts DEF WithdrawIdle, Move, TypeOK, Contract
<1>5. /\ ProRata(n) * withdrawalFee[strategy] \in Nat
      /\ ProRata(n) * threshold[strategy] \in Nat
      /\ MaxFee \in Nat
  BY <1>1, RatesNat, MulNat
<1>6. want'[u] - want[u] = ProRata(n) /\ want'[Rewards] - want[Rewards] = 0
  BY <1>1, <1>3, <1>4
<1>. QED
  BY <1>1, <1>2, <1>5, <1>6 DEF PaysOut

LEMMA UnrollingPaysOut ==
  ASSUME TypeOK, NEW u \in Users, NEW n \in Amounts, NEW slip \in 0..PartialSlip,
         WithdrawUnrolling(u, n, slip)
  PROVE  PaysOut(u) /\ \A x \in Users : shares'[x] < shares[x] => x = u
<1>. DEFINE amount == ProRata(n) - want[Sett]
            sent    == Recovered(amount, slip)
            fee    == FeeOn(sent)
            rate   == withdrawalFee[strategy]
            most   == threshold[strategy]
            due    == ProRata(n)
<1>1. n \in Nat /\ slip \in Nat /\ due \in Nat /\ strategy \in Strategies
  BY SettAssumption, ProRataBounds DEF WithdrawUnrolling, WithdrawGuard, TypeOK
<1>2. amount \in Nat /\ StrategyWithdrawGuard(amount, slip)
  BY <1>1, BalanceNat DEF WithdrawUnrolling
<1>3. sent \in Nat /\ sent <= amount /\ fee \in Nat /\ fee <= sent
  BY <1>1, <1>2, UnrollBounds
<1>4. /\ shares[u] - shares'[u] = n
      /\ \A x \in Users : shares'[x] < shares[x] => x = u
  BY <1>1, BurnIsSeen DEF WithdrawUnrolling
<1>5. want[u] \in Nat /\ want[Rewards] \in Nat /\ want[Sett] \in Nat
  BY HolderFacts DEF TypeOK
<1>6. want' = [want EXCEPT ![strategy] = @ + Unstaked(amount) - slip - sent,
                           ![Rewards]  = @ + fee,
                           ![Sett]     = 0,
                           ![u]        = @ + want[Sett] + sent - fee]
  BY DEF WithdrawUnrolling
<1>7. rate \in Nat /\ most \in Nat /\ MaxFee \in Nat /\ MaxFee > 0
  BY <1>1, RatesNat
<1>8. fee * MaxFee <= due * rate
  <2>1. sent * rate \in Nat /\ due * rate \in Nat
    BY <1>1, <1>3, <1>7, MulNat
  <2>2. fee * MaxFee <= sent * rate
    BY <1>7, <2>1, FloorBounds DEF FeeOn
  <2>3. sent <= due
    BY <1>1, <1>3, <1>5
  <2>4. sent * rate <= due * rate
    BY <1>1, <1>3, <1>7, <2>3, MulMono
  <2>5. fee * MaxFee \in Nat
    BY <1>3, <1>7, MulNat
  <2>. QED
    BY <2>1, <2>2, <2>4, <2>5
<1>9. (amount - sent) * MaxFee <= due * most
  <2>. DEFINE q == (amount * most) \div MaxFee
  <2>1. amount * most \in Nat /\ due * most \in Nat
    BY <1>1, <1>2, <1>7, MulNat
  <2>2. q \in Nat /\ q * MaxFee <= amount * most
    BY <1>7, <2>1, FloorBounds
  <2>3. amount - sent <= q
    BY <1>2 DEF StrategyWithdrawGuard
  <2>. HIDE DEF q
  <2>4. (amount - sent) * MaxFee <= q * MaxFee
    BY <1>2, <1>3, <1>7, <2>2, <2>3, MulMono
  <2>5. amount <= due
    BY <1>1, <1>5
  <2>6. amount * most <= due * most
    BY <1>1, <1>2, <1>7, <2>5, MulMono
  <2>7. (amount - sent) * MaxFee \in Int /\ q * MaxFee \in Int
    BY <1>2, <1>3, <1>7, <2>2
  <2>. QED
    BY <2>1, <2>2, <2>4, <2>6, <2>7
<1>10. due = want[Sett] + amount
  BY <1>1, <1>5
<1>. HIDE DEF amount, sent, fee, rate, most, due
<1>11. want'[u] = want[u] + want[Sett] + sent - fee /\ want'[Rewards] = want[Rewards] + fee
  BY <1>1, <1>6, HolderFacts DEF TypeOK, Contract
<1>12. want'[u] - want[u] = want[Sett] + sent - fee /\ want'[Rewards] - want[Rewards] = fee
  BY <1>3, <1>5, <1>11
<1>13. due - (want[Sett] + sent - fee) - fee = amount - sent
  BY <1>1, <1>2, <1>3, <1>5, <1>10
<1>14. want[Sett] + sent - fee >= 0 /\ fee >= 0 /\ (want[Sett] + sent - fee) + fee <= due
  BY <1>1, <1>2, <1>3, <1>5, <1>10
<1>15. ProRata(shares[u] - shares'[u]) = due
  BY <1>4 DEF due
<1>16. PaysOut(u)
  BY <1>8, <1>9, <1>12, <1>13, <1>14, <1>15 DEF PaysOut, rate, most
<1>. QED
  BY <1>4, <1>16

(* Only a withdrawal lowers the supply. *)
LEMMA OnlyWithdrawalsBurn ==
  ASSUME TypeOK, [Next]_vars, supply' < supply
  PROVE  \/ \E u \in Users, n \in Amounts : WithdrawIdle(u, n)
         \/ \E u \in Users, n \in Amounts, slip \in 0..PartialSlip : WithdrawUnrolling(u, n, slip)
<1>0. supply \in Nat
  BY DEF TypeOK
<1>1. supply' # supply
  BY <1>0
<1>2. ~ \E u, r \in Users, a \in Amounts : DepositFor(u, r, a)
  <2>1. \A a \in Amounts : (supply > 0 => Balance > 0) => SharesFor(a) \in Nat
    BY SettAssumption, SharesForBounds
  <2>. QED
    BY <1>0, <2>1 DEF DepositFor
<1>3. ~ \E c, f, t \in Users, n \in Amounts : Transfer(c, f, t, n)
  BY <1>1 DEF Transfer
<1>4. ~ \E u \in Users, h \in {Sett, Controller} \cup ({strategy} \ {NoStrategy}), n \in Amounts :
           Donate(u, h, n)
  BY <1>1 DEF Donate, claims
<1>5. ~KeeperStep
  BY <1>1 DEF KeeperStep, Earn, ControllerEarn, StrategyDeposit, Harvest, Accrue, claims
<1>6. ~ControllerStep
  BY <1>1 DEF ControllerStep, SetVault, ApproveStrategy, RevokeStrategy, SetStrategy,
              WithdrawAllToVault, RescueFromController, claims
<1>7. ~(ConfigStep \/ NextBlock)
  BY <1>1, ConfigKeeps
<1>8. ~UNCHANGED vars
  BY <1>1 DEF vars
<1>. QED
  BY <1>2, <1>3, <1>4, <1>5, <1>6, <1>7, <1>8 DEF Next, UserStep

(* A redemption pays no more than the pro-rata part of the pot; what is      *)
(* kept back is at most the withdrawal fee and a shortfall of the position   *)
(* within the threshold, however the want is spread over Sett and strategy.  *)
THEOREM AlwaysPaysProRata == Spec => PayoutIsProRata
<1>1. TypeOK /\ [Next]_vars =>
        \A u \in Users : (shares'[u] < shares[u] /\ supply' < supply) => PaysOut(u)
  <2>. SUFFICES ASSUME TypeOK, [Next]_vars, NEW u \in Users,
                       shares'[u] < shares[u], supply' < supply
                PROVE  PaysOut(u)
    OBVIOUS
  <2>1. CASE \E v \in Users, n \in Amounts : WithdrawIdle(v, n)
    BY <2>1, IdlePaysOut
  <2>2. CASE \E v \in Users, n \in Amounts, slip \in 0..PartialSlip : WithdrawUnrolling(v, n, slip)
    BY <2>2, UnrollingPaysOut
  <2>. QED
    BY <2>1, <2>2, OnlyWithdrawalsBurn
<1>. QED
  BY <1>1, TypeCorrect, PTL DEF Spec, PayoutIsProRata, PaysOut

-----------------------------------------------------------------------------
(* The simulation of a Sett whose strategy is of any kind *)

(* The amounts of reward tokens; a strategy's kind and price never change.   *)
FarmOK ==
  /\ kind \in AllKinds
  /\ price \in Nat \ {0}
  /\ pending \in Nat
  /\ idle \in [Tokens -> Nat]
  /\ parked \in [Tokens -> Nat]
  /\ got \in [Tokens -> [Payees -> Nat]]

LEMMA FarmInitOK == FarmInit => FarmOK
BY FarmAssumption DEF FarmInit, FarmOK, Nothing, Tokens, Payees

(* What a fee of at most MaxFee takes of n *)
LEMMA FeeBounds ==
  ASSUME NEW n \in Nat, NEW rate \in 0..MaxFee
  PROVE  Fee(rate, n) \in Nat /\ Fee(rate, n) * MaxFee <= rate * n /\ Fee(rate, n) <= n
<1>1. MaxFee \in Nat /\ MaxFee > 0 /\ rate \in Nat /\ rate <= MaxFee
  BY SettAssumption
<1>2. n * rate \in Nat /\ n * rate = rate * n
  BY <1>1, MulNat
<1> QED BY <1>1, <1>2, FloorBounds, PartAtMostWhole DEF Fee

LEMMA RatesFit ==
  /\ GovernanceFee \in 0..MaxFee /\ StrategistRate \in 0..MaxFee /\ StrategistFee \in 0..MaxFee
  /\ StrategistRate <= StrategistFee
  /\ KeepRate \in 0..MaxFee /\ CompoundRate \in 0..MaxFee /\ CompoundFee \in 0..MaxFee
  /\ GovernanceFee + StrategistFee <= MaxFee
BY FarmAssumption, SettAssumption DEF StrategistRate

(* Two fees that together are at most the whole leave something. *)
LEMMA TwoFees ==
  ASSUME NEW n \in Nat, NEW f \in 0..MaxFee, NEW h \in 0..MaxFee, f + h <= MaxFee
  PROVE  Fee(f, n) + Fee(h, n) <= n
<1>1. MaxFee \in Nat /\ MaxFee > 0 /\ f \in Nat /\ h \in Nat
  BY SettAssumption
<1>2. n * f \in Nat /\ n * h \in Nat
  BY <1>1, MulNat
<1>3. (n * f) \div MaxFee + (n * h) \div MaxFee <= (n * f + n * h) \div MaxFee
  BY <1>1, <1>2, FloorOfSum
<1>4. n * f + n * h = n * (f + h)
  BY <1>1
<1>5. (n * (f + h)) \div MaxFee \in Nat /\ (n * (f + h)) \div MaxFee <= n
  BY <1>1, PartAtMostWhole
<1>6. Fee(f, n) \in Nat /\ Fee(h, n) \in Nat
  BY FeeBounds
<1> QED BY <1>3, <1>4, <1>5, <1>6 DEF Fee

(* The parts of a distribution are the whole, and neither fee is above its   *)
(* rate.                                                                     *)
LEMMA SharedParts ==
  ASSUME NEW n \in Nat
  PROVE  /\ Shared(n) \in [Payees -> Nat]
         /\ Shared(n)["tree"] + Shared(n)["rewards"] + Shared(n)["strategist"] = n
         /\ Shared(n)["rewards"] = Fee(GovernanceFee, n)
         /\ Shared(n)["strategist"] = Fee(StrategistRate, n)
<1> DEFINE g == Fee(GovernanceFee, n)
           s == Fee(StrategistRate, n)
<1>1. g \in Nat /\ s \in Nat
  BY RatesFit, FeeBounds
<1>2. g + s <= n
  <2>1. GovernanceFee + StrategistRate <= MaxFee
    BY RatesFit, SettAssumption
  <2> QED BY <2>1, RatesFit, TwoFees
<1>3. Shared(n) = [tree |-> n - g - s, rewards |-> g, strategist |-> s]
  BY DEF Shared
<1>4. n - g - s \in Nat
  BY <1>1, <1>2
<1> HIDE DEF g, s
<1>5. Shared(n) \in [Payees -> Nat]
  BY <1>1, <1>3, <1>4 DEF Payees
<1>6. Shared(n)["tree"] = n - g - s /\ Shared(n)["rewards"] = g /\ Shared(n)["strategist"] = s
  BY <1>3
<1> QED BY <1>1, <1>5, <1>6 DEF g, s

LEMMA PaidIs ==
  ASSUME NEW g \in [Tokens -> [Payees -> Nat]], NEW t \in Tokens, NEW parts \in [Payees -> Nat]
  PROVE  /\ Paid(g, t, parts) \in [Tokens -> [Payees -> Nat]]
         /\ \A x \in Tokens \ {t} : Paid(g, t, parts)[x] = g[x]
         /\ \A p \in Payees : Paid(g, t, parts)[t][p] = g[t][p] + parts[p]
BY DEF Paid

LEMMA SharesOfNat ==
  ASSUME FarmOK, NEW n \in Nat
  PROVE  SharesOf(n) \in Nat /\ SharesOf(n) * price <= n /\ n < SharesOf(n) * price + price
<1>1. price \in Nat /\ price > 0
  BY DEF FarmOK
<1> QED BY <1>1, FloorBounds DEF SharesOf

-----------------------------------------------------------------------------
(* Types of the strategy's rewards and of its want *)

LEMMA NothingOK == Nothing \in [Tokens -> Nat] /\ \A t \in Tokens : Nothing[t] = 0
BY DEF Nothing

LEMMA TokenCases == "main" \in Tokens /\ "side" \in Tokens /\ \A t \in Tokens : t = "main" \/ t = "side"
BY DEF Tokens

LEMMA AddIdle ==
  ASSUME NEW f \in [Tokens -> Nat], NEW t \in Tokens, NEW n \in Nat
  PROVE  [f EXCEPT ![t] = @ + n] \in [Tokens -> Nat]
OBVIOUS

LEMMA AddGot ==
  ASSUME NEW g \in [Tokens -> [Payees -> Nat]], NEW t \in Tokens, NEW p \in Payees, NEW n \in Nat
  PROVE  [g EXCEPT ![t][p] = @ + n] \in [Tokens -> [Payees -> Nat]]
OBVIOUS

LEMMA TouchOK ==
  ASSUME FarmOK, Touch
  PROVE  FarmOK'
<1>1. CASE ChefPays
  BY <1>1, TokenCases DEF Touch, FarmOK, fixed
<1>2. CASE ~ChefPays
  BY <1>2 DEF Touch, FarmOK, farmVars
<1> QED BY <1>1, <1>2

LEMMA TendOK ==
  ASSUME FarmOK, FarmTend
  PROVE  FarmOK'
<1>1. idle["main"] \in Nat /\ pending \in Nat /\ parked["main"] \in Nat /\ parked["side"] \in Nat
  BY TokenCases DEF FarmOK
<1>2. idle' = Nothing /\ pending' = 0 /\ UNCHANGED <<kind, price, got>>
  BY DEF FarmTend, TendSushi, TendStake, TendConvex, fixed
<1>3. parked' \in [Tokens -> Nat]
  <2>1. CASE TendSushi
    <3>1. SharesOf(idle["main"] + pending) \in Nat
      BY <1>1, SharesOfNat
    <3> QED BY <2>1, <3>1, AddIdle, TokenCases DEF TendSushi, FarmOK
  <2>2. CASE TendStake
    BY <2>2, <1>1, TokenCases DEF TendStake, FarmOK
  <2>3. CASE TendConvex
    BY <2>3, <1>1 DEF TendConvex, Tokens
  <2> QED BY <2>1, <2>2, <2>3 DEF FarmTend
<1> QED BY <1>2, <1>3, NothingOK DEF FarmOK

(* What a harvest sells for want is compounded whole: the fees are a part.   *)
LEMMA CompoundOK ==
  ASSUME TypeOK, strategy \in Strategies, NEW gain \in Nat, NEW gov \in 0..MaxFee,
         NEW strat \in 0..MaxFee, gov + strat <= MaxFee, CompoundWant(gain, gov, strat)
  PROVE  want' \in [Holders -> Nat] /\ staked' \in [Strategies -> Nat]
<1> DEFINE held == want[strategy] + gain
<1>1. held \in Nat /\ strategy \in Holders
  BY HolderFacts DEF TypeOK
<1>2. /\ Fee(gov, held) \in Nat /\ Fee(strat, held) \in Nat
      /\ Fee(gov, held) + Fee(strat, held) <= held
  BY <1>1, FeeBounds, TwoFees
<1>3. /\ want' = [want EXCEPT ![strategy] = 0, ![Rewards] = @ + Fee(gov, held)]
      /\ staked' = [staked EXCEPT ![strategy] = @ + held - Fee(gov, held) - Fee(strat, held)]
  BY DEF CompoundWant
<1> HIDE DEF held
<1>4. want' \in [Holders -> Nat]
  BY <1>1, <1>2, <1>3, HolderFacts DEF TypeOK
<1>5. staked[strategy] + held - Fee(gov, held) - Fee(strat, held) \in Nat
  BY <1>1, <1>2 DEF TypeOK
<1> QED BY <1>3, <1>4, <1>5 DEF TypeOK

(* Liquidity is made of what there is.                                       *)
LEMMA LiquidityOK ==
  ASSUME TypeOK, strategy \in Strategies, FarmOK, NEW held \in Nat, NEW taken \in Nat,
         AddLiquidity(held, taken)
  PROVE  /\ idle' \in [Tokens -> Nat] /\ pending' = 0 /\ parked' = parked
         /\ want' = want /\ staked' \in [Strategies -> Nat]
<1> DEFINE sold == pending \div 2
           wbtc == idle["side"] + sold
           rest == held - taken - sold
           lp   == IF sold = 0 THEN 0 ELSE IF wbtc <= rest THEN wbtc ELSE rest
<1>1. sold \in Nat
  BY FloorBounds DEF FarmOK
<1>2. wbtc \in Nat /\ rest \in Int
  BY <1>1, TokenCases DEF FarmOK
<1>3. /\ rest >= 0 /\ staked' = [staked EXCEPT ![strategy] = @ + lp]
      /\ idle' = [main |-> rest - lp, side |-> wbtc - lp] /\ pending' = 0
      /\ UNCHANGED <<want, parked>>
  BY DEF AddLiquidity
<1> HIDE DEF sold, wbtc, rest
<1>4. lp \in Nat /\ rest - lp \in Nat /\ wbtc - lp \in Nat
  BY <1>2, <1>3
<1> HIDE DEF lp
<1>5. idle' \in [Tokens -> Nat]
  BY <1>3, <1>4 DEF Tokens
<1>6. staked' \in [Strategies -> Nat]
  BY <1>3, <1>4 DEF TypeOK
<1> QED BY <1>3, <1>5, <1>6

FundsOK ==
  /\ want \in [Holders -> Nat]
  /\ staked \in [Strategies -> Nat]
  /\ earned \in [Strategies -> Nat]

LEMMA ChainTypes ==
  ASSUME TypeOK, FarmOK, FundsOK', FarmOK', UNCHANGED <<claims, locked, config>>
  PROVE  TypeOK'
BY DEF TypeOK, FundsOK, claims, config

LEMMA RewardsNat ==
  ASSUME FarmOK
  PROVE  /\ idle["main"] \in Nat /\ idle["side"] \in Nat
         /\ parked["main"] \in Nat /\ parked["side"] \in Nat
         /\ pending \in Nat
BY TokenCases DEF FarmOK

LEMMA ConvexParts ==
  ASSUME FarmOK, NEW t \in Tokens
  PROVE  /\ ConvexHarvested(t) \in Nat
         /\ Fee(CompoundRate, ConvexHarvested(t)) \in Nat
         /\ ConvexHarvested(t) - Fee(CompoundRate, ConvexHarvested(t)) \in Nat
         /\ ConvexShared(t) \in [Payees -> Nat]
<1> DEFINE n == ConvexHarvested(t)
           r == n - Fee(CompoundRate, n)
<1>1. n \in Nat
  BY RewardsNat DEF ConvexHarvested, FarmOK
<1>2. Fee(CompoundRate, n) \in Nat /\ Fee(CompoundRate, n) <= n
  BY <1>1, RatesFit, FeeBounds
<1>3. r \in Nat
  BY <1>1, <1>2
<1>4. Shared(r) \in [Payees -> Nat]
  BY <1>3, SharedParts
<1>5. \A p \in Payees : SharesOf(Shared(r)[p]) \in Nat
  BY <1>4, SharesOfNat
<1>6. ConvexShared(t) = [p \in Payees |-> SharesOf(Shared(r)[p])]
  BY DEF ConvexShared
<1> QED BY <1>1, <1>2, <1>3, <1>5, <1>6

(* A strategist fee and a governance fee of DIGG, and nothing for the tree   *)
LEMMA DiggParts ==
  ASSUME NEW n \in Nat
  PROVE  [Shared(n) EXCEPT !.tree = 0] \in [Payees -> Nat]
BY SharedParts DEF Payees

LEMMA HarvestOK ==
  ASSUME TypeOK, strategy \in Strategies, FarmOK, FarmHarvest
  PROVE  TypeOK' /\ FarmOK'
<1>1. CASE kind = "badger" /\ Harvest(strategy) /\ UNCHANGED farmVars
  <2>1. FundsOK'
    BY <1>1, HolderFacts DEF Harvest, TypeOK, FundsOK
  <2>2. FarmOK' /\ UNCHANGED <<claims, locked, config>>
    BY <1>1 DEF FarmOK, farmVars, Harvest
  <2> QED BY <2>1, <2>2, ChainTypes
<1>2. CASE /\ \/ HarvestSushi \/ HarvestFarm \/ HarvestConvex \/ HarvestHelper
              \/ HarvestCurve \/ HarvestPancake \/ HarvestBadgerLp \/ HarvestDiggLp
              \/ HarvestUni
           /\ UNCHANGED <<earned, claims, locked, config, fixed, accrued>>
  <2> DEFINE Types == /\ want' \in [Holders -> Nat] /\ staked' \in [Strategies -> Nat]
                      /\ pending' \in Nat /\ idle' \in [Tokens -> Nat]
                      /\ parked' \in [Tokens -> Nat]
                      /\ got' \in [Tokens -> [Payees -> Nat]]
  <2>0. /\ want \in [Holders -> Nat] /\ staked \in [Strategies -> Nat]
        /\ strategy \in Holders /\ Rewards \in Holders /\ strategy # Rewards
        /\ want[strategy] \in Nat /\ staked[strategy] \in Nat
    BY HolderFacts DEF TypeOK, Contract
  <2>1. ASSUME HarvestSushi PROVE Types
    <3>1. parked["main"] + SharesOf(idle["main"] + pending) \in Nat
      BY RewardsNat, SharesOfNat
    <3>2. got' \in [Tokens -> [Payees -> Nat]]
      BY <2>1, <3>1, SharedParts, PaidIs, TokenCases DEF HarvestSushi, FarmOK
    <3>3. want' \in [Holders -> Nat] /\ staked' \in [Strategies -> Nat]
      BY <2>0, <2>1 DEF HarvestSushi
    <3> QED BY <2>1, <3>2, <3>3, NothingOK DEF HarvestSushi
  <2>2. ASSUME HarvestFarm PROVE Types
    <3>1. parked["main"] + idle["main"] + pending \in Nat
      BY RewardsNat
    <3>2. got' \in [Tokens -> [Payees -> Nat]]
      BY <2>2, <3>1, SharedParts, PaidIs, TokenCases DEF HarvestFarm, FarmOK
    <3> QED BY <2>0, <2>2, <3>2, NothingOK DEF HarvestFarm
  <2>3. ASSUME HarvestConvex PROVE Types
    <3> DEFINE gain == Fee(CompoundRate, ConvexHarvested("main"))
                         + Fee(CompoundRate, ConvexHarvested("side"))
               fee  == Fee(CompoundFee, gain)
    <3>1. gain \in Nat
      BY ConvexParts, TokenCases
    <3>2. fee \in Nat /\ fee <= gain
      BY <3>1, RatesFit, FeeBounds
    <3>3. /\ want' = [want EXCEPT ![strategy] = 0, ![Rewards] = @ + fee]
          /\ staked' = [staked EXCEPT ![strategy] = @ + want[strategy] + gain - fee]
      BY <2>3 DEF HarvestConvex
    <3> HIDE DEF gain, fee
    <3>4. want' \in [Holders -> Nat] /\ staked' \in [Strategies -> Nat]
      BY <2>0, <3>1, <3>2, <3>3
    <3>5. Paid(got, "main", ConvexShared("main")) \in [Tokens -> [Payees -> Nat]]
      BY ConvexParts, PaidIs, TokenCases DEF FarmOK
    <3>6. got' \in [Tokens -> [Payees -> Nat]]
      BY <2>3, <3>5, ConvexParts, PaidIs, TokenCases DEF HarvestConvex
    <3>7. idle' \in [Tokens -> Nat]
      BY <2>3, RewardsNat, AddIdle, TokenCases DEF HarvestConvex, FarmOK
    <3> QED BY <2>3, <3>4, <3>6, <3>7, NothingOK DEF HarvestConvex
  <2>4. ASSUME HarvestHelper PROVE Types
    <3>1. CompoundWant(pending, GovernanceFee, 0) /\ pending' = 0 /\ UNCHANGED <<idle, parked, got>>
      BY <2>4 DEF HarvestHelper
    <3>2. 0 \in 0..MaxFee /\ GovernanceFee + 0 <= MaxFee
      BY RatesFit, SettAssumption
    <3>3. want' \in [Holders -> Nat] /\ staked' \in [Strategies -> Nat]
      BY <3>1, <3>2, RatesFit, RewardsNat, CompoundOK
    <3> QED BY <3>1, <3>3 DEF FarmOK
  <2>5. ASSUME HarvestCurve PROVE Types
    <3> DEFINE keep == Fee(KeepRate, pending)
    <3>1. /\ CompoundWant(pending - keep, GovernanceFee, StrategistFee)
          /\ got' = [got EXCEPT !["main"]["rewards"] = @ + keep]
          /\ pending' = 0 /\ UNCHANGED <<idle, parked>>
      BY <2>5 DEF HarvestCurve
    <3>2. keep \in Nat /\ pending - keep \in Nat
      <4>1. keep \in Nat /\ keep <= pending
        BY RewardsNat, RatesFit, FeeBounds
      <4> QED BY <4>1, RewardsNat
    <3> HIDE DEF keep
    <3>3. want' \in [Holders -> Nat] /\ staked' \in [Strategies -> Nat]
      BY <3>1, <3>2, RatesFit, CompoundOK
    <3>4. got' \in [Tokens -> [Payees -> Nat]]
      <4>1. "rewards" \in Payees /\ got \in [Tokens -> [Payees -> Nat]]
        BY DEF Payees, FarmOK
      <4> QED BY <3>1, <3>2, <4>1, TokenCases, AddGot
    <3> QED BY <3>1, <3>3, <3>4 DEF FarmOK
  <2>6. ASSUME HarvestPancake PROVE Types
    <3>1. /\ CompoundWant(parked["main"] + idle["main"] + pending, GovernanceFee, StrategistFee)
          /\ parked' = Nothing /\ idle' = Nothing /\ pending' = 0 /\ got' = got
      BY <2>6 DEF HarvestPancake
    <3>2. parked["main"] + idle["main"] + pending \in Nat
      BY RewardsNat
    <3>3. want' \in [Holders -> Nat] /\ staked' \in [Strategies -> Nat]
      BY <3>1, <3>2, RatesFit, CompoundOK
    <3> QED BY <3>1, <3>3, NothingOK DEF FarmOK
  <2>7. ASSUME HarvestBadgerLp PROVE Types
    <3>1. AddLiquidity(idle["main"] + pending, 0) /\ idle["main"] + pending \in Nat /\ got' = got
      BY <2>7, RewardsNat DEF HarvestBadgerLp
    <3>2. 0 \in Nat
      OBVIOUS
    <3> QED BY <2>0, <3>1, <3>2, LiquidityOK DEF FarmOK
  <2>8. ASSUME HarvestDiggLp PROVE Types
    <3> DEFINE held  == idle["main"] + pending
               parts == [Shared(held) EXCEPT !.tree = 0]
    <3>1. held \in Nat
      BY RewardsNat
    <3>2. parts \in [Payees -> Nat] /\ parts.rewards + parts.strategist \in Nat
      BY <3>1, DiggParts DEF Payees
    <3>3. got' = Paid(got, "main", parts) /\ AddLiquidity(held, parts.rewards + parts.strategist)
      BY <2>8 DEF HarvestDiggLp
    <3> HIDE DEF held, parts
    <3>4. got' \in [Tokens -> [Payees -> Nat]]
      BY <3>2, <3>3, PaidIs, TokenCases DEF FarmOK
    <3> QED BY <2>0, <3>1, <3>2, <3>3, <3>4, LiquidityOK DEF FarmOK
  <2>9. ASSUME HarvestUni PROVE Types
    BY <2>0, <2>9 DEF HarvestUni, FarmOK
  <2>10. Types
    BY <1>2, <2>1, <2>2, <2>3, <2>4, <2>5, <2>6, <2>7, <2>8, <2>9
  <2>11. FarmOK'
    BY <1>2, <2>10 DEF FarmOK, fixed
  <2>12. FundsOK'
    BY <1>2, <2>10 DEF TypeOK, FundsOK
  <2> QED BY <1>2, <2>11, <2>12, ChainTypes
<1> QED BY <1>1, <1>2 DEF FarmHarvest

LEMMA ExitWithOK ==
  ASSUME TypeOK, strategy \in Strategies, FarmOK, NEW n \in Nat, ExitWith(n)
  PROVE  /\ want' \in [Holders -> Nat] /\ staked' \in [Strategies -> Nat]
         /\ got' \in [Tokens -> [Payees -> Nat]]
         /\ want'[strategy] = 0 /\ staked'[strategy] = 0
<1>1. /\ want \in [Holders -> Nat] /\ staked \in [Strategies -> Nat]
      /\ strategy \in Holders /\ Sett \in Holders /\ strategy # Sett
      /\ StrategyBalance(strategy) \in Nat
  BY HolderFacts DEF TypeOK, StrategyBalance, Contract
<1>2. /\ want' = [want EXCEPT ![strategy] = 0, ![Sett] = @ + StrategyBalance(strategy)]
      /\ staked' = [staked EXCEPT ![strategy] = 0]
      /\ got' = [got EXCEPT !["main"]["rewards"] = @ + n]
  BY DEF ExitWith
<1>3. got' \in [Tokens -> [Payees -> Nat]]
  BY <1>2, TokenCases, AddGot DEF FarmOK, Payees
<1> QED BY <1>1, <1>2, <1>3

(* After the exit of a strategy no want is left in it, and of the rewards    *)
(* what the kind of strategy takes no care of.                               *)
LeftBehind ==
  /\ kind # "helper" => want[strategy] = 0 /\ staked[strategy] = 0
  /\ kind = "badger" => earned[strategy] = 0
  /\ kind \in {"sushi", "pancake", "badgerLp", "diggLp"} => pending = 0
  /\ kind \in {"sushi", "farm", "pancake"} => idle = Nothing /\ parked = Nothing
  /\ kind \in {"badgerLp", "diggLp"} => idle["main"] = 0

LEMMA ExitOK ==
  ASSUME TypeOK, strategy \in Strategies, FarmOK, FarmExit
  PROVE  /\ TypeOK' /\ FarmOK' /\ LeftBehind'
         /\ UNCHANGED <<fixed, strategy>>
         /\ kind # "badger" => UNCHANGED earned
         /\ kind \in {"badger", "uni"} => UNCHANGED <<pending, idle, parked>>
         /\ kind \in {"badgerLp", "diggLp"} => parked' = parked /\ idle'["side"] = idle["side"]
<1>0. /\ want \in [Holders -> Nat] /\ staked \in [Strategies -> Nat]
      /\ strategy \in Holders /\ Sett \in Holders /\ strategy # Sett
      /\ want[strategy] \in Nat /\ staked[strategy] \in Nat
  BY HolderFacts DEF TypeOK, Contract
<1>1. CASE kind = "badger" /\ Exit(strategy, 0) /\ UNCHANGED <<claims, locked, config, farmVars>>
  <2>1. FundsOK'
    <3>1. 0 \in Nat
      OBVIOUS
    <3> QED BY <1>1, <3>1, ExitType DEF FundsOK
  <2>2. FarmOK' /\ UNCHANGED <<claims, locked, config, farmVars>> /\ UNCHANGED <<fixed, strategy>>
    BY <1>1 DEF FarmOK, farmVars, fixed, config
  <2>3. want'[strategy] = 0 /\ staked'[strategy] = 0 /\ earned'[strategy] = 0
    BY <1>0, <1>1 DEF Exit, TypeOK
  <2>4. LeftBehind'
    BY <1>1, <2>2, <2>3 DEF LeftBehind, farmVars
  <2>5. TypeOK'
    BY <2>1, <2>2, ChainTypes
  <2> QED BY <1>1, <2>2, <2>4, <2>5 DEF farmVars
<1>2. CASE /\ \/ ExitSushi \/ ExitFarm \/ ExitWantOnly \/ ExitHelper \/ ExitPancake \/ ExitLp
           /\ UNCHANGED <<earned, claims, locked, config, fixed, feeWant, accrued>>
  <2> DEFINE Types == /\ want' \in [Holders -> Nat] /\ staked' \in [Strategies -> Nat]
                      /\ pending' \in Nat /\ idle' \in [Tokens -> Nat]
                      /\ parked' \in [Tokens -> Nat]
                      /\ got' \in [Tokens -> [Payees -> Nat]]
             Left == /\ kind # "helper" => want'[strategy] = 0 /\ staked'[strategy] = 0
                     /\ kind \in {"sushi", "pancake", "badgerLp", "diggLp"} => pending' = 0
                     /\ kind \in {"sushi", "farm", "pancake"} => idle' = Nothing /\ parked' = Nothing
                     /\ kind \in {"badgerLp", "diggLp"} => idle'["main"] = 0
             Kept == /\ kind # "badger"
                     /\ kind = "uni" => UNCHANGED <<pending, idle, parked>>
                     /\ kind \in {"badgerLp", "diggLp"} =>
                          parked' = parked /\ idle'["side"] = idle["side"]
  <2>1. ASSUME ExitSushi PROVE Types /\ Left /\ Kept
    <3>1. idle["main"] + pending + parked["main"] * price \in Nat
      <4>1. price \in Nat
        BY DEF FarmOK
      <4>2. parked["main"] * price \in Nat
        BY <4>1, RewardsNat, MulNat
      <4> QED BY <4>2, RewardsNat
    <3>2. ExitWith(idle["main"] + pending + parked["main"] * price)
      BY <2>1 DEF ExitSushi
    <3>3. kind = "sushi" /\ parked' = Nothing /\ idle' = Nothing /\ pending' = 0
      BY <2>1 DEF ExitSushi
    <3> QED BY <3>1, <3>2, <3>3, ExitWithOK, NothingOK
  <2>2. ASSUME ExitFarm PROVE Types /\ Left /\ Kept
    <3> DEFINE paid == IF staked[strategy] > 0 THEN pending ELSE 0
    <3>1. paid \in Nat /\ pending - paid \in Nat /\ idle["main"] + paid + parked["main"] \in Nat
      BY RewardsNat
    <3>2. /\ kind = "farm" /\ ExitWith(idle["main"] + paid + parked["main"])
          /\ pending' = pending - paid /\ parked' = Nothing /\ idle' = Nothing
      BY <2>2 DEF ExitFarm
    <3> HIDE DEF paid
    <3> QED BY <3>1, <3>2, ExitWithOK, NothingOK
  <2>3. ASSUME ExitWantOnly PROVE Types /\ Left /\ Kept
    <3>1. 0 \in Nat
      OBVIOUS
    <3> QED BY <2>3, <3>1, ExitWithOK DEF ExitWantOnly, FarmOK
  <2>4. ASSUME ExitHelper PROVE Types /\ Left /\ Kept
    <3>1. want' \in [Holders -> Nat]
      BY <1>0, <2>4 DEF ExitHelper
    <3> QED BY <1>0, <2>4, <3>1 DEF ExitHelper, FarmOK
  <2>5. ASSUME ExitPancake PROVE Types /\ Left /\ Kept
    <3>1. idle["main"] + pending + parked["main"] \in Nat
      BY RewardsNat
    <3>2. ExitWith(idle["main"] + pending + parked["main"])
      BY <2>5 DEF ExitPancake
    <3>3. kind = "pancake" /\ parked' = Nothing /\ idle' = Nothing /\ pending' = 0
      BY <2>5 DEF ExitPancake
    <3> QED BY <3>1, <3>2, <3>3, ExitWithOK, NothingOK
  <2>6. ASSUME ExitLp PROVE Types /\ Left /\ Kept
    <3>1. idle["main"] + pending \in Nat
      BY RewardsNat
    <3>2. ExitWith(idle["main"] + pending)
      BY <2>6 DEF ExitLp
    <3>3. /\ kind \in {"badgerLp", "diggLp"} /\ idle' = [idle EXCEPT !["main"] = 0]
          /\ pending' = 0 /\ parked' = parked
      BY <2>6 DEF ExitLp
    <3>4. idle' \in [Tokens -> Nat] /\ idle'["main"] = 0 /\ idle'["side"] = idle["side"]
      BY <3>3, TokenCases DEF FarmOK
    <3> QED BY <3>1, <3>2, <3>3, <3>4, ExitWithOK DEF FarmOK
  <2>7. Types /\ Left /\ Kept
    BY <1>2, <2>1, <2>2, <2>3, <2>4, <2>5, <2>6
  <2>8. UNCHANGED <<fixed, strategy>> /\ kind' = kind
    BY <1>2 DEF fixed, config
  <2>9. FarmOK'
    BY <1>2, <2>7 DEF FarmOK, fixed
  <2>10. FundsOK'
    BY <1>2, <2>7 DEF TypeOK, FundsOK
  <2>11. TypeOK'
    BY <1>2, <2>9, <2>10, ChainTypes
  <2>12. LeftBehind'
    BY <2>7, <2>8 DEF LeftBehind
  <2> QED BY <1>2, <2>7, <2>8, <2>9, <2>11, <2>12
<1> QED BY <1>1, <1>2 DEF FarmExit

-----------------------------------------------------------------------------
(* The steps of the simulation *)

(* Whoever has deposited and is about to withdraw holds what was issued.     *)
TripOK ==
  trip # NoTrip =>
    /\ trip.user \in Users
    /\ trip.held \in Nat
    /\ trip.held <= shares[trip.user]

SimOK == TypeOK /\ strategy \in Strategies /\ FarmOK /\ TripOK

LEMMA SimInitOK == SimInit => SimOK
<1> SUFFICES ASSUME SimInit PROVE SimOK
  OBVIOUS
<1>1. want \in [Holders -> Nat]
  <2>1. PICK f \in [Holders -> 0..InitialWant] : want = f
    BY DEF SimInit, DistributeWant
  <2> QED BY <2>1, SettAssumption
<1>2. withdrawalFee \in [Strategies -> Fees] /\ threshold \in [Strategies -> Thresholds]
  BY DEF SimInit
<1>3. TypeOK /\ strategy \in Strategies
  BY <1>1, <1>2 DEF SimInit, TypeOK
<1> QED BY <1>3, FarmInitOK DEF SimInit, SimOK, TripOK

LEMMA DepositStepOK ==
  ASSUME SimOK, NEW u \in Users, SettDeposit(u)
  PROVE  /\ TypeOK' /\ FarmOK' /\ UNCHANGED <<farmVars, earned, config>>
         /\ shares[u] \in Nat /\ shares[u] <= shares'[u]
         /\ result' # "exited"
<1> DEFINE amount == want[u] \div 2
<1>1. amount \in Nat
  <2>1. want[u] \in Nat
    BY HolderFacts DEF SimOK, TypeOK
  <2> QED BY <2>1, FloorBounds
<1>2. DepositFor(u, u, amount) /\ UNCHANGED farmVars
  BY DEF SettDeposit
<1>3. TypeOK'
  BY <1>1, <1>2, DepositType DEF SimOK
<1>4. FarmOK'
  BY <1>2 DEF SimOK, FarmOK, farmVars
<1>5. SharesFor(amount) \in Nat
  BY <1>1, <1>2, SharesForBounds DEF SimOK, DepositFor
<1>6. shares[u] \in Nat /\ shares'[u] = shares[u] + SharesFor(amount)
  BY <1>2 DEF SimOK, TypeOK, DepositFor
<1>7. result' # "exited"
  BY DEF SettDeposit, Outcome
<1>8. UNCHANGED <<earned, config>>
  BY <1>2 DEF DepositFor
<1> HIDE DEF amount
<1> QED BY <1>2, <1>3, <1>4, <1>5, <1>6, <1>7, <1>8

LEMMA WithdrawStepOK ==
  ASSUME SimOK, NEW u \in Users, NEW n \in Nat, SettWithdraw(u, n)
  PROVE  TypeOK' /\ FarmOK' /\ UNCHANGED <<earned, config>> /\ (UNCHANGED farmVars \/ Touch)
<1>1. CASE WithdrawIdle(u, n) /\ UNCHANGED farmVars
  <2>1. TypeOK'
    BY <1>1, WithdrawIdleType DEF SimOK
  <2> QED BY <1>1, <2>1 DEF SimOK, FarmOK, farmVars, WithdrawIdle
<1>2. CASE WithdrawUnrolling(u, n, 0) /\ Touch
  <2>1. 0 \in 0..PartialSlip
    BY SettAssumption
  <2>2. TypeOK'
    BY <1>2, <2>1, WithdrawUnrollingType DEF SimOK
  <2>3. FarmOK'
    BY <1>2, TouchOK DEF SimOK
  <2>4. UNCHANGED <<earned, config>>
    BY <1>2 DEF WithdrawUnrolling
  <2> QED BY <1>2, <2>2, <2>3, <2>4
<1> QED BY <1>1, <1>2 DEF SettWithdraw, FarmWithdraw

LEMMA EarnStepOK ==
  ASSUME SimOK, FarmEarn
  PROVE  TypeOK' /\ FarmOK' /\ UNCHANGED <<earned, claims, config>> /\ (UNCHANGED farmVars \/ Touch)
<1>1. Earn /\ (UNCHANGED farmVars \/ Touch)
  BY DEF FarmEarn
<1>2. UNCHANGED <<earned, claims, locked, config>> /\ DepositToStrategy(Sett, strategy, Available)
  BY <1>1 DEF Earn
<1>3. want' \in [Holders -> Nat] /\ staked' \in [Strategies -> Nat]
  BY <1>2, BalanceNat, HolderFacts, DepositToStrategyType DEF SimOK
<1>4. FarmOK'
  <2>1. CASE UNCHANGED farmVars
    BY <2>1 DEF SimOK, FarmOK, farmVars
  <2> QED BY <1>1, <2>1, TouchOK DEF SimOK
<1>5. FundsOK'
  BY <1>2, <1>3 DEF SimOK, TypeOK, FundsOK
<1>6. TypeOK'
  BY <1>2, <1>4, <1>5, ChainTypes DEF SimOK
<1> QED BY <1>1, <1>2, <1>4, <1>6

LEMMA AccrueOK ==
  ASSUME SimOK, NEW n \in Rewards1, AccrueReward(n)
  PROVE  TypeOK' /\ FarmOK' /\ UNCHANGED <<vars, kind, price, idle, parked, got>>
<1>1. n \in Nat /\ pending' = pending + n /\ UNCHANGED <<vars, kind, price, idle, parked, got>>
  BY FarmAssumption DEF AccrueReward, fixed
<1>2. TypeOK'
  BY <1>1 DEF SimOK, TypeOK, vars, config
<1>3. FarmOK'
  BY <1>1 DEF SimOK, FarmOK
<1> QED BY <1>1, <1>2, <1>3

LEMMA SimStepOK ==
  ASSUME SimOK, SimNext
  PROVE  SimOK'
<1>0. UNCHANGED strategy => strategy' \in Strategies
  BY DEF SimOK
<1>1. ASSUME NEW u \in Users, DepositAction(u) PROVE SimOK'
  <2>1. SettDeposit(u) /\ trip = NoTrip /\ trip' = trip
    BY <1>1 DEF DepositAction, Between
  <2> QED BY <1>0, <2>1, DepositStepOK DEF SimOK, TripOK, config
<1>2. ASSUME NEW u \in Users, WithdrawAction(u) PROVE SimOK'
  <2>1. SettWithdraw(u, shares[u]) /\ trip = NoTrip /\ trip' = trip /\ shares[u] \in Nat
    BY <1>2 DEF WithdrawAction, Between, SimOK, TypeOK
  <2> QED BY <1>0, <2>1, WithdrawStepOK DEF SimOK, TripOK, config
<1>3. ASSUME NEW u \in Users, WithdrawActionReverts(u) PROVE SimOK'
  BY <1>3 DEF WithdrawActionReverts, SimOK, TypeOK, FarmOK, TripOK, vars, farmVars, config
<1>4. ASSUME NEW u \in Users, TripDeposits(u) PROVE SimOK'
  <2>1. SettDeposit(u) /\ trip' = [user |-> u, start |-> want[u], held |-> shares[u]]
    BY <1>4 DEF TripDeposits
  <2>2. TripOK'
    BY <2>1, DepositStepOK DEF TripOK
  <2> QED BY <1>0, <2>1, <2>2, DepositStepOK DEF SimOK, config
<1>5. CASE TripWithdraws
  <2>1. trip # NoTrip /\ trip' = NoTrip /\ SettWithdraw(trip.user, shares[trip.user] - trip.held)
    BY <1>5 DEF TripWithdraws
  <2>2. trip.user \in Users /\ shares[trip.user] - trip.held \in Nat
    BY <2>1 DEF SimOK, TripOK, TypeOK
  <2> QED BY <1>0, <2>1, <2>2, WithdrawStepOK DEF SimOK, TripOK, config
<1>6. CASE KeeperEarns
  BY <1>0, <1>6, EarnStepOK DEF KeeperEarns, SimOK, TripOK, Between, config
<1>7. CASE KeeperHarvests
  <2>1. FarmHarvest /\ trip' = trip /\ trip = NoTrip
    BY <1>7 DEF KeeperHarvests, Between
  <2>2. UNCHANGED strategy
    BY <2>1 DEF FarmHarvest, Harvest, config
  <2> QED BY <1>0, <2>1, <2>2, HarvestOK DEF SimOK, TripOK
<1>8. CASE KeeperTends
  <2>1. FarmTend /\ UNCHANGED <<vars, trip>> /\ trip = NoTrip
    BY <1>8 DEF KeeperTends, Between, FarmTend
  <2>2. TypeOK'
    BY <2>1 DEF SimOK, TypeOK, vars, config
  <2> QED BY <1>0, <2>1, <2>2, TendOK DEF SimOK, TripOK, vars, config
<1>9. CASE Sleep
  <2>1. trip' = trip /\ trip = NoTrip
    BY <1>9 DEF Sleep, Between
  <2>2. CASE kind = "badger" /\ Accrue(strategy) /\ UNCHANGED farmVars
    <3>1. FundsOK' /\ FarmOK'
      BY <2>2 DEF Accrue, SimOK, TypeOK, FundsOK, FarmOK, farmVars
    <3>2. UNCHANGED <<claims, locked, config>>
      BY <2>2 DEF Accrue
    <3> QED BY <1>0, <2>1, <3>1, <3>2, ChainTypes DEF SimOK, TripOK, config
  <2>3. CASE \E n \in Rewards1 : AccrueReward(n)
    BY <1>0, <2>1, <2>3, AccrueOK DEF SimOK, TripOK, vars, config
  <2> QED BY <1>9, <2>2, <2>3 DEF Sleep
<1>10. CASE Mine
  BY <1>10 DEF Mine, NextBlock, SimOK, TypeOK, FarmOK, TripOK, funds, claims, config, farmVars
<1>11. CASE Migrates
  <2>1. FarmExit /\ trip' = trip /\ trip = NoTrip
    BY <1>11 DEF Migrates, Between
  <2> QED BY <1>0, <2>1, ExitOK DEF SimOK, TripOK
<1> QED BY <1>1, <1>2, <1>3, <1>4, <1>5, <1>6, <1>7, <1>8, <1>9, <1>10, <1>11 DEF SimNext

LEMMA SimStutterOK == SimOK /\ UNCHANGED simVars => SimOK'
BY DEF SimOK, TypeOK, FarmOK, TripOK, simVars, vars, farmVars, config

(* Only these steps do more to the rewards than what a move of want does.    *)
LEMMA StepKinds ==
  ASSUME SimOK, SimNext
  PROVE  \/ /\ UNCHANGED farmVars \/ Touch
            /\ UNCHANGED <<earned, strategy>> /\ result' # "exited" /\ result = "ok"
         \/ KeeperHarvests \/ KeeperTends \/ Sleep \/ Mine \/ Migrates
<1>1. ASSUME NEW u \in Users, DepositAction(u) \/ TripDeposits(u)
      PROVE  UNCHANGED farmVars /\ UNCHANGED <<earned, strategy>> /\ result' # "exited" /\ result = "ok"
  BY <1>1, DepositStepOK DEF DepositAction, TripDeposits, Between, Ready, config
<1>2. ASSUME NEW u \in Users, WithdrawAction(u)
      PROVE  /\ UNCHANGED farmVars \/ Touch
             /\ UNCHANGED <<earned, strategy>> /\ result' # "exited" /\ result = "ok"
  <2>1. shares[u] \in Nat /\ SettWithdraw(u, shares[u]) /\ result = "ok" /\ result' # "exited"
    BY <1>2 DEF WithdrawAction, Between, Ready, Outcome, SimOK, TypeOK
  <2> QED BY <2>1, WithdrawStepOK DEF config
<1>3. ASSUME NEW u \in Users, WithdrawActionReverts(u)
      PROVE  UNCHANGED farmVars /\ UNCHANGED <<earned, strategy>> /\ result' # "exited" /\ result = "ok"
  BY <1>3 DEF WithdrawActionReverts, Between, Ready, vars, config
<1>4. ASSUME TripWithdraws
      PROVE  /\ UNCHANGED farmVars \/ Touch
             /\ UNCHANGED <<earned, strategy>> /\ result' # "exited" /\ result = "ok"
  <2>1. trip # NoTrip /\ SettWithdraw(trip.user, shares[trip.user] - trip.held) /\ result = "ok"
    BY <1>4 DEF TripWithdraws, Ready
  <2>2. trip.user \in Users /\ shares[trip.user] - trip.held \in Nat
    BY <2>1 DEF SimOK, TripOK, TypeOK
  <2>3. result' # "exited"
    BY <1>4 DEF TripWithdraws, Outcome
  <2> QED BY <2>1, <2>2, <2>3, WithdrawStepOK DEF config
<1>5. ASSUME KeeperEarns
      PROVE  /\ UNCHANGED farmVars \/ Touch
             /\ UNCHANGED <<earned, strategy>> /\ result' # "exited" /\ result = "ok"
  BY <1>5, EarnStepOK DEF KeeperEarns, Between, Ready, Outcome, config
<1> QED BY <1>1, <1>2, <1>3, <1>4, <1>5 DEF SimNext

LEMMA TouchKeeps ==
  ASSUME FarmOK, UNCHANGED farmVars \/ Touch
  PROVE  /\ UNCHANGED <<kind, price, parked, got>>
         /\ ~ChefPays => UNCHANGED <<idle, pending>>
         /\ idle'["side"] = idle["side"]
<1>1. idle \in [Tokens -> Nat] /\ "side" \in Tokens
  BY TokenCases DEF FarmOK
<1> QED BY <1>1 DEF Touch, farmVars, fixed

-----------------------------------------------------------------------------
(* Migrations *)

(* Which reward tokens a kind of strategy ever holds: an exit takes out no   *)
(* other.  The liquidity of badgerLp uses up all the wBTC it bought.         *)
HoldsOnlyItsOwn ==
  /\ kind # "badger" => earned[strategy] = 0
  /\ kind \in {"badger", "uni"} => idle = Nothing
  /\ kind \in {"badger", "uni", "badgerLp", "diggLp"} => parked = Nothing
  /\ kind = "badgerLp" => idle["side"] = 0

LEMMA BadgerLpSpendsItsWbtc ==
  ASSUME FarmOK, idle["side"] = 0, NEW held \in Nat, held = idle["main"] + pending,
         AddLiquidity(held, 0)
  PROVE  idle'["side"] = 0
<1> DEFINE sold == pending \div 2
           wbtc == idle["side"] + sold
           rest == held - 0 - sold
           lp   == IF sold = 0 THEN 0 ELSE IF wbtc <= rest THEN wbtc ELSE rest
<1>1. pending \in Nat /\ idle["main"] \in Nat
  BY RewardsNat
<1>2. sold \in Nat /\ sold * 2 <= pending
  BY <1>1, FloorBounds
<1>3. idle' = [main |-> rest - lp, side |-> wbtc - lp]
  BY DEF AddLiquidity
<1>4. wbtc = sold /\ rest >= sold
  BY <1>1, <1>2
<1> HIDE DEF sold, wbtc, rest
<1>5. lp = wbtc
  BY <1>2, <1>4
<1>6. wbtc - lp = 0
  BY <1>2, <1>4, <1>5
<1> HIDE DEF lp
<1> QED BY <1>3, <1>6

ExitInv ==
  /\ SimOK
  /\ HoldsOnlyItsOwn
  /\ result = "exited" => LeftBehind

LEMMA HarvestHoldsOwn ==
  ASSUME SimOK, HoldsOnlyItsOwn, FarmHarvest
  PROVE  HoldsOnlyItsOwn'
<1> USE DEF HoldsOnlyItsOwn
<1>1. CASE kind = "badger" /\ Harvest(strategy) /\ UNCHANGED farmVars
  BY <1>1 DEF farmVars
<1>2. CASE UNCHANGED <<earned, claims, locked, config, fixed, accrued>>
  <2>1. UNCHANGED <<kind, earned, strategy>>
    BY <1>2 DEF fixed, config
  <2>2. CASE kind \in {"badger", "uni"}
    <3>1. UNCHANGED <<idle, parked>>
      BY <2>2 DEF FarmHarvest, Harvest, farmVars, HarvestSushi, HarvestFarm, HarvestConvex,
                  HarvestHelper, HarvestCurve, HarvestPancake, HarvestBadgerLp, HarvestDiggLp,
                  HarvestUni
    <3> QED BY <2>1, <2>2, <3>1
  <2>3. CASE kind = "badgerLp"
    <3>1. AddLiquidity(idle["main"] + pending, 0) /\ idle["main"] + pending \in Nat
      BY <2>3, RewardsNat DEF SimOK, FarmHarvest, HarvestSushi, HarvestFarm, HarvestConvex,
                  HarvestHelper, HarvestCurve, HarvestPancake, HarvestBadgerLp, HarvestDiggLp,
                  HarvestUni
    <3>2. parked' = parked
      BY <3>1 DEF AddLiquidity
    <3>3. idle'["side"] = 0
      BY <2>3, <3>1, BadgerLpSpendsItsWbtc DEF SimOK
    <3> QED BY <2>1, <2>3, <3>2, <3>3
  <2>4. CASE kind = "diggLp"
    <3>1. parked' = parked
      BY <2>4 DEF FarmHarvest, HarvestSushi, HarvestFarm, HarvestConvex, HarvestHelper,
                  HarvestCurve, HarvestPancake, HarvestBadgerLp, HarvestDiggLp, HarvestUni,
                  AddLiquidity
    <3> QED BY <2>1, <2>4, <3>1
  <2>5. CASE kind \notin {"badger", "uni", "badgerLp", "diggLp"}
    BY <2>1, <2>5
  <2> QED BY <2>2, <2>3, <2>4, <2>5
<1> QED BY <1>1, <1>2 DEF FarmHarvest

LEMMA ExitInvStep == ExitInv /\ [SimNext]_simVars => ExitInv'
<1> SUFFICES ASSUME ExitInv, [SimNext]_simVars PROVE ExitInv'
  OBVIOUS
<1>0. SimOK /\ SimOK' /\ HoldsOnlyItsOwn /\ FarmOK
  BY SimStepOK, SimStutterOK DEF ExitInv, SimOK
<1>1. CASE UNCHANGED simVars
  BY <1>0, <1>1 DEF ExitInv, HoldsOnlyItsOwn, LeftBehind, simVars, vars, farmVars, config
<1>2. CASE /\ UNCHANGED farmVars \/ Touch
           /\ UNCHANGED <<earned, strategy>> /\ result' # "exited" /\ result = "ok"
  BY <1>0, <1>2, TouchKeeps DEF ExitInv, HoldsOnlyItsOwn, ChefPays
<1>3. CASE KeeperHarvests
  <2>1. FarmHarvest /\ result' # "exited"
    BY <1>3 DEF KeeperHarvests, Outcome
  <2> QED BY <1>0, <2>1, HarvestHoldsOwn DEF ExitInv
<1>4. CASE KeeperTends
  <2>1. /\ UNCHANGED <<vars, fixed>> /\ result' # "exited"
        /\ kind \in {"sushi", "farm", "convex", "pancake"}
    BY <1>4 DEF KeeperTends, Tendable, FarmTend, Outcome
  <2> QED BY <1>0, <2>1 DEF ExitInv, HoldsOnlyItsOwn, vars, config, fixed
<1>5. CASE Sleep
  <2>1. result' # "exited"
    BY <1>5 DEF Sleep, Between, Ready
  <2>2. CASE kind = "badger" /\ Accrue(strategy) /\ UNCHANGED farmVars
    BY <1>0, <2>1, <2>2 DEF ExitInv, HoldsOnlyItsOwn, farmVars
  <2>3. CASE \E n \in Rewards1 : AccrueReward(n)
    BY <1>0, <2>1, <2>3, AccrueOK DEF ExitInv, HoldsOnlyItsOwn, vars, config
  <2> QED BY <1>5, <2>2, <2>3 DEF Sleep
<1>6. CASE Mine
  BY <1>0, <1>6 DEF ExitInv, Mine, NextBlock, HoldsOnlyItsOwn, LeftBehind, funds, config, farmVars
<1>7. CASE Migrates
  <2>1. FarmExit
    BY <1>7 DEF Migrates
  <2>2. /\ LeftBehind' /\ UNCHANGED <<kind, strategy>>
        /\ kind # "badger" => UNCHANGED earned
        /\ kind \in {"badger", "uni"} => UNCHANGED <<pending, idle, parked>>
        /\ kind \in {"badgerLp", "diggLp"} => parked' = parked /\ idle'["side"] = idle["side"]
    BY <1>0, <2>1, ExitOK DEF SimOK, fixed
  <2> QED BY <1>0, <2>2 DEF ExitInv, HoldsOnlyItsOwn
<1> QED BY <1>0, <1>1, <1>2, <1>3, <1>4, <1>5, <1>6, <1>7, StepKinds

(* Whatever was tended, harvested, deposited and withdrawn before, and in    *)
(* whatever order, a migration leaves no want in the strategy, and no        *)
(* rewards but those its kind is known to leave.                             *)
THEOREM MigrationLeavesNothing == SimSpec => []NothingLeftBehind
<1>1. SimInit => ExitInv
  <2> SUFFICES ASSUME SimInit PROVE ExitInv
    OBVIOUS
  <2>1. HoldsOnlyItsOwn
    BY NothingOK, TokenCases DEF SimInit, FarmInit, HoldsOnlyItsOwn
  <2>2. result # "exited"
    BY DEF SimInit
  <2> QED BY <2>1, <2>2, SimInitOK DEF ExitInv
<1>2. ExitInv => NothingLeftBehind
  <2> SUFFICES ASSUME ExitInv, result = "exited"
               PROVE  /\ kind # "helper" => StrategyBalance(strategy) = 0 /\ earned[strategy] = 0
                      /\ kind \in {"sushi", "pancake", "badgerLp", "diggLp"} => pending = 0
                      /\ kind \notin {"helper", "convex", "curve"} =>
                           /\ idle["main"] = 0 /\ parked = Nothing
                           /\ kind # "diggLp" => idle["side"] = 0
    BY DEF NothingLeftBehind
  <2>1. LeftBehind /\ HoldsOnlyItsOwn /\ kind \in AllKinds
    BY DEF ExitInv, SimOK, FarmOK
  <2>2. Nothing["main"] = 0 /\ Nothing["side"] = 0
    BY NothingOK, TokenCases
  <2> QED BY <2>1, <2>2 DEF LeftBehind, HoldsOnlyItsOwn, AllKinds, StrategyBalance
<1> QED BY <1>1, <1>2, ExitInvStep, PTL DEF SimSpec

-----------------------------------------------------------------------------
(* Fees *)

(* The parts of what was paid out of one token                               *)
WithinRates(parts) ==
  LET paid == parts["tree"] + parts["rewards"] + parts["strategist"]
  IN  /\ parts["rewards"] * MaxFee <= GovernanceFee * paid
      /\ parts["strategist"] * MaxFee <= StrategistFee * paid

(* A convex strategy takes the governance fee in shares of a helper vault,   *)
(* and rounds the shares of each payee down.  With a fee that is no unit     *)
(* fraction the tree may be rounded down by more than governance.            *)
ConvexFeeDivides ==
  "convex" \in Kinds /\ GovernanceFee > 0 => \E k \in Nat : MaxFee = k * GovernanceFee

LEMMA RatesNatural == MaxFee \in Nat /\ MaxFee > 0 /\ GovernanceFee \in Nat /\ StrategistFee \in Nat
BY SettAssumption, FarmAssumption

LEMMA Distribute ==
  ASSUME NEW a \in Int, NEW b \in Int, NEW c \in Int
  PROVE  (a + b) * c = a * c + b * c /\ c * (a + b) = c * a + c * b
OBVIOUS

LEMMA RatesAddUp ==
  ASSUME NEW a \in Nat, NEW b \in Nat, NEW x \in Nat, NEW y \in Nat, NEW m \in Nat, NEW f \in Nat,
         a * m <= f * x, b * m <= f * y
  PROVE  (a + b) * m <= f * (x + y)
<1>1. (a + b) * m = a * m + b * m /\ f * (x + y) = f * x + f * y
  BY Distribute
<1>2. a * m \in Nat /\ b * m \in Nat /\ f * x \in Nat /\ f * y \in Nat
  BY MulNat
<1> QED BY <1>1, <1>2

LEMMA PaidWithinRates ==
  ASSUME NEW g \in [Tokens -> [Payees -> Nat]], NEW t \in Tokens, NEW parts \in [Payees -> Nat],
         \A x \in Tokens : WithinRates(g[x]), WithinRates(parts)
  PROVE  \A x \in Tokens : WithinRates(Paid(g, t, parts)[x])
<1> SUFFICES ASSUME NEW x \in Tokens PROVE WithinRates(Paid(g, t, parts)[x])
  OBVIOUS
<1>1. CASE x # t
  BY <1>1, PaidIs
<1>2. CASE x = t
  <2> DEFINE new == Paid(g, t, parts)[t]
             sum(p) == p["tree"] + p["rewards"] + p["strategist"]
  <2>1. /\ new["tree"] = g[t]["tree"] + parts["tree"]
        /\ new["rewards"] = g[t]["rewards"] + parts["rewards"]
        /\ new["strategist"] = g[t]["strategist"] + parts["strategist"]
    BY PaidIs DEF Payees
  <2>2. /\ g[t]["tree"] \in Nat /\ g[t]["rewards"] \in Nat /\ g[t]["strategist"] \in Nat
        /\ parts["tree"] \in Nat /\ parts["rewards"] \in Nat /\ parts["strategist"] \in Nat
    BY DEF Payees
  <2>3. sum(g[t]) \in Nat /\ sum(parts) \in Nat /\ sum(new) = sum(g[t]) + sum(parts)
    BY <2>1, <2>2
  <2>4. /\ g[t]["rewards"] * MaxFee <= GovernanceFee * sum(g[t])
        /\ g[t]["strategist"] * MaxFee <= StrategistFee * sum(g[t])
        /\ parts["rewards"] * MaxFee <= GovernanceFee * sum(parts)
        /\ parts["strategist"] * MaxFee <= StrategistFee * sum(parts)
    BY DEF WithinRates
  <2> HIDE DEF sum, new
  <2>5. new["rewards"] * MaxFee <= GovernanceFee * sum(new)
    BY <2>1, <2>2, <2>3, <2>4, RatesNatural, RatesAddUp
  <2>6. new["strategist"] * MaxFee <= StrategistFee * sum(new)
    BY <2>1, <2>2, <2>3, <2>4, RatesNatural, RatesAddUp
  <2> QED BY <1>2, <2>5, <2>6 DEF WithinRates, sum, new
<1> QED BY <1>1, <1>2

LEMMA SharedWithinRates ==
  ASSUME NEW n \in Nat
  PROVE  WithinRates(Shared(n))
<1>1. /\ Shared(n)["tree"] + Shared(n)["rewards"] + Shared(n)["strategist"] = n
      /\ Shared(n)["rewards"] = Fee(GovernanceFee, n)
      /\ Shared(n)["strategist"] = Fee(StrategistRate, n)
  BY SharedParts
<1>2. /\ Fee(GovernanceFee, n) * MaxFee <= GovernanceFee * n
      /\ Fee(StrategistRate, n) * MaxFee <= StrategistRate * n
      /\ Fee(StrategistRate, n) \in Nat
  BY RatesFit, FeeBounds
<1>3. StrategistRate * n <= StrategistFee * n
  <2>1. StrategistRate \in Int /\ StrategistFee \in Int /\ StrategistRate <= StrategistFee
    BY RatesFit, SettAssumption
  <2> QED BY <2>1, MulMono
<1>4. Fee(StrategistRate, n) * MaxFee <= StrategistFee * n
  <2>1. /\ Fee(StrategistRate, n) * MaxFee \in Int /\ StrategistRate * n \in Int
        /\ StrategistFee * n \in Int
    BY <1>2, RatesFit, SettAssumption, RatesNatural
  <2> QED BY <2>1, <1>2, <1>3
<1> QED BY <1>1, <1>2, <1>4 DEF WithinRates

(* n shared out with a fee of one in k, each part then cut to whole shares   *)
LEMMA UnitFeeInShares ==
  ASSUME NEW n \in Nat, NEW f \in Nat, NEW p \in Nat, p > 0, NEW k \in Nat, k > 0,
         f * k <= n
  PROVE  (f \div p) * k <= (n - f) \div p + f \div p
<1> DEFINE q == f \div p
<1>1. q \in Nat /\ q * p <= f
  BY FloorBounds
<1>2. f <= n /\ f * (k - 1) <= n - f /\ k - 1 \in Nat
  <2>1. f * k = f * (k - 1) + f
    OBVIOUS
  <2>2. f * (k - 1) \in Nat
    BY MulNat
  <2> QED BY <2>1, <2>2
<1>3. (q * p) * (k - 1) <= f * (k - 1)
  BY <1>1, <1>2, MulNat, MulMono
<1>4. (q * p) * (k - 1) = (q * (k - 1)) * p
  BY <1>1, <1>2
<1>5. q * (k - 1) \in Nat /\ (q * (k - 1)) * p <= n - f /\ n - f \in Nat
  BY <1>1, <1>2, <1>3, <1>4, MulNat
<1>6. q * (k - 1) <= (n - f) \div p
  BY <1>5, FloorAtLeast
<1>7. q * k = q * (k - 1) + q
  BY <1>1, <1>2
<1>8. (n - f) \div p \in Nat
  BY <1>5, FloorBounds
<1> QED BY <1>1, <1>5, <1>6, <1>7, <1>8

LEMMA ConvexWithinRates ==
  ASSUME FarmOK, kind = "convex", ConvexFeeDivides, kind \in Kinds, NEW t \in Tokens
  PROVE  WithinRates(ConvexShared(t))
<1> DEFINE n == ConvexHarvested(t) - Fee(CompoundRate, ConvexHarvested(t))
           f == Fee(GovernanceFee, n)
<1>1. n \in Nat
  BY ConvexParts
<1>2. f \in Nat /\ f * MaxFee <= GovernanceFee * n /\ f <= n
  BY <1>1, RatesFit, FeeBounds
<1>3. Fee(StrategistRate, n) = 0
  <2>1. StrategistRate = 0
    BY DEF StrategistRate
  <2>2. 0 \in 0..MaxFee
    BY RatesNatural
  <2>3. Fee(0, n) \in Nat /\ Fee(0, n) * MaxFee <= 0 * n
    BY <1>1, <2>2, FeeBounds
  <2>4. Fee(0, n) * MaxFee <= 0 * MaxFee
    BY <1>1, <2>3, RatesNatural
  <2>5. Fee(0, n) <= 0
    BY <2>3, <2>4, RatesNatural, MulCancel
  <2> QED BY <2>1, <2>3, <2>5
<1>4. /\ Shared(n) \in [Payees -> Nat]
      /\ Shared(n)["tree"] = n - f /\ Shared(n)["rewards"] = f /\ Shared(n)["strategist"] = 0
  <2>1. Shared(n)["tree"] \in Nat
    BY <1>1, SharedParts DEF Payees
  <2> QED BY <1>1, <1>2, <1>3, <2>1, SharedParts
<1>5. price \in Nat /\ price > 0
  BY DEF FarmOK
<1>6. ConvexShared(t) = [p \in Payees |-> Shared(n)[p] \div price]
  BY DEF ConvexShared, SharesOf
<1> HIDE DEF n, f
<1> DEFINE tree == (n - f) \div price
           gov  == f \div price
<1>7. 0 \div price = 0
  BY <1>5, FloorUnique
<1>8. /\ ConvexShared(t)["tree"] = tree /\ ConvexShared(t)["rewards"] = gov
      /\ ConvexShared(t)["strategist"] = 0
  BY <1>4, <1>6, <1>7 DEF Payees
<1>9. tree \in Nat /\ gov \in Nat
  BY <1>1, <1>2, <1>5, FloorBounds
<1>10. gov * MaxFee <= GovernanceFee * (tree + gov)
  <2>1. CASE GovernanceFee = 0
    <3>1. f * MaxFee <= 0 * MaxFee
      BY <1>1, <1>2, <2>1, RatesNatural
    <3>2. f <= 0
      BY <1>2, <3>1, RatesNatural, MulCancel
    <3>3. gov = 0
      BY <1>2, <1>7, <3>2
    <3> QED BY <1>9, <2>1, <3>3, RatesNatural
  <2>2. CASE GovernanceFee > 0
    <3>1. PICK k \in Nat : MaxFee = k * GovernanceFee
      BY <2>2 DEF ConvexFeeDivides
    <3>2. k > 0
      <4>1. CASE k = 0
        BY <3>1, <4>1, RatesNatural
      <4> QED BY <4>1
    <3>3. (f * k) * GovernanceFee <= n * GovernanceFee
      BY <1>1, <1>2, <3>1, RatesNatural
    <3>4. f * k <= n
      BY <1>1, <1>2, <2>2, <3>3, RatesNatural, MulNat, MulCancel
    <3>5. gov * k <= tree + gov
      BY <1>1, <1>2, <1>5, <3>2, <3>4, UnitFeeInShares
    <3>6. gov * k \in Nat /\ tree + gov \in Nat
      BY <1>9, MulNat
    <3> HIDE DEF tree, gov
    <3>7. GovernanceFee * (gov * k) <= GovernanceFee * (tree + gov)
      BY <3>5, <3>6, RatesNatural, MulMono
    <3>8. gov * MaxFee = GovernanceFee * (gov * k)
      BY <1>9, <3>1, RatesNatural
    <3> QED BY <3>7, <3>8
  <2> QED BY <2>1, <2>2, RatesNatural
<1>11. 0 * MaxFee <= StrategistFee * (tree + gov + 0)
  BY <1>9, RatesNatural, MulNat
<1> HIDE DEF tree, gov
<1>12. tree + gov + 0 = tree + gov
  BY <1>9
<1> QED BY <1>8, <1>10, <1>11, <1>12 DEF WithinRates

TakesFees == kind \in {"sushi", "farm", "convex"}

FeesInv ==
  /\ SimOK
  /\ kind \in Kinds
  /\ TakesFees /\ result # "exited" => \A t \in Tokens : WithinRates(got[t])

LEMMA HarvestWithinRates ==
  ASSUME ConvexFeeDivides, FarmOK, kind \in Kinds, TakesFees, FarmHarvest,
         \A t \in Tokens : WithinRates(got[t])
  PROVE  \A t \in Tokens : WithinRates(got'[t])
<1>0. got \in [Tokens -> [Payees -> Nat]]
  BY DEF FarmOK
<1>1. CASE kind = "sushi"
  <2> DEFINE n == parked["main"] + SharesOf(idle["main"] + pending)
  <2>1. n \in Nat
    BY RewardsNat, SharesOfNat
  <2>2. got' = Paid(got, "main", Shared(n))
    BY <1>1 DEF FarmHarvest, HarvestSushi, HarvestFarm, HarvestConvex, HarvestHelper,
                HarvestCurve, HarvestPancake, HarvestBadgerLp, HarvestDiggLp, HarvestUni
  <2> HIDE DEF n
  <2> QED BY <1>0, <2>1, <2>2, SharedParts, SharedWithinRates, PaidWithinRates, TokenCases
<1>2. CASE kind = "farm"
  <2> DEFINE n == parked["main"] + idle["main"] + pending
  <2>1. n \in Nat
    BY RewardsNat
  <2>2. got' = Paid(got, "main", Shared(n))
    BY <1>2 DEF FarmHarvest, HarvestSushi, HarvestFarm, HarvestConvex, HarvestHelper,
                HarvestCurve, HarvestPancake, HarvestBadgerLp, HarvestDiggLp, HarvestUni
  <2> HIDE DEF n
  <2> QED BY <1>0, <2>1, <2>2, SharedParts, SharedWithinRates, PaidWithinRates, TokenCases
<1>3. CASE kind = "convex"
  <2> DEFINE first == Paid(got, "main", ConvexShared("main"))
  <2>1. got' = Paid(first, "side", ConvexShared("side"))
    BY <1>3 DEF FarmHarvest, HarvestSushi, HarvestFarm, HarvestConvex, HarvestHelper,
                HarvestCurve, HarvestPancake, HarvestBadgerLp, HarvestDiggLp, HarvestUni
  <2>2. \A t \in Tokens : ConvexShared(t) \in [Payees -> Nat] /\ WithinRates(ConvexShared(t))
    BY <1>3, ConvexParts, ConvexWithinRates
  <2>3. first \in [Tokens -> [Payees -> Nat]] /\ \A t \in Tokens : WithinRates(first[t])
    BY <1>0, <2>2, PaidIs, PaidWithinRates, TokenCases
  <2> HIDE DEF first
  <2> QED BY <2>1, <2>2, <2>3, PaidWithinRates, TokenCases
<1> QED BY <1>1, <1>2, <1>3 DEF TakesFees

LEMMA FeesInvStep ==
  ASSUME ConvexFeeDivides
  PROVE  FeesInv /\ [SimNext]_simVars => FeesInv'
<1> SUFFICES ASSUME FeesInv, [SimNext]_simVars PROVE FeesInv'
  OBVIOUS
<1>0. SimOK /\ SimOK' /\ kind \in Kinds /\ FarmOK
  BY SimStepOK, SimStutterOK DEF FeesInv, SimOK
<1>1. CASE UNCHANGED simVars
  BY <1>0, <1>1 DEF FeesInv, TakesFees, simVars, farmVars
<1>2. CASE (UNCHANGED farmVars \/ Touch) /\ result = "ok"
  BY <1>0, <1>2, TouchKeeps DEF FeesInv, TakesFees
<1>3. CASE KeeperHarvests
  <2>1. FarmHarvest /\ result = "ok" /\ kind' = kind
    BY <1>3 DEF KeeperHarvests, Between, Ready, FarmHarvest, farmVars, fixed
  <2> QED BY <1>0, <2>1, HarvestWithinRates DEF FeesInv, TakesFees
<1>4. CASE KeeperTends
  <2>1. UNCHANGED <<kind, got>> /\ result = "ok"
    BY <1>4 DEF KeeperTends, Between, Ready, FarmTend, fixed
  <2> QED BY <1>0, <2>1 DEF FeesInv, TakesFees
<1>5. CASE Sleep
  <2>1. UNCHANGED <<kind, got>> /\ result' = result
    BY <1>5 DEF Sleep, AccrueReward, farmVars, fixed
  <2> QED BY <1>0, <2>1 DEF FeesInv, TakesFees
<1>6. CASE Mine
  BY <1>0, <1>6 DEF FeesInv, TakesFees, Mine, farmVars
<1>7. CASE Migrates
  <2>1. kind' = kind /\ result' = "exited"
    BY <1>7 DEF Migrates, FarmExit, farmVars, fixed
  <2> QED BY <1>0, <2>1 DEF FeesInv
<1> QED BY <1>0, <1>1, <1>2, <1>3, <1>4, <1>5, <1>6, <1>7, StepKinds

(* However often and in whatever order the keeper tends and harvests,        *)
(* neither governance nor the strategist is paid more than its rate of all   *)
(* the rewards paid out, in each token.                                      *)
THEOREM FeesAlwaysTakenOnce ==
  ASSUME ConvexFeeDivides
  PROVE  SimSpec => []FeesAreTakenOnce
<1>1. SimInit => FeesInv
  <2> SUFFICES ASSUME SimInit PROVE FeesInv
    OBVIOUS
  <2>1. kind \in Kinds /\ got = [t \in Tokens |-> [p \in Payees |-> 0]]
    BY DEF SimInit, FarmInit
  <2>2. \A t \in Tokens : got[t]["tree"] = 0 /\ got[t]["rewards"] = 0 /\ got[t]["strategist"] = 0
    BY <2>1 DEF Payees
  <2>3. \A t \in Tokens : WithinRates(got[t])
    BY <2>2, RatesNatural DEF WithinRates
  <2> QED BY <2>1, <2>3, SimInitOK DEF FeesInv
<1>2. FeesInv => FeesAreTakenOnce
  BY DEF FeesInv, FeesAreTakenOnce, TakesFees, WithinRates
<1> QED BY <1>1, <1>2, FeesInvStep, PTL DEF SimSpec

-----------------------------------------------------------------------------
(* The assertions of the resolvers *)

(* The Sett moves at least half of what it holds to work (9500 of 10000 when *)
(* it is initialized): with more than one want there is something to move.   *)
EarnsSomething == \A m \in Mins : 2 * m >= MaxFee

(* Where the want is between two transactions: a deposit, a harvest and a    *)
(* withdrawal leave none idle in the strategy.                               *)
LEMMA Places ==
  ASSUME SimOK, want[strategy] = 0
  PROVE  /\ want[Sett] \in Nat /\ staked[strategy] \in Nat /\ supply \in Nat
         /\ Balance = want[Sett] + staked[strategy] /\ Balance \in Nat
         /\ StrategyBalance(strategy) = staked[strategy]
         /\ HasPool => BalanceOfWant = 0 /\ BalanceOfPool = staked[strategy]
         /\ ~HasPool => BalanceOfWant = staked[strategy] /\ BalanceOfPool = 0
<1>1. want[Sett] \in Nat /\ staked[strategy] \in Nat /\ supply \in Nat
  BY HolderFacts DEF SimOK, TypeOK
<1>2. strategy # NoStrategy
  BY SettAssumption DEF SimOK
<1>3. StrategyBalance(strategy) = staked[strategy]
  BY <1>1 DEF StrategyBalance
<1>4. Balance = want[Sett] + staked[strategy]
  BY <1>2, <1>3 DEF Balance
<1>5. Balance \in Nat
  BY <1>1, <1>4
<1> QED BY <1>1, <1>3, <1>4, <1>5 DEF BalanceOfWant, BalanceOfPool

LEMMA PlacesNext ==
  ASSUME SimOK', want'[strategy'] = 0
  PROVE  /\ want'[Sett] \in Nat /\ staked'[strategy'] \in Nat /\ supply' \in Nat
         /\ Balance' = want'[Sett] + staked'[strategy'] /\ Balance' \in Nat
         /\ StrategyBalance(strategy)' = staked'[strategy']
         /\ HasPool' => BalanceOfWant' = 0 /\ BalanceOfPool' = staked'[strategy']
         /\ ~HasPool' => BalanceOfWant' = staked'[strategy'] /\ BalanceOfPool' = 0
<1>1. want'[Sett] \in Nat /\ staked'[strategy'] \in Nat /\ supply' \in Nat
  BY HolderFacts DEF SimOK, TypeOK
<1>2. strategy' # NoStrategy
  BY SettAssumption DEF SimOK
<1>3. StrategyBalance(strategy)' = staked'[strategy']
  BY <1>1 DEF StrategyBalance
<1>4. Balance' = want'[Sett] + staked'[strategy']
  BY <1>2, <1>1 DEF Balance, StrategyBalance
<1>5. Balance' \in Nat
  BY <1>1, <1>4
<1> QED BY <1>1, <1>3, <1>4, <1>5 DEF BalanceOfWant, BalanceOfPool

LEMMA StrategyApart ==
  ASSUME SimOK
  PROVE  /\ strategy \in Holders /\ strategy # Sett /\ strategy # Rewards
         /\ \A u \in Users : u # strategy /\ u # Sett /\ u # Rewards /\ u \in Holders
         /\ Sett # Rewards /\ Sett \in Holders /\ Rewards \in Holders
         /\ want \in [Holders -> Nat] /\ staked \in [Strategies -> Nat]
         /\ strategy \in Strategies /\ strategy # NoStrategy
BY HolderFacts, SettAssumption DEF SimOK, TypeOK, Contract

(* A figure that is off by less than one is approximately right.             *)
LEMMA ApproxCut ==
  ASSUME NEW actual \in Nat, NEW num \in Int, NEW den \in Nat, den > 0,
         num - den < actual * den, actual * den < num + den
  PROVE  Approx(actual, num, den)
<1> DEFINE x == IF actual * den >= num THEN actual * den - num ELSE num - actual * den
<1>1. actual * den \in Nat
  BY MulNat
<1>2. x \in Nat /\ x < den
  BY <1>1
<1> HIDE DEF x
<1>3. x \div den = 0
  BY <1>2, FloorUnique
<1> QED BY <1>3 DEF Approx, x

LEMMA ApproxSame ==
  ASSUME NEW actual \in Nat
  PROVE  Approx(actual, actual, 1)
<1> DEFINE one == 1
<1>1. one \in Nat /\ one > 0 /\ actual - one < actual * one /\ actual * one < actual + one
  OBVIOUS
<1> HIDE DEF one
<1>2. Approx(actual, actual, one)
  BY <1>1, ApproxCut
<1> QED BY <1>2 DEF one

-----------------------------------------------------------------------------
(* Deposits *)

(* What SharesFor leaves over is less than a share's worth.                  *)
LEMMA SharesForCut ==
  ASSUME TypeOK, NEW a \in Nat, supply > 0, Balance > 0
  PROVE  /\ SharesFor(a) \in Nat /\ SharesFor(a) * Balance <= a * supply
         /\ a * supply < SharesFor(a) * Balance + Balance
<1>1. a * supply \in Nat /\ Balance \in Nat
  BY BalanceNat, MulNat DEF TypeOK
<1> QED BY <1>1, FloorBounds DEF SharesFor

LEMMA DepositOutcome ==
  ASSUME SimOK, SharesBacked, want[strategy] = 0, NEW u \in Users, NEW a \in Nat, a <= want[u],
         DepositFor(u, u, a), SimOK'
  PROVE  /\ want'[Sett] = want[Sett] + a /\ want'[u] = want[u] - a
         /\ want'[strategy] = 0 /\ strategy' = strategy
         /\ SharesFor(a) \in Nat
         /\ supply' = supply + SharesFor(a) /\ shares'[u] = shares[u] + SharesFor(a)
         /\ Balance' = Balance + a /\ SharesBacked'
<1>1. /\ want' = Move(u, Sett, a) /\ UNCHANGED strategy
      /\ shares' = [shares EXCEPT ![u] = @ + SharesFor(a)] /\ supply' = supply + SharesFor(a)
  BY DEF DepositFor, config
<1>2. want'[Sett] = want[Sett] + a /\ want'[u] = want[u] - a /\ want'[strategy] = 0
  BY <1>1, StrategyApart DEF Move
<1>3. SharesFor(a) \in Nat /\ VN!Mint(u, a, SharesFor(a))
  BY DepositIsMint DEF SimOK
<1>4. shares'[u] = shares[u] + SharesFor(a)
  BY <1>1 DEF SimOK, TypeOK
<1>5. VN!TypeOK /\ VN!Backed
  BY BalanceNat DEF VN!TypeOK, VN!Backed, SimOK, TypeOK, SharesBacked
<1>6. VN!Backed'
  BY <1>3, <1>5, MintKeeps
<1>7. Balance' = Balance + a
  BY <1>3 DEF VN!Mint
<1> QED BY <1>1, <1>2, <1>3, <1>4, <1>6, <1>7 DEF VN!Backed, SharesBacked

LEMMA DepositAlwaysConfirmed ==
  ASSUME SimOK, SharesBacked, want[strategy] = 0, NEW u \in Users, NEW a \in Nat, a <= want[u],
         DepositFor(u, u, a), SimOK'
  PROVE  DepositConfirmed(u, a)
<1> DEFINE n == IF supply = 0 THEN a ELSE a * supply
           d == IF supply = 0 THEN 1 ELSE Balance
           q == SharesFor(a)
<1>1. /\ supply \in Nat /\ Balance \in Nat /\ shares[u] \in Nat /\ want[Sett] \in Nat
      /\ want[u] \in Nat
  BY BalanceNat, StrategyApart DEF SimOK, TypeOK
<1>2. supply > 0 => Balance > 0
  BY DEF DepositFor
<1>3. n \in Nat /\ d \in Nat /\ d > 0
  BY <1>1, <1>2, MulNat
<1>4. q \in Nat /\ q * d <= n /\ n < q * d + d
  <2>1. CASE supply = 0
    BY <2>1 DEF SharesFor
  <2>2. CASE supply > 0
    BY <1>2, <2>2, SharesForCut DEF SimOK
  <2> QED BY <1>1, <2>1, <2>2
<1> HIDE DEF n, d, q
<1>5. ASSUME NEW x \in Nat PROVE Approx(x + q, x * d + n, d)
  <2>1. (x + q) * d = x * d + q * d /\ x * d \in Nat /\ q * d \in Nat
    BY <1>3, <1>4, MulNat
  <2>2. x * d + n - d < (x + q) * d /\ (x + q) * d < x * d + n + d
    BY <1>3, <1>4, <2>1
  <2>3. x + q \in Nat /\ x * d + n \in Int
    BY <1>3, <1>4, <2>1
  <2> DEFINE y == x + q
             m == x * d + n
  <2>4. y \in Nat /\ m \in Int /\ m - d < y * d /\ y * d < m + d
    BY <1>3, <1>4, <2>2, <2>3
  <2> HIDE DEF y, m
  <2>5. Approx(y, m, d)
    BY <1>3, <2>4, ApproxCut
  <2> QED BY <2>5 DEF y, m
<1>6. /\ want'[Sett] = want[Sett] + a /\ want'[u] = want[u] - a
      /\ supply' = supply + q /\ shares'[u] = shares[u] + q
  BY DepositOutcome DEF q
<1>7. Approx(supply', supply * d + n, d) /\ Approx(shares'[u], shares[u] * d + n, d)
  BY <1>1, <1>5, <1>6
<1>8. want[Sett] + a \in Nat /\ want[u] - a \in Nat
  BY <1>1
<1>9. Approx(SettBalance', SettBalance + a, 1) /\ Approx(want'[u], want[u] - a, 1)
  BY <1>6, <1>8, ApproxSame DEF SettBalance
<1> QED BY <1>7, <1>9 DEF DepositConfirmed, n, d

-----------------------------------------------------------------------------
(* Withdrawals *)

WithdrawEffect(u, n, due) ==
  /\ strategy' = strategy /\ kind' = kind /\ min' = min
  /\ supply' = supply - n /\ shares'[u] = shares[u] - n /\ want'[strategy] = 0
  /\ IF due <= want[Sett]
     THEN /\ want'[Sett] = want[Sett] - due /\ staked'[strategy] = staked[strategy]
          /\ want'[u] = want[u] + due
     ELSE /\ want'[Sett] = 0 /\ staked'[strategy] = staked[strategy] - (due - want[Sett])
          /\ want'[u] >= want[u] + want[Sett]
  /\ want'[Rewards] >= want[Rewards]
  /\ Balance' = Balance - due /\ SharesBacked'

LEMMA ProRataCut ==
  ASSUME SimOK, SharesBacked, supply > 0, NEW n \in Nat, n <= supply
  PROVE  /\ ProRata(n) \in Nat /\ ProRata(n) <= Balance /\ n <= ProRata(n)
         /\ ProRata(n) * supply <= n * Balance /\ n * Balance < ProRata(n) * supply + supply
<1>1. Balance \in Nat /\ supply \in Nat /\ supply <= Balance
  BY BalanceNat DEF SimOK, TypeOK, SharesBacked
<1>2. Balance * n \in Nat /\ Balance * n = n * Balance
  BY <1>1, MulNat
<1>3. /\ ProRata(n) \in Nat /\ ProRata(n) * supply <= n * Balance
      /\ n * Balance < ProRata(n) * supply + supply
  BY <1>1, <1>2, FloorBounds DEF ProRata
<1>4. n * supply <= Balance * n
  BY <1>1, <1>2, MulMono
<1>5. n <= ProRata(n)
  BY <1>1, <1>2, <1>4, FloorAtLeast DEF ProRata
<1>6. ProRata(n) <= Balance
  BY <1>1, <1>3, RedeemedPart
<1> QED BY <1>3, <1>5, <1>6

LEMMA WithdrawOutcome ==
  ASSUME SimOK, SharesBacked, want[strategy] = 0, NEW u \in Users, NEW n \in Nat,
         SettWithdraw(u, n)
  PROVE  /\ supply > 0 /\ n <= supply /\ n <= shares[u]
         /\ WithdrawEffect(u, n, ProRata(n))
<1> DEFINE due == ProRata(n)
<1>1. WithdrawGuard(u, n) /\ Burn(u, n)
  BY DEF SettWithdraw, FarmWithdraw, WithdrawIdle, WithdrawUnrolling
<1>2. supply > 0 /\ n <= supply /\ n <= shares[u]
  BY <1>1 DEF WithdrawGuard
<1>3. due \in Nat /\ due <= Balance
  BY <1>2, ProRataCut
<1>4. supply' = supply - n /\ shares'[u] = shares[u] - n
  BY <1>1 DEF Burn, SimOK, TypeOK
<1>5. kind' = kind /\ strategy' = strategy /\ min' = min
  <2>1. UNCHANGED config /\ (UNCHANGED farmVars \/ Touch)
    BY WithdrawStepOK
  <2> QED BY <2>1, TouchKeeps DEF SimOK, config
<1>6. VN!Redeem(u, n, due)
  <2>1. CASE WithdrawIdle(u, n)
    BY <2>1, WithdrawIdleIsRedeem DEF SimOK
  <2>2. CASE WithdrawUnrolling(u, n, 0)
    <3>1. 0 \in 0..PartialSlip
      BY SettAssumption
    <3> QED BY <2>2, <3>1, WithdrawUnrollingIsRedeem DEF SimOK
  <2> QED BY <2>1, <2>2 DEF SettWithdraw, FarmWithdraw
<1>7. VN!TypeOK /\ VN!Backed
  BY BalanceNat DEF VN!TypeOK, VN!Backed, SimOK, TypeOK, SharesBacked
<1>8. VN!Backed'
  BY <1>3, <1>6, <1>7, RedeemKeeps
<1>9. Balance' = Balance - due /\ SharesBacked'
  BY <1>6, <1>8 DEF VN!Redeem, VN!Backed, SharesBacked
<1>10. /\ want[Sett] \in Nat /\ want[Rewards] \in Nat /\ want[u] \in Nat
       /\ staked[strategy] \in Nat
  BY StrategyApart
<1>11. CASE WithdrawIdle(u, n)
  <2>1. due <= want[Sett] /\ want' = Move(Sett, u, due) /\ staked' = staked
    BY <1>11 DEF WithdrawIdle
  <2> HIDE DEF due
  <2>2. /\ want'[Sett] = want[Sett] - due /\ want'[u] = want[u] + due
        /\ want'[strategy] = 0 /\ want'[Rewards] = want[Rewards]
    BY <1>3, <2>1, StrategyApart DEF Move
  <2> QED BY <1>2, <1>4, <1>5, <1>9, <1>10, <2>1, <2>2 DEF WithdrawEffect, due
<1>12. CASE WithdrawUnrolling(u, n, 0)
  <2> DEFINE amount == due - want[Sett]
             fee    == FeeOn(amount)
  <2>1. due > want[Sett] /\ StrategyWithdrawGuard(amount, 0)
    BY <1>3, <1>10, <1>12 DEF WithdrawUnrolling
  <2>2. amount \in Nat /\ amount > 0
    BY <1>3, <1>10, <2>1
  <2>3. Recovered(amount, 0) = amount /\ Unstaked(amount) = amount
    BY <2>2 DEF Recovered, Unstaked
  <2>4. fee \in Nat /\ fee <= amount
    <3>1. 0 \in Nat
      OBVIOUS
    <3> QED BY <2>1, <2>2, <2>3, <3>1, UnrollBounds DEF SimOK
  <2>5. /\ staked' = [staked EXCEPT ![strategy] = @ - amount]
        /\ want' = [want EXCEPT ![strategy] = @ + amount - 0 - amount,
                                ![Rewards]  = @ + fee,
                                ![Sett]     = 0,
                                ![u]        = @ + want[Sett] + amount - fee]
    BY <1>12, <2>3 DEF WithdrawUnrolling
  <2> HIDE DEF amount, fee
  <2>6. /\ want'[strategy] = want[strategy] + amount - 0 - amount
        /\ want'[Rewards] = want[Rewards] + fee /\ want'[Sett] = 0
        /\ want'[u] = want[u] + want[Sett] + amount - fee
        /\ staked'[strategy] = staked[strategy] - amount
    BY <2>5, StrategyApart
  <2>7. want'[strategy] = 0 /\ want'[Rewards] >= want[Rewards] /\ want'[u] >= want[u] + want[Sett]
    BY <1>10, <2>2, <2>4, <2>6
  <2>8. staked'[strategy] = staked[strategy] - (due - want[Sett])
    BY <2>6 DEF amount
  <2>9. ~(due <= want[Sett])
    BY <1>3, <1>10, <2>1
  <2> HIDE DEF due
  <2> QED BY <1>2, <1>4, <1>5, <1>9, <2>6, <2>7, <2>8, <2>9 DEF WithdrawEffect, due
<1> QED BY <1>11, <1>12 DEF SettWithdraw, FarmWithdraw

(* What is due from the pool, and what left it                               *)
LEMMA PoolPaysItsPart ==
  ASSUME SimOK, SharesBacked, want[strategy] = 0, NEW n \in Nat, supply > 0, n <= supply,
         HasPool, DueFromPool(n) > 0, NEW left \in Nat,
         left = IF ProRata(n) <= want[Sett] THEN staked[strategy]
                ELSE staked[strategy] - (ProRata(n) - want[Sett])
  PROVE  /\ DueFromPool(n) <= BalanceOfPool * supply
         /\ Approx(BalanceOfPool, left * supply + DueFromPool(n), supply)
<1> DEFINE w == want[Sett]
           p == staked[strategy]
           r == ProRata(n)
           b == n * Balance
<1>1. w \in Nat /\ p \in Nat /\ supply \in Nat /\ Balance = w + p /\ BalanceOfPool = p
  BY Places
<1>2. r \in Nat /\ r * supply <= b /\ b < r * supply + supply
  BY ProRataCut
<1>3. b \in Nat /\ w * supply \in Nat /\ p * supply \in Nat /\ r * supply \in Nat
  BY <1>1, <1>2, MulNat
<1>4. DueFromPool(n) = b - w * supply
  BY <1>1, Places DEF DueFromPool, SettBalance
<1>5. b <= w * supply + p * supply
  <2>1. n * Balance <= supply * Balance
    BY <1>1, MulMono
  <2>2. supply * Balance = w * supply + p * supply
    BY <1>1
  <2> QED BY <2>1, <2>2
<1>6. DueFromPool(n) <= BalanceOfPool * supply
  BY <1>1, <1>3, <1>4, <1>5
<1>7. left * supply = IF r <= w THEN p * supply ELSE p * supply - (r * supply - w * supply)
  BY <1>1, <1>2
<1>8. r <= w => r * supply <= w * supply
  BY <1>1, <1>2, MulMono
<1> HIDE DEF w, p, r, b
<1> DEFINE m == left * supply + DueFromPool(n)
<1>9. m \in Int /\ m - supply < p * supply /\ p * supply < m + supply
  BY <1>1, <1>2, <1>3, <1>4, <1>7, <1>8
<1> HIDE DEF m
<1>10. Approx(p, m, supply)
  BY <1>1, <1>9, ApproxCut
<1> QED BY <1>1, <1>6, <1>10 DEF m

(* The assertions of a withdrawal hold, but for that of the fee, of want     *)
(* kept in the strategy.                                                     *)
LEMMA WithdrawAlwaysConfirmed ==
  ASSUME SimOK, SimOK', SharesBacked, want[strategy] = 0, NEW u \in Users, NEW n \in Nat,
         SettWithdraw(u, n)
  PROVE  WithdrawConfirmed(u, n) \/ (~HasPool /\ want'[Rewards] = want[Rewards])
<1> SUFFICES ASSUME HasPool \/ want'[Rewards] # want[Rewards]
             PROVE  WithdrawConfirmed(u, n)
  OBVIOUS
<1> DEFINE due == ProRata(n)
<1>1. supply > 0 /\ n <= supply /\ n <= shares[u] /\ WithdrawEffect(u, n, due)
  BY WithdrawOutcome
<1>2. /\ due \in Nat /\ due <= Balance /\ n <= due
  BY <1>1, ProRataCut
<1>3. /\ want[Sett] \in Nat /\ staked[strategy] \in Nat /\ supply \in Nat
      /\ shares[u] \in Nat /\ want[Rewards] \in Nat /\ want'[Rewards] \in Nat
      /\ want'[Sett] \in Nat /\ staked'[strategy] \in Nat
  BY <1>1, Places, PlacesNext, StrategyApart, HolderFacts DEF SimOK, TypeOK, WithdrawEffect
<1>4. CASE n = 0
  BY <1>1, <1>3, <1>4 DEF WithdrawConfirmed, WithdrawEffect
<1>5. CASE n > 0
  <2>1. supply' < supply /\ shares'[u] < shares[u] /\ due > 0
    BY <1>1, <1>2, <1>3, <1>5 DEF WithdrawEffect
  <2>2. want'[Sett] <= want[Sett] /\ (want[Sett] > 0 => want'[Sett] < want[Sett])
    BY <1>1, <1>2, <1>3, <2>1 DEF WithdrawEffect
  <2>3. Available' <= Available
    <3>1. min \in Nat /\ min' = min /\ MaxFee \in Nat /\ MaxFee > 0
      BY <1>1, SettAssumption DEF WithdrawEffect, SimOK, TypeOK
    <3>2. want'[Sett] * min <= want[Sett] * min
      BY <1>3, <2>2, <3>1, MulMono
    <3>3. want'[Sett] * min \in Nat /\ want[Sett] * min \in Nat
      BY <1>3, <3>1, MulNat
    <3> QED BY <3>1, <3>2, <3>3, FloorMono DEF Available
  <2>4. HasPool' = HasPool
    BY <1>1 DEF WithdrawEffect, HasPool
  <2>5. /\ HasPool => BalanceOfWant' = 0 /\ BalanceOfPool' = staked'[strategy]
        /\ ~HasPool => BalanceOfWant' = staked'[strategy] /\ BalanceOfPool' = 0
    BY <1>1, <2>4, PlacesNext DEF WithdrawEffect
  <2>6. /\ HasPool => BalanceOfWant = 0 /\ BalanceOfPool = staked[strategy]
        /\ ~HasPool => BalanceOfWant = staked[strategy] /\ BalanceOfPool = 0
        /\ Balance = want[Sett] + staked[strategy]
    BY Places
  <2>7. (n > SettBalance /\ DueFromPool(n) > 0) =>
            /\ DueFromPool(n) <= BalanceOfPool * supply
            /\ Approx(BalanceOfPool, BalanceOfPool' * supply + DueFromPool(n), supply)
    <3>1. CASE HasPool
      BY <1>1, <1>3, <2>5, <3>1, PoolPaysItsPart DEF WithdrawEffect
    <3>2. CASE ~HasPool
      <4>1. DueFromPool(n) = n * Balance - Balance * supply
        BY <2>6, <3>2 DEF DueFromPool, SettBalance
      <4>2. n * Balance <= supply * Balance
        BY <1>1, <1>3, BalanceNat, MulMono DEF SimOK
      <4>3. DueFromPool(n) <= 0
        BY <1>3, <4>1, <4>2, BalanceNat DEF SimOK
      <4>4. DueFromPool(n) \in Int
        BY <1>3, <4>1, BalanceNat DEF SimOK
      <4> QED BY <4>3, <4>4
    <3> QED BY <3>1, <3>2
  <2>8. BalanceOfWant + SettBalance > 0 =>
          BalanceOfWant' + SettBalance' < BalanceOfWant + SettBalance
    BY <1>1, <1>2, <1>3, <2>1, <2>5, <2>6 DEF WithdrawEffect, SettBalance
  <2>9. (withdrawalFee[strategy] > 0 /\ BalanceOfWant > BalanceOfWant') =>
          want'[Rewards] > want[Rewards]
    BY <1>1, <1>3, <2>5, <2>6 DEF WithdrawEffect
  <2> QED BY <1>5, <2>1, <2>2, <2>3, <2>7, <2>8, <2>9 DEF WithdrawConfirmed, SettBalance
<1> QED BY <1>4, <1>5

-----------------------------------------------------------------------------
(* Earning, tending and harvesting *)

LEMMA EarnAlwaysConfirmed ==
  ASSUME EarnsSomething, SimOK, SimOK', want[strategy] = 0, FarmEarn
  PROVE  EarnConfirmed /\ want'[strategy'] = 0 /\ Balance' = Balance
<1>1. /\ strategy' = strategy /\ kind' = kind
      /\ DepositToStrategy(Sett, strategy, Available)
  <2>1. Earn /\ (UNCHANGED farmVars \/ Touch)
    BY DEF FarmEarn
  <2>2. kind' = kind
    BY <2>1, TouchKeeps DEF SimOK
  <2> QED BY <2>1, <2>2 DEF Earn, config
<1>2. Available \in Nat /\ want[Sett] \in Nat /\ staked[strategy] \in Nat
  BY BalanceNat, Places DEF SimOK
<1>3. /\ want'[Sett] = want[Sett] - Available /\ want'[strategy] = 0
      /\ staked'[strategy] = staked[strategy] + Available
  BY <1>1, <1>2, StrategyApart DEF DepositToStrategy
<1>4. want[Sett] > 1 => Available > 0
  <2>1. min \in Nat /\ 2 * min >= MaxFee /\ MaxFee \in Nat /\ MaxFee > 0
    BY SettAssumption DEF EarnsSomething, SimOK, TypeOK
  <2>2. ASSUME want[Sett] > 1 PROVE Available > 0
    <3>1. 2 * min <= want[Sett] * min
      BY <1>2, <2>1, <2>2, MulMono
    <3>2. want[Sett] * min \in Nat /\ 1 * MaxFee <= want[Sett] * min
      BY <1>2, <2>1, <3>1, MulNat
    <3>3. 1 <= (want[Sett] * min) \div MaxFee
      BY <2>1, <3>2, FloorAtLeast
    <3> QED BY <1>2, <3>3 DEF Available
  <2> QED BY <2>2
<1>5. HasPool' = HasPool
  BY <1>1 DEF HasPool
<1>6. /\ HasPool => BalanceOfWant' = 0 /\ BalanceOfPool' = staked'[strategy]
      /\ ~HasPool => BalanceOfWant' = staked'[strategy] /\ BalanceOfPool' = 0
      /\ StrategyBalance(strategy)' = staked'[strategy]
      /\ Balance' = want'[Sett] + staked'[strategy]
  BY <1>1, <1>3, <1>5, PlacesNext
<1>7. /\ HasPool => BalanceOfWant = 0 /\ BalanceOfPool = staked[strategy]
      /\ ~HasPool => BalanceOfWant = staked[strategy] /\ BalanceOfPool = 0
      /\ StrategyBalance(strategy) = staked[strategy]
      /\ Balance = want[Sett] + staked[strategy]
  BY Places
<1>8. Balance' = Balance
  BY <1>2, <1>3, <1>6, <1>7
<1>9. EarnConfirmed
  BY <1>2, <1>3, <1>4, <1>6, <1>7 DEF EarnConfirmed, SettBalance
<1> QED BY <1>1, <1>3, <1>8, <1>9

LEMMA TendAlwaysConfirmed ==
  ASSUME FarmOK, kind = "convex" => idle["side"] = 0, FarmTend
  PROVE  TendConfirmed \/ (kind = "sushi" /\ idle["main"] + pending < price)
<1>1. /\ idle["main"] \in Nat /\ parked["main"] \in Nat /\ parked["side"] \in Nat
      /\ pending \in Nat /\ parked \in [Tokens -> Nat] /\ "main" \in Tokens
      /\ price \in Nat /\ price > 0
  BY RewardsNat, TokenCases DEF FarmOK
<1>2. CASE TendSushi
  <2> DEFINE n == idle["main"] + pending
  <2>1. kind = "sushi" /\ parked'["main"] = parked["main"] + SharesOf(n)
    BY <1>1, <1>2 DEF TendSushi
  <2>2. n \in Nat
    BY <1>1
  <2>3. SharesOf(n) \in Nat
    BY <2>2, SharesOfNat
  <2>4. ASSUME n >= price PROVE SharesOf(n) >= 1
    <3>1. 1 * price <= n
      BY <1>1, <2>4
    <3> HIDE DEF n
    <3>2. 1 <= n \div price
      BY <1>1, <2>2, <3>1, FloorAtLeast
    <3> QED BY <2>3, <3>2 DEF SharesOf
  <2>5. n >= price => parked'["main"] > parked["main"]
    BY <1>1, <2>1, <2>3, <2>4
  <2>6. n >= price \/ n < price
    BY <1>1, <2>2
  <2> QED BY <2>1, <2>5, <2>6 DEF TendConfirmed, SushiTendConfirmed
<1>3. CASE TendStake
  <2>1. /\ kind \in {"farm", "pancake"} /\ pending' = 0
        /\ parked'["main"] = parked["main"] + idle["main"] + pending
    BY <1>1, <1>3 DEF TendStake, FarmTend
  <2>2. pending >= pending' /\ parked'["main"] >= parked["main"]
    BY <1>1, <2>1
  <2> QED BY <2>1, <2>2 DEF TendConfirmed, FarmTendConfirmed
<1>4. CASE TendConvex
  <2>1. /\ kind = "convex" /\ idle' = Nothing
        /\ parked'["main"] = parked["main"] + idle["main"] + pending
        /\ parked'["side"] = parked["side"] + pending
    BY <1>4 DEF TendConvex
  <2>2. idle'["side"] = 0
    BY <2>1, NothingOK, TokenCases
  <2>3. /\ pending > 0 => parked'["side"] > parked["side"]
        /\ idle["main"] + pending > 0 => parked'["main"] > parked["main"]
    BY <1>1, <2>1
  <2> QED BY <2>1, <2>2, <2>3 DEF TendConfirmed, ConvexTendConfirmed
<1> QED BY <1>2, <1>3, <1>4 DEF FarmTend

(* No harvest takes want out of the strategy or the Sett.                    *)
LEMMA HarvestGains ==
  ASSUME SimOK, want[strategy] = 0, FarmHarvest
  PROVE  /\ want'[strategy] = 0 /\ staked'[strategy] >= staked[strategy]
         /\ want'[Sett] = want[Sett]
         /\ UNCHANGED <<claims, locked, config, fixed>>
         /\ kind = "convex" => idle'["side"] = idle["side"]
<1> DEFINE Gained == /\ want'[strategy] = 0 /\ staked'[strategy] >= staked[strategy]
                     /\ want'[Sett] = want[Sett]
                     /\ kind = "convex" => idle'["side"] = idle["side"]
<1>0. staked[strategy] \in Nat /\ want[Sett] \in Nat /\ earned[strategy] \in Nat /\ FarmOK /\ TypeOK
  BY StrategyApart DEF SimOK, TypeOK
<1>1. CASE kind = "badger" /\ Harvest(strategy) /\ UNCHANGED farmVars
  <2>1. want' = [want EXCEPT ![strategy] = 0] /\ UNCHANGED <<claims, locked, config, fixed>>
        /\ staked' = [staked EXCEPT ![strategy] = @ + want[strategy] + earned[strategy]]
    BY <1>1 DEF Harvest, farmVars, fixed
  <2>2. want'[strategy] = 0 /\ want'[Sett] = want[Sett]
        /\ staked'[strategy] = staked[strategy] + want[strategy] + earned[strategy]
    BY <2>1, StrategyApart
  <2> QED BY <1>0, <1>1, <2>1, <2>2
<1>2. CASE /\ \/ HarvestSushi \/ HarvestFarm \/ HarvestConvex \/ HarvestHelper
              \/ HarvestCurve \/ HarvestPancake \/ HarvestBadgerLp \/ HarvestDiggLp
              \/ HarvestUni
           /\ UNCHANGED <<earned, claims, locked, config, fixed, accrued>>
  <2>1. ASSUME NEW gain \in Nat, NEW gov \in 0..MaxFee, NEW strat \in 0..MaxFee,
               gov + strat <= MaxFee, CompoundWant(gain, gov, strat), kind # "convex"
        PROVE  Gained
    <3>1. /\ Fee(gov, gain) \in Nat /\ Fee(strat, gain) \in Nat
          /\ Fee(gov, gain) + Fee(strat, gain) <= gain
      BY <2>1, FeeBounds, TwoFees
    <3>2. /\ want' = [want EXCEPT ![strategy] = 0,
                                  ![Rewards] = @ + Fee(gov, want[strategy] + gain)]
          /\ staked' = [staked EXCEPT ![strategy] = @ + (want[strategy] + gain)
                          - Fee(gov, want[strategy] + gain) - Fee(strat, want[strategy] + gain)]
      BY <2>1 DEF CompoundWant
    <3>3. want[strategy] + gain = gain
      BY <2>1
    <3>4. /\ want'[strategy] = 0 /\ want'[Sett] = want[Sett]
          /\ staked'[strategy] = staked[strategy] + gain - Fee(gov, gain) - Fee(strat, gain)
      BY <3>2, <3>3, StrategyApart
    <3> QED BY <1>0, <2>1, <3>1, <3>4
  <2>2. ASSUME NEW held \in Nat, NEW taken \in Nat, AddLiquidity(held, taken), kind # "convex"
        PROVE  Gained
    <3> DEFINE sold == pending \div 2
               wbtc == idle["side"] + sold
               rest == held - taken - sold
               lp   == IF sold = 0 THEN 0 ELSE IF wbtc <= rest THEN wbtc ELSE rest
    <3>1. sold \in Nat /\ idle["side"] \in Nat
      BY <1>0, RewardsNat, FloorBounds
    <3>2. want' = want /\ staked' = [staked EXCEPT ![strategy] = @ + lp] /\ rest >= 0
      BY <2>2 DEF AddLiquidity
    <3>3. wbtc \in Nat /\ rest \in Nat
      BY <2>2, <3>1, <3>2
    <3> HIDE DEF sold, wbtc, rest
    <3>4. lp \in Nat
      BY <3>3
    <3> HIDE DEF lp
    <3>5. staked'[strategy] = staked[strategy] + lp
      BY <3>2, StrategyApart
    <3> QED BY <1>0, <2>2, <3>2, <3>4, <3>5
  <2>3. ASSUME HarvestSushi PROVE Gained
    <3>1. want'[strategy] = 0 /\ want'[Sett] = want[Sett]
          /\ staked'[strategy] = staked[strategy] + want[strategy] /\ kind = "sushi"
      BY <2>3, StrategyApart DEF HarvestSushi
    <3> QED BY <1>0, <3>1
  <2>4. ASSUME HarvestFarm \/ HarvestUni PROVE Gained
    BY <1>0, <2>4 DEF HarvestFarm, HarvestUni
  <2>5. ASSUME HarvestConvex PROVE Gained
    <3> DEFINE gain == Fee(CompoundRate, ConvexHarvested("main"))
                         + Fee(CompoundRate, ConvexHarvested("side"))
               fee  == Fee(CompoundFee, gain)
    <3>1. gain \in Nat
      BY <1>0, ConvexParts, TokenCases
    <3>2. fee \in Nat /\ fee <= gain
      BY <3>1, RatesFit, FeeBounds
    <3>3. /\ want' = [want EXCEPT ![strategy] = 0, ![Rewards] = @ + fee]
          /\ staked' = [staked EXCEPT ![strategy] = @ + want[strategy] + gain - fee]
          /\ idle' = [idle EXCEPT !["main"] = @ + pending]
      BY <2>5 DEF HarvestConvex
    <3> HIDE DEF gain, fee
    <3>4. /\ want'[strategy] = 0 /\ want'[Sett] = want[Sett]
          /\ staked'[strategy] = staked[strategy] + want[strategy] + gain - fee
      BY <3>3, StrategyApart
    <3>5. idle'["side"] = idle["side"]
      BY <1>0, <3>3, TokenCases DEF FarmOK
    <3> QED BY <1>0, <3>1, <3>2, <3>4, <3>5
  <2>6. ASSUME HarvestHelper PROVE Gained
    <3>1. CompoundWant(pending, GovernanceFee, 0) /\ kind = "helper"
      BY <2>6 DEF HarvestHelper
    <3>2. 0 \in 0..MaxFee /\ GovernanceFee + 0 <= MaxFee
      BY RatesFit, SettAssumption
    <3> QED BY <1>0, <2>1, <3>1, <3>2, RatesFit, RewardsNat
  <2>7. ASSUME HarvestCurve PROVE Gained
    <3> DEFINE keep == Fee(KeepRate, pending)
    <3>1. CompoundWant(pending - keep, GovernanceFee, StrategistFee) /\ kind = "curve"
      BY <2>7 DEF HarvestCurve
    <3>2. pending - keep \in Nat
      <4>1. keep \in Nat /\ keep <= pending /\ pending \in Nat
        BY <1>0, RewardsNat, RatesFit, FeeBounds
      <4> QED BY <4>1
    <3> HIDE DEF keep
    <3> QED BY <2>1, <3>1, <3>2, RatesFit
  <2>8. ASSUME HarvestPancake PROVE Gained
    <3>1. /\ CompoundWant(parked["main"] + idle["main"] + pending, GovernanceFee, StrategistFee)
          /\ kind = "pancake"
      BY <2>8 DEF HarvestPancake
    <3>2. parked["main"] + idle["main"] + pending \in Nat
      BY <1>0, RewardsNat
    <3> QED BY <2>1, <3>1, <3>2, RatesFit
  <2>9. ASSUME HarvestBadgerLp PROVE Gained
    <3>1. /\ AddLiquidity(idle["main"] + pending, 0) /\ idle["main"] + pending \in Nat
          /\ kind = "badgerLp"
      BY <1>0, <2>9, RewardsNat DEF HarvestBadgerLp
    <3>2. 0 \in Nat
      OBVIOUS
    <3> QED BY <2>2, <3>1, <3>2
  <2>10. ASSUME HarvestDiggLp PROVE Gained
    <3> DEFINE held  == idle["main"] + pending
               parts == [Shared(held) EXCEPT !.tree = 0]
    <3>1. held \in Nat
      BY <1>0, RewardsNat
    <3>2. parts \in [Payees -> Nat]
      BY <3>1, DiggParts
    <3>3. AddLiquidity(held, parts.rewards + parts.strategist) /\ kind = "diggLp"
      BY <2>10 DEF HarvestDiggLp
    <3> HIDE DEF held, parts
    <3>4. parts.rewards + parts.strategist \in Nat
      BY <3>2 DEF Payees
    <3> QED BY <2>2, <3>1, <3>3, <3>4
  <2> QED BY <1>2, <2>3, <2>4, <2>5, <2>6, <2>7, <2>8, <2>9, <2>10
<1> QED BY <1>1, <1>2 DEF FarmHarvest

LEMMA NothingIsLost ==
  ASSUME SimOK, SimOK', want[strategy] = 0, FarmHarvest
  PROVE  NothingLost /\ Balance' >= Balance
<1>1. /\ want'[strategy] = 0 /\ staked'[strategy] >= staked[strategy]
      /\ want'[Sett] = want[Sett] /\ strategy' = strategy
  BY HarvestGains DEF config
<1>2. /\ want[Sett] \in Nat /\ staked[strategy] \in Nat /\ staked'[strategy] \in Nat
      /\ Balance = want[Sett] + staked[strategy] /\ Balance' = want'[Sett] + staked'[strategy]
      /\ StrategyBalance(strategy) = staked[strategy]
      /\ StrategyBalance(strategy)' = staked'[strategy]
  BY <1>1, Places, PlacesNext
<1>3. Balance' >= Balance
  BY <1>1, <1>2
<1> QED BY <1>1, <1>2, <1>3 DEF NothingLost

(* What the tree is paid of a distribution is no more than its part of what  *)
(* was shared out, once a share of the helper vault costs two or more.       *)
LEMMA TreeSharesFit ==
  ASSUME NEW n \in Nat, NEW f \in Nat, NEW m \in Nat, NEW g \in Nat, NEW p \in Nat,
         p >= 2, m > 0, f <= m, g <= n, n * f < g * m + m
  PROVE  ((n - g) \div p) * m <= n * p * (m - f)
<1> DEFINE x == n - g
           t == x \div p
           y == n * (m - f)
<1>1. x \in Nat /\ m - f \in Nat /\ y \in Nat
  BY MulNat
<1>2. t \in Nat /\ t * p <= x
  BY <1>1, FloorBounds
<1>3. x * m < y + m
  <2>1. x * m = n * m - g * m /\ y = n * m - n * f
    OBVIOUS
  <2>2. n * m \in Nat /\ g * m \in Nat /\ n * f \in Nat
    BY MulNat
  <2> QED BY <2>1, <2>2
<1>4. n * p * (m - f) = p * y
  BY <1>1
<1> HIDE DEF x, y, t
<1>5. CASE t = 0
  <2>1. p * y \in Nat
    BY <1>1, MulNat
  <2> QED BY <1>4, <1>5, <2>1 DEF t, x
<1>6. CASE t > 0
  <2>1. t * 2 <= t * p
    BY <1>2, MulMono
  <2>2. t * p \in Nat
    BY <1>2, MulNat
  <2>3. t + t <= x /\ t <= x - 1 /\ x - 1 \in Nat
    BY <1>1, <1>2, <1>6, <2>1, <2>2
  <2>4. t * m <= (x - 1) * m
    BY <1>2, <2>3, MulMono
  <2>5. (x - 1) * m = x * m - m /\ x * m \in Nat /\ t * m \in Nat
    BY <1>1, <1>2, MulNat
  <2>6. t * m <= y
    BY <1>1, <1>3, <2>4, <2>5
  <2>7. 1 * y <= p * y /\ p * y \in Nat
    BY <1>1, MulNat, MulMono
  <2> QED BY <1>1, <1>4, <2>5, <2>6, <2>7 DEF t, x
<1> QED BY <1>2, <1>5, <1>6

LEMMA ConvexAlwaysConfirmed ==
  ASSUME SimOK, kind = "convex", FarmHarvest, HarvestConvex, NothingLost,
         \E t \in Tokens : ConvexHarvested(t) > 0, price # 1
  PROVE  ConvexHarvestConfirmed
<1>0. FarmOK /\ price \in Nat /\ price >= 2 /\ MaxFee \in Nat /\ MaxFee > 0
      /\ GovernanceFee \in Nat /\ GovernanceFee <= MaxFee
  BY RatesNatural, RatesFit DEF SimOK, FarmOK
<1>1. ASSUME NEW t \in Tokens, NEW p \in Payees
      PROVE  SharesTo(t, p) = ConvexShared(t)[p]
  <2> DEFINE first == Paid(got, "main", ConvexShared("main"))
  <2>1. got \in [Tokens -> [Payees -> Nat]] /\ got' = Paid(first, "side", ConvexShared("side"))
    BY <1>0 DEF FarmOK, HarvestConvex
  <2>2. \A x \in Tokens : ConvexShared(x) \in [Payees -> Nat]
    BY <1>0, ConvexParts
  <2>3. /\ first \in [Tokens -> [Payees -> Nat]] /\ first["side"] = got["side"]
        /\ first["main"][p] = got["main"][p] + ConvexShared("main")[p]
    BY <1>1, <2>1, <2>2, PaidIs, TokenCases
  <2> HIDE DEF first
  <2>4. /\ got'["main"] = first["main"]
        /\ got'["side"][p] = first["side"][p] + ConvexShared("side")[p]
    <3> DEFINE parts == ConvexShared("side")
    <3>1. parts \in [Payees -> Nat] /\ got' = Paid(first, "side", parts) /\ "side" \in Tokens
      BY <2>1, <2>2, TokenCases
    <3> HIDE DEF parts
    <3>2. /\ \A x \in Tokens \ {"side"} : Paid(first, "side", parts)[x] = first[x]
          /\ Paid(first, "side", parts)["side"][p] = first["side"][p] + parts[p]
      BY <1>1, <2>3, <3>1, PaidIs
    <3> QED BY <3>1, <3>2 DEF Tokens, parts
  <2>5. got'[t][p] = got[t][p] + ConvexShared(t)[p]
    BY <1>1, <2>3, <2>4, TokenCases
  <2>6. got[t][p] \in Nat /\ ConvexShared(t)[p] \in Nat
    BY <1>1, <2>1, <2>2
  <2> QED BY <2>5, <2>6 DEF SharesTo
<1>2. ASSUME NEW t \in Tokens
      PROVE  /\ ToHelper(t) * price * (MaxFee - GovernanceFee) >= SharesTo(t, "tree") * MaxFee
             /\ ToHelper(t) * price * GovernanceFee >= SharesTo(t, "rewards") * MaxFee
             /\ SharesTo(t, "strategist") = 0
  <2> DEFINE n == ConvexHarvested(t) - Fee(CompoundRate, ConvexHarvested(t))
             g == Fee(GovernanceFee, n)
             s == Fee(StrategistRate, n)
  <2>1. n \in Nat /\ ToHelper(t) = n
    BY <1>0, <1>2, ConvexParts DEF ToHelper
  <2>2. /\ g \in Nat /\ g * MaxFee <= GovernanceFee * n /\ g <= n
        /\ n * GovernanceFee < g * MaxFee + MaxFee
    <3>1. n * GovernanceFee \in Nat
      BY <1>0, <2>1, MulNat
    <3>2. n * GovernanceFee < g * MaxFee + MaxFee
      BY <1>0, <3>1, FloorBounds DEF Fee
    <3> QED BY <2>1, <3>2, RatesFit, FeeBounds
  <2>3. s = 0
    <3>1. StrategistRate = 0
      BY DEF StrategistRate
    <3>2. n * 0 = 0 /\ 0 \div MaxFee = 0
      BY <1>0, <2>1, FloorUnique
    <3> QED BY <3>1, <3>2 DEF Fee
  <2>4. /\ Shared(n)["rewards"] = g /\ Shared(n)["strategist"] = 0
        /\ Shared(n)["tree"] = n - g
    <3>1. Shared(n)["tree"] \in Nat
      BY <2>1, SharedParts DEF Payees
    <3> QED BY <2>1, <2>2, <2>3, <3>1, SharedParts
  <2>5. ConvexShared(t) = [p \in Payees |-> Shared(n)[p] \div price]
    BY DEF ConvexShared, SharesOf
  <2> HIDE DEF n, g, s
  <2>6. 0 \div price = 0
    BY <1>0, FloorUnique
  <2>7. /\ SharesTo(t, "tree") = (n - g) \div price
        /\ SharesTo(t, "rewards") = g \div price
        /\ SharesTo(t, "strategist") = 0
    BY <1>1, <1>2, <2>4, <2>5, <2>6 DEF Payees
  <2>8. ((n - g) \div price) * MaxFee <= n * price * (MaxFee - GovernanceFee)
    BY <1>0, <2>1, <2>2, TreeSharesFit
  <2>9. (g \div price) * MaxFee <= n * price * GovernanceFee
    <3> DEFINE q == g \div price
    <3>1. q \in Nat /\ q <= g
      <4>1. q \in Nat /\ q * price <= g
        BY <1>0, <2>2, FloorBounds
      <4>2. q * 1 <= q * price
        BY <1>0, <4>1, MulMono
      <4>3. q * price \in Nat
        BY <1>0, <4>1, MulNat
      <4> QED BY <2>2, <4>1, <4>2, <4>3
    <3> HIDE DEF q
    <3>2. q * MaxFee <= g * MaxFee
      BY <1>0, <2>2, <3>1, MulMono
    <3>3. GovernanceFee * n \in Nat /\ 1 * (GovernanceFee * n) <= price * (GovernanceFee * n)
      BY <1>0, <2>1, MulNat, MulMono
    <3>4. price * (GovernanceFee * n) = n * price * GovernanceFee
      BY <1>0, <2>1
    <3>5. q * MaxFee \in Nat /\ g * MaxFee \in Nat /\ price * (GovernanceFee * n) \in Nat
      BY <1>0, <2>2, <3>1, <3>3, MulNat
    <3>6. q * MaxFee <= price * (GovernanceFee * n)
      BY <2>2, <3>2, <3>3, <3>5
    <3> QED BY <3>4, <3>6 DEF q
  <2>10. /\ n * price * (MaxFee - GovernanceFee) \in Int /\ n * price * GovernanceFee \in Int
         /\ (n - g) \div price \in Nat /\ g \div price \in Nat
    BY <1>0, <2>1, <2>2, FloorBounds
  <2> QED BY <1>0, <2>1, <2>7, <2>8, <2>9, <2>10
<1>3. \A t \in Tokens : got'[t]["strategist"] = got[t]["strategist"]
  <2>1. \A t \in Tokens : got[t]["strategist"] \in Nat /\ got'[t]["strategist"] \in Nat
    <3>1. FarmOK'
      BY HarvestOK DEF SimOK
    <3> QED BY <1>0, <3>1 DEF FarmOK, Payees
  <2> QED BY <1>2, <2>1 DEF SharesTo
<1> QED BY <1>2, <1>3 DEF ConvexHarvestConfirmed, ConvexEventsConfirmed

LEMMA TreeGains ==
  ASSUME FarmOK, NEW n \in Nat, got' = Paid(got, "main", Shared(n))
  PROVE  /\ got["main"]["tree"] \in Nat /\ got'["main"]["tree"] \in Nat
         /\ got'["main"]["tree"] >= got["main"]["tree"]
<1> DEFINE parts == Shared(n)
<1>1. got \in [Tokens -> [Payees -> Nat]] /\ parts \in [Payees -> Nat] /\ "main" \in Tokens
  BY SharedParts, TokenCases DEF FarmOK
<1>2. "tree" \in Payees
  BY DEF Payees
<1>3. got["main"]["tree"] \in Nat /\ parts["tree"] \in Nat
  BY <1>1, <1>2
<1> HIDE DEF parts
<1>4. Paid(got, "main", parts)["main"]["tree"] = got["main"]["tree"] + parts["tree"]
  BY <1>1, <1>2, PaidIs
<1>5. got'["main"]["tree"] = got["main"]["tree"] + parts["tree"]
  BY <1>4 DEF parts
<1> QED BY <1>3, <1>5

LEMMA HarvestAlwaysConfirmed ==
  ASSUME SimOK, SimOK', want[strategy] = 0, FarmHarvest
  PROVE  HarvestConfirmed \/ HarvestExcused
<1>0. FarmOK /\ FarmOK' /\ NothingLost /\ kind \in AllKinds
  BY NothingIsLost DEF SimOK, FarmOK
<1>1. CASE kind = "badger"
  BY <1>0, <1>1 DEF HarvestConfirmed, BadgerHarvestConfirmed, HarvestExcused
<1>2. CASE kind = "badgerLp"
  BY <1>0, <1>2 DEF HarvestConfirmed, BadgerLpHarvestConfirmed, HarvestExcused
<1>3. CASE kind \in {"diggLp", "helper", "pancake", "curve", "uni"}
  BY <1>0, <1>3 DEF HarvestConfirmed, DiggLpHarvestConfirmed, HelperHarvestConfirmed,
                    PancakeHarvestConfirmed
<1>4. CASE kind = "sushi"
  <2> DEFINE n == parked["main"] + SharesOf(idle["main"] + pending)
  <2>1. HarvestSushi
    BY <1>4 DEF FarmHarvest, HarvestFarm, HarvestConvex, HarvestHelper, HarvestCurve,
                HarvestPancake, HarvestBadgerLp, HarvestDiggLp, HarvestUni
  <2>2. n \in Nat
    <3>1. idle["main"] + pending \in Nat /\ parked["main"] \in Nat
      BY <1>0, RewardsNat
    <3> QED BY <1>0, <3>1, SharesOfNat
  <2>3. got' = Paid(got, "main", Shared(n)) /\ idle' = Nothing
    BY <2>1 DEF HarvestSushi
  <2> HIDE DEF n
  <2>4. idle'["main"] = 0
    BY <2>3, NothingOK, TokenCases
  <2>5. TreeRewards' >= TreeRewards
    BY <1>0, <2>2, <2>3, TreeGains DEF TreeRewards
  <2> QED BY <1>0, <1>4, <2>4, <2>5 DEF HarvestConfirmed, SushiHarvestConfirmed
<1>5. CASE kind = "farm"
  <2> DEFINE n == parked["main"] + idle["main"] + pending
  <2>1. HarvestFarm
    BY <1>5 DEF FarmHarvest, HarvestSushi, HarvestConvex, HarvestHelper, HarvestCurve,
                HarvestPancake, HarvestBadgerLp, HarvestDiggLp, HarvestUni
  <2>2. n \in Nat
    BY <1>0, RewardsNat
  <2>3. /\ got' = Paid(got, "main", Shared(n)) /\ idle' = Nothing /\ parked' = Nothing
        /\ pending' = 0 /\ want' = want
    BY <2>1 DEF HarvestFarm
  <2> HIDE DEF n
  <2>4. idle'["main"] = 0 /\ parked'["main"] = 0
    BY <2>3, NothingOK, TokenCases
  <2>5. TreeRewards' >= TreeRewards /\ TreeRewards' \in Nat /\ TreeRewards \in Nat
    BY <1>0, <2>2, <2>3, TreeGains DEF TreeRewards
  <2>6. strategy' = strategy /\ want[strategy] >= want[strategy]
    BY StrategyApart DEF FarmHarvest, Harvest, config
  <2> QED BY <1>0, <1>5, <2>3, <2>4, <2>5, <2>6
       DEF HarvestConfirmed, FarmHarvestConfirmed, HarvestExcused
<1>6. CASE kind = "convex"
  <2>1. HarvestConvex
    BY <1>6 DEF FarmHarvest, HarvestSushi, HarvestFarm, HarvestHelper, HarvestCurve,
                HarvestPancake, HarvestBadgerLp, HarvestDiggLp, HarvestUni
  <2>2. CASE price = 1 \/ \A t \in Tokens : ConvexHarvested(t) = 0
    BY <1>6, <2>2 DEF HarvestExcused
  <2>3. CASE price # 1 /\ \E t \in Tokens : ConvexHarvested(t) # 0
    <3>1. \E t \in Tokens : ConvexHarvested(t) > 0
      <4>1. PICK t \in Tokens : ConvexHarvested(t) # 0
        BY <2>3
      <4>2. ConvexHarvested(t) \in Nat
        BY <1>0, ConvexParts
      <4>3. ConvexHarvested(t) > 0
        BY <4>1, <4>2
      <4> QED BY <4>3
    <3>2. ConvexHarvestConfirmed
      BY <1>0, <1>6, <2>1, <2>3, <3>1, ConvexAlwaysConfirmed
    <3> QED BY <1>6, <3>2 DEF HarvestConfirmed
  <2> QED BY <2>2, <2>3
<1> QED BY <1>0, <1>1, <1>2, <1>3, <1>4, <1>5, <1>6 DEF AllKinds

-----------------------------------------------------------------------------
(* A deposit that is withdrawn at once *)

(* What was deposited is in the Sett, and worth less than one share more     *)
(* than the shares it brought.                                               *)
TripFits ==
  trip # NoTrip =>
    LET a == trip.start - want[trip.user]
        n == shares[trip.user] - trip.held
    IN  /\ trip.start \in Nat /\ a \in Nat /\ a <= want[Sett]
        /\ a * supply <= (n + 1) * Balance - a

LEMMA DepositWorth ==
  ASSUME NEW a \in Nat, NEW q \in Nat, NEW b \in Nat, NEW s \in Nat,
         \/ s = 0 /\ q = a
         \/ a * s < q * b + b
  PROVE  a * (s + q) <= (q + 1) * (b + a) - a
<1>1. (q + 1) * (b + a) - a = q * b + b + a * q /\ a * (s + q) = a * s + a * q
  OBVIOUS
<1>2. a * s \in Nat /\ a * q \in Nat /\ q * b \in Nat
  BY MulNat
<1>3. s = 0 => a * s = 0
  OBVIOUS
<1> QED BY <1>1, <1>2, <1>3

LEMMA RoundTripLoss ==
  ASSUME NEW a \in Nat, NEW n \in Nat, NEW b \in Nat, NEW s \in Nat, NEW d \in Nat,
         s > 0, n <= s, a <= b, d <= b, a * s <= (n + 1) * b - a,
         d * s <= n * b, n * b < d * s + s, d + 3 <= a
  PROVE  b > 2 * s /\ b - d > 2 * (s - n)
<1>1. n * b \in Nat /\ a * s \in Nat /\ d * s \in Nat /\ (n + 1) * b = n * b + b
  BY MulNat
<1>2. d * s + 3 * s <= a * s
  <2>1. (d + 3) * s <= a * s
    BY MulMono
  <2>2. (d + 3) * s = d * s + 3 * s
    OBVIOUS
  <2> QED BY <2>1, <2>2
<1>3. b > 2 * s
  BY <1>1, <1>2
<1>4. n # s
  <2> SUFFICES ASSUME n = s PROVE FALSE
    OBVIOUS
  <2>1. (d + 3) * s <= b * s
    BY MulMono
  <2>2. (d + 3) * s = d * s + 3 * s /\ b * s = n * b
    OBVIOUS
  <2> QED BY <1>1, <2>1, <2>2
<1> DEFINE k == s - n
           x == b - d
<1>5. k \in Nat /\ k > 0 /\ x \in Nat
  BY <1>4
<1>6. x * s >= b * k
  <2>1. x * s = b * s - d * s /\ b * k = b * s - n * b
    OBVIOUS
  <2>2. b * s \in Nat
    BY MulNat
  <2> QED BY <1>1, <2>1, <2>2
<1> HIDE DEF k, x
<1>7. b * k >= 2 * s * k + k
  <2>1. (2 * s + 1) * k <= b * k
    BY <1>3, <1>5, MulMono
  <2>2. (2 * s + 1) * k = 2 * s * k + k
    BY <1>5
  <2> QED BY <2>1, <2>2
<1>8. x > 2 * k
  <2> SUFFICES ASSUME x <= 2 * k PROVE FALSE
    BY <1>5
  <2>1. x * s <= (2 * k) * s
    BY <1>5, MulMono
  <2>2. (2 * k) * s = 2 * s * k /\ s * k \in Nat
    BY <1>5, MulNat
  <2>3. x * s \in Nat /\ b * k \in Nat
    BY <1>5, MulNat
  <2>4. 2 * s * k \in Nat
    BY <1>5, MulNat
  <2> QED BY <1>5, <1>6, <1>7, <2>1, <2>2, <2>3, <2>4
<1> QED BY <1>3, <1>8 DEF k, x

LEMMA TripStarts ==
  ASSUME SimOK, SimOK', SharesBacked, want[strategy] = 0, NEW u \in Users, SettDeposit(u),
         trip' = [user |-> u, start |-> want[u], held |-> shares[u]]
  PROVE  TripFits'
<1> DEFINE a == want[u] \div 2
           q == SharesFor(a)
<1>1. /\ want[u] \in Nat /\ want[Sett] \in Nat /\ shares[u] \in Nat
      /\ supply \in Nat /\ Balance \in Nat
  BY StrategyApart, BalanceNat DEF SimOK, TypeOK
<1>2. a \in Nat
  BY <1>1, FloorBounds
<1>3. DepositFor(u, u, a)
  BY DEF SettDeposit
<1> HIDE DEF a
<1>4. a <= want[u]
  BY <1>3 DEF DepositFor
<1>5. /\ want'[Sett] = want[Sett] + a /\ want'[u] = want[u] - a /\ q \in Nat
      /\ supply' = supply + q /\ shares'[u] = shares[u] + q /\ Balance' = Balance + a
  BY <1>2, <1>3, <1>4, DepositOutcome
<1>6. (supply = 0 /\ q = a) \/ a * supply < q * Balance + Balance
  <2>1. supply > 0 => Balance > 0
    BY <1>3 DEF DepositFor
  <2>2. supply > 0 => a * supply < q * Balance + Balance
    BY <1>2, <2>1, SharesForCut DEF SimOK
  <2>3. supply = 0 => q = a
    BY <1>2, <2>1, SharesForBounds DEF SimOK
  <2> QED BY <1>1, <2>2, <2>3
<1> HIDE DEF q
<1>7. a * (supply + q) <= (q + 1) * (Balance + a) - a
  BY <1>1, <1>2, <1>5, <1>6, DepositWorth
<1>8. want[u] - (want[u] - a) = a /\ shares[u] + q - shares[u] = q /\ a <= want[Sett] + a
  BY <1>1, <1>2, <1>5
<1>9. trip'.user = u /\ trip'.start = want[u] /\ trip'.held = shares[u]
  OBVIOUS
<1> QED BY <1>1, <1>2, <1>5, <1>7, <1>8, <1>9 DEF TripFits

(* More than 2 is lost only when a share is worth more than 2, and then it   *)
(* still is after the withdrawal.                                            *)
LEMMA TripEnds ==
  ASSUME SimOK, SimOK', SharesBacked, want[strategy] = 0, TripFits, trip # NoTrip,
         SettWithdraw(trip.user, shares[trip.user] - trip.held),
         ~(trip.start - want'[trip.user] <= 2)
  PROVE  Balance > 2 * supply /\ Balance' > 2 * supply'
<1> DEFINE u   == trip.user
           n   == shares[u] - trip.held
           a   == trip.start - want[u]
           due == ProRata(n)
<1>1. u \in Users /\ n \in Nat
  BY DEF SimOK, TripOK, TypeOK
<1>2. trip.start \in Nat /\ a \in Nat /\ a <= want[Sett] /\ a * supply <= (n + 1) * Balance - a
  BY DEF TripFits
<1>3. SettWithdraw(u, n) /\ ~(trip.start - want'[u] <= 2)
  OBVIOUS
<1> HIDE DEF n
<1>4. supply > 0 /\ n <= supply /\ WithdrawEffect(u, n, due)
  BY <1>1, <1>3, WithdrawOutcome
<1>5. /\ due \in Nat /\ due <= Balance
      /\ due * supply <= n * Balance /\ n * Balance < due * supply + supply
  BY <1>1, <1>4, ProRataCut
<1>6. /\ want[Sett] \in Nat /\ staked[strategy] \in Nat /\ supply \in Nat
      /\ Balance \in Nat /\ Balance = want[Sett] + staked[strategy]
  BY Places
<1>7. want[u] \in Nat /\ want'[u] \in Nat
  BY <1>1, HolderFacts DEF SimOK, TypeOK
<1> HIDE DEF u, due
<1>8. due <= want[Sett] /\ want'[u] = want[u] + due
  BY <1>2, <1>3, <1>4, <1>6, <1>7 DEF WithdrawEffect, a
<1>9. due + 3 <= a
  BY <1>2, <1>3, <1>5, <1>7, <1>8 DEF a
<1> HIDE DEF a
<1>10. Balance > 2 * supply /\ Balance - due > 2 * (supply - n)
  BY <1>1, <1>2, <1>4, <1>5, <1>6, <1>9, RoundTripLoss
<1> QED BY <1>4, <1>10 DEF WithdrawEffect

-----------------------------------------------------------------------------
(* The run as a whole *)

Placed ==
  /\ SharesBacked
  /\ want[strategy] = 0
  /\ kind = "convex" => idle["side"] = 0

(* What ended a run still stands when the next block is mined.               *)
ResultHolds ==
  /\ result \notin {"earn", "deposit"}
  /\ result \in {"harvest", "tend"} => locked = {}
  /\ result = "withdraw" => ~HasPool
  /\ result = "round_trip" => Balance > 2 * supply

ConfInv == SimOK /\ (result # "exited" => Placed) /\ TripFits /\ ResultHolds

Confirmed ==
  /\ result' \notin {"earn", "deposit"}
  /\ result' = "withdraw" => ~HasPool /\ want'[Rewards] = want[Rewards]
  /\ result' = "harvest" => HarvestExcused
  /\ result' = "tend" => kind = "sushi" /\ idle["main"] + pending < price
  /\ result' = "round_trip" => Balance > 2 * supply

LEMMA ConfDeposit ==
  ASSUME ConfInv, SimOK', result = "ok", NEW u \in Users, SettDeposit(u)
  PROVE  Placed' /\ ResultHolds' /\ Confirmed
<1> DEFINE a == want[u] \div 2
<1>1. Placed /\ SimOK
  BY DEF ConfInv
<1>2. a \in Nat
  BY <1>1, StrategyApart, FloorBounds
<1>3. /\ DepositFor(u, u, a) /\ Outcome(DepositConfirmed(u, a), "deposit")
      /\ UNCHANGED farmVars
  BY DEF SettDeposit
<1> HIDE DEF a
<1>4. a <= want[u]
  BY <1>3 DEF DepositFor
<1>5. want'[strategy] = 0 /\ strategy' = strategy /\ SharesBacked'
  BY <1>1, <1>2, <1>3, <1>4, DepositOutcome DEF Placed
<1>6. DepositConfirmed(u, a)
  BY <1>1, <1>2, <1>3, <1>4, DepositAlwaysConfirmed DEF Placed
<1>7. result' = "ok"
  BY <1>3, <1>6 DEF Outcome
<1>8. Placed'
  BY <1>1, <1>3, <1>5 DEF Placed, farmVars, fixed
<1> QED BY <1>7, <1>8 DEF ResultHolds, Confirmed

(* What a withdrawal leaves for the next transaction                         *)
LEMMA ConfWithdraw ==
  ASSUME ConfInv, SimOK', result = "ok", NEW u \in Users, NEW n \in Nat, SettWithdraw(u, n)
  PROVE  /\ Placed' /\ HasPool' = HasPool
         /\ WithdrawConfirmed(u, n) \/ (~HasPool /\ want'[Rewards] = want[Rewards])
<1>1. Placed /\ SimOK
  BY DEF ConfInv
<1>2. WithdrawEffect(u, n, ProRata(n))
  BY <1>1, WithdrawOutcome DEF Placed
<1>3. WithdrawConfirmed(u, n) \/ (~HasPool /\ want'[Rewards] = want[Rewards])
  BY <1>1, WithdrawAlwaysConfirmed DEF Placed
<1>4. idle'["side"] = idle["side"]
  BY <1>1, WithdrawStepOK, TouchKeeps DEF SimOK
<1>5. Placed' /\ HasPool' = HasPool
  BY <1>1, <1>2, <1>4 DEF Placed, WithdrawEffect, HasPool
<1> QED BY <1>3, <1>5

LEMMA ConfTripWithdraws ==
  ASSUME ConfInv, SimOK', TripWithdraws
  PROVE  ConfInv' /\ Confirmed
<1> DEFINE u == trip.user
           n == shares[u] - trip.held
<1>1. Placed /\ SimOK /\ TripFits /\ result = "ok" /\ trip # NoTrip
  BY DEF ConfInv, TripWithdraws, Ready
<1>2. u \in Users /\ n \in Nat
  BY <1>1 DEF SimOK, TripOK, TypeOK
<1>3. SettWithdraw(u, n)
  BY DEF TripWithdraws
<1>4. IF WithdrawConfirmed(u, n)
      THEN Outcome(trip.start - want'[u] <= 2, "round_trip")
      ELSE result' = "withdraw"
  BY DEF TripWithdraws
<1>5. ~(trip.start - want'[u] <= 2) => Balance > 2 * supply /\ Balance' > 2 * supply'
  BY <1>1, <1>3, TripEnds DEF Placed
<1> HIDE DEF u, n
<1>6. /\ Placed' /\ HasPool' = HasPool
      /\ WithdrawConfirmed(u, n) \/ (~HasPool /\ want'[Rewards] = want[Rewards])
  BY <1>1, <1>2, <1>3, ConfWithdraw
<1>7. TripFits'
  <2>1. trip' = NoTrip
    BY DEF TripWithdraws
  <2> QED BY <2>1 DEF TripFits
<1>8. CASE WithdrawConfirmed(u, n)
  BY <1>4, <1>5, <1>6, <1>7, <1>8 DEF Outcome, ConfInv, ResultHolds, Confirmed
<1>9. CASE ~WithdrawConfirmed(u, n)
  BY <1>4, <1>6, <1>7, <1>9 DEF ConfInv, ResultHolds, Confirmed
<1> QED BY <1>8, <1>9

LEMMA ConfStep ==
  ASSUME EarnsSomething, ConfInv, SimNext
  PROVE  ConfInv' /\ Confirmed
<1>0. SimOK' /\ SimOK /\ TripFits /\ ResultHolds /\ FarmOK /\ (result # "exited" => Placed)
  BY SimStepOK DEF ConfInv, SimOK
<1>a. trip' = NoTrip => TripFits'
  BY DEF TripFits
<1>1. ASSUME NEW u \in Users, DepositAction(u) PROVE ConfInv' /\ Confirmed
  <2>1. SettDeposit(u) /\ result = "ok" /\ trip' = NoTrip
    BY <1>1 DEF DepositAction, Between, Ready
  <2> QED BY <1>0, <1>a, <2>1, ConfDeposit DEF ConfInv
<1>2. ASSUME NEW u \in Users, WithdrawAction(u) PROVE ConfInv' /\ Confirmed
  <2> DEFINE n == shares[u]
  <2>1. /\ SettWithdraw(u, n) /\ result = "ok" /\ trip' = NoTrip
        /\ Outcome(WithdrawConfirmed(u, n), "withdraw")
    BY <1>2 DEF WithdrawAction, Between, Ready
  <2>2. n \in Nat
    BY <1>0 DEF SimOK, TypeOK
  <2> HIDE DEF n
  <2>3. /\ Placed' /\ HasPool' = HasPool
        /\ WithdrawConfirmed(u, n) \/ (~HasPool /\ want'[Rewards] = want[Rewards])
    BY <1>0, <2>1, <2>2, ConfWithdraw
  <2>4. result' = IF WithdrawConfirmed(u, n) THEN "ok" ELSE "withdraw"
    BY <2>1 DEF Outcome
  <2>5. CASE WithdrawConfirmed(u, n)
    BY <1>0, <1>a, <2>1, <2>3, <2>4, <2>5 DEF ConfInv, ResultHolds, Confirmed
  <2>6. CASE ~WithdrawConfirmed(u, n)
    BY <1>0, <1>a, <2>1, <2>3, <2>4, <2>6 DEF ConfInv, ResultHolds, Confirmed
  <2> QED BY <2>5, <2>6
<1>3. ASSUME NEW u \in Users, WithdrawActionReverts(u) PROVE ConfInv' /\ Confirmed
  <2>1. result = "ok" /\ result' = "revert" /\ trip' = NoTrip /\ UNCHANGED <<vars, farmVars>>
    BY <1>3 DEF WithdrawActionReverts, Between, Ready
  <2>2. Placed'
    BY <1>0, <2>1 DEF Placed, SharesBacked, Balance, StrategyBalance, vars, config, farmVars
  <2> QED BY <1>0, <1>a, <2>1, <2>2 DEF ConfInv, ResultHolds, Confirmed
<1>4. ASSUME NEW u \in Users, TripDeposits(u) PROVE ConfInv' /\ Confirmed
  <2>1. /\ SettDeposit(u) /\ result = "ok"
        /\ trip' = [user |-> u, start |-> want[u], held |-> shares[u]]
    BY <1>4 DEF TripDeposits, Between, Ready
  <2>2. TripFits'
    BY <1>0, <2>1, TripStarts DEF Placed
  <2> QED BY <1>0, <2>1, <2>2, ConfDeposit DEF ConfInv
<1>5. CASE TripWithdraws
  BY <1>0, <1>5, ConfTripWithdraws
<1>6. CASE KeeperEarns
  <2>1. FarmEarn /\ Outcome(EarnConfirmed, "earn") /\ result = "ok" /\ trip' = NoTrip
    BY <1>6 DEF KeeperEarns, Between, Ready
  <2>2. EarnConfirmed /\ want'[strategy'] = 0 /\ Balance' = Balance
    BY <1>0, <2>1, EarnAlwaysConfirmed DEF Placed
  <2>3. result' = "ok"
    BY <2>1, <2>2 DEF Outcome
  <2>4. supply' = supply /\ kind' = kind /\ idle'["side"] = idle["side"]
    BY <1>0, <2>1, EarnStepOK, TouchKeeps DEF claims
  <2>5. Placed'
    BY <1>0, <2>1, <2>2, <2>4 DEF Placed, SharesBacked
  <2> QED BY <1>0, <1>a, <2>1, <2>3, <2>5 DEF ConfInv, ResultHolds, Confirmed
<1>7. CASE KeeperHarvests
  <2>1. /\ FarmHarvest /\ Outcome(HarvestConfirmed, "harvest") /\ result = "ok"
        /\ trip' = NoTrip /\ locked = {}
    BY <1>7 DEF KeeperHarvests, Between, Ready
  <2>2. /\ Balance' >= Balance /\ want'[strategy] = 0
        /\ UNCHANGED <<claims, locked, config, fixed>>
        /\ kind = "convex" => idle'["side"] = idle["side"]
    BY <1>0, <2>1, NothingIsLost, HarvestGains DEF Placed
  <2>3. HarvestConfirmed \/ HarvestExcused
    BY <1>0, <2>1, HarvestAlwaysConfirmed DEF Placed
  <2>4. result' \in {"ok", "harvest"} /\ (result' = "harvest" => HarvestExcused)
    BY <2>1, <2>3 DEF Outcome
  <2>5. supply \in Nat /\ Balance \in Nat /\ Balance' \in Nat
    <3>1. want[strategy] = 0 /\ want'[strategy'] = 0
      BY <1>0, <2>1, <2>2 DEF Placed, config
    <3> QED BY <1>0, <3>1, Places, PlacesNext
  <2>6. Placed'
    BY <1>0, <2>1, <2>2, <2>5 DEF Placed, SharesBacked, claims, config, fixed
  <2> QED BY <1>0, <1>a, <2>1, <2>2, <2>4, <2>6 DEF ConfInv, ResultHolds, Confirmed
<1>8. CASE KeeperTends
  <2>1. /\ FarmTend /\ Outcome(TendConfirmed, "tend") /\ result = "ok"
        /\ trip' = NoTrip /\ locked = {} /\ UNCHANGED <<vars, fixed>>
    BY <1>8 DEF KeeperTends, Between, Ready, FarmTend
  <2>2. TendConfirmed \/ (kind = "sushi" /\ idle["main"] + pending < price)
    BY <1>0, <2>1, TendAlwaysConfirmed DEF Placed
  <2>3. /\ result' \in {"ok", "tend"}
        /\ result' = "tend" => kind = "sushi" /\ idle["main"] + pending < price
    BY <2>1, <2>2 DEF Outcome
  <2>4. kind = "convex" => idle'["side"] = 0
    <3>1. kind = "convex" => idle' = Nothing
      BY <2>1 DEF FarmTend, TendSushi, TendStake, TendConvex
    <3> QED BY <3>1, NothingOK, TokenCases
  <2>5. Placed' /\ locked' = {}
    BY <1>0, <2>1, <2>4
    DEF Placed, SharesBacked, Balance, StrategyBalance, vars, config, fixed
  <2> QED BY <1>0, <1>a, <2>1, <2>3, <2>5 DEF ConfInv, ResultHolds, Confirmed
<1>9. CASE Sleep
  <2>1. result = "ok" /\ result' = "ok" /\ trip' = NoTrip
    BY <1>9 DEF Sleep, Between, Ready
  <2>2. UNCHANGED <<want, staked, supply, strategy, kind, idle>>
    BY <1>9 DEF Sleep, Accrue, AccrueReward, vars, farmVars, fixed, config, claims
  <2>3. Placed'
    BY <1>0, <2>1, <2>2 DEF Placed, SharesBacked, Balance, StrategyBalance
  <2> QED BY <1>0, <1>a, <2>1, <2>3 DEF ConfInv, ResultHolds, Confirmed
<1>10. CASE Mine
  <2>1. /\ locked # {} /\ UNCHANGED <<want, staked, shares, supply, strategy, kind, idle>>
        /\ UNCHANGED <<trip, result>>
    BY <1>10 DEF Mine, NextBlock, funds, claims, config, farmVars, fixed
  <2>2. Balance' = Balance
    BY <2>1 DEF Balance, StrategyBalance
  <2>3. (result' # "exited" => Placed') /\ TripFits'
    BY <1>0, <2>1, <2>2 DEF Placed, SharesBacked, TripFits
  <2>4. result \notin {"harvest", "tend"}
    BY <1>0, <2>1 DEF ResultHolds
  <2> QED BY <1>0, <2>1, <2>2, <2>3, <2>4 DEF ConfInv, ResultHolds, Confirmed, HasPool
<1>11. CASE Migrates
  <2>1. result' = "exited" /\ trip' = NoTrip
    BY <1>11 DEF Migrates, Between
  <2> QED BY <1>0, <1>a, <2>1 DEF ConfInv, ResultHolds, Confirmed
<1> QED BY <1>1, <1>2, <1>3, <1>4, <1>5, <1>6, <1>7, <1>8, <1>9, <1>10, <1>11 DEF SimNext

(* The assertions of the resolvers hold of every run of the simulation, in   *)
(* whatever order its actors act, but for the cases HarvestExcused and       *)
(* ConfirmationsHold name.                                                   *)
THEOREM AssertionsAlwaysHold ==
  ASSUME EarnsSomething
  PROVE  SimSpec => ConfirmationsHold
<1>1. SimInit => ConfInv
  <2> SUFFICES ASSUME SimInit PROVE ConfInv
    OBVIOUS
  <2>1. SimOK
    BY SimInitOK
  <2>2. want[strategy] = 0
    <3>1. PICK f \in [Holders -> 0..InitialWant] :
             want = f /\ \A h \in Holders : IF h \in Users THEN f[h] >= 2 ELSE f[h] = 0
      BY DEF SimInit, DistributeWant
    <3>2. strategy \in Holders /\ strategy \notin Users
      BY <2>1, StrategyApart
    <3> QED BY <3>1, <3>2
  <2>3. supply = 0 /\ Balance \in Nat
    BY <2>1, BalanceNat DEF SimInit, SimOK
  <2>4. Placed
    BY <2>2, <2>3, NothingOK, TokenCases DEF SimInit, FarmInit, Placed, SharesBacked
  <2> QED BY <2>1, <2>4 DEF SimInit, ConfInv, TripFits, ResultHolds
<1>2. ConfInv /\ [SimNext]_simVars => ConfInv'
  <2> SUFFICES ASSUME ConfInv, [SimNext]_simVars PROVE ConfInv'
    OBVIOUS
  <2>1. CASE SimNext
    BY <2>1, ConfStep
  <2>2. CASE UNCHANGED simVars
    <3>1. SimOK'
      BY <2>2, SimStutterOK DEF ConfInv
    <3> QED BY <2>2, <3>1 DEF ConfInv, Placed, SharesBacked, Balance, StrategyBalance, TripFits,
                   ResultHolds, HasPool, simVars, vars, config, farmVars
  <2> QED BY <2>1, <2>2
<1>3. ConfInv /\ [SimNext]_simVars => [Confirmed]_simVars
  BY ConfStep
<1> QED BY <1>1, <1>2, <1>3, PTL DEF SimSpec, ConfirmationsHold, Confirmed
=============================================================================
