------------------------ MODULE OperatorScriptsProofs ------------------------
(***************************************************************************)
(* What is proved of the emissions and of the deployments.  A pool of      *)
(* StakingRewards owes what it was notified, less what it has paid: it is  *)
(* solvent, and what an account has earned stays earned, whatever the      *)
(* stakers, the admin and the script that funds it do.  Unlock schedules   *)
(* promise no more than the tree was sent, wherever the script that        *)
(* signals them is cut off.  And a policy that may rebase DIGG has all it  *)
(* needs, wherever its deployment is cut off and begun again.              *)
(***************************************************************************)
EXTENDS OperatorScripts, Arithmetic

operatorVars == <<allVars, chain, memory, file>>

Total(f) == SumFunctionOnSet(f, Accounts)

-----------------------------------------------------------------------------
(* The inductive invariant *)

PoolTypeOK ==
  /\ now \in Nat /\ periodFinish \in Nat /\ rewardRate \in Nat
  /\ rewardsDuration \in Nat /\ rewardsDuration > 0
  /\ lastUpdateTime \in Nat /\ rewardPerTokenStored \in Nat
  /\ userRewardPerTokenPaid \in [Accounts -> Nat] /\ rewards \in [Accounts -> Nat]
  /\ balances \in [Accounts -> Nat] /\ paidOut \in [Accounts -> Nat]
  /\ held \in Nat /\ notified \in Nat /\ received \in Nat
  /\ paused \in BOOLEAN /\ backdated \in BOOLEAN

(* What has accrued to the stake of an account since it was last served *)
Owing(a) == balances[a] * (rewardPerTokenStored - userRewardPerTokenPaid[a])
Owed == [a \in Accounts |-> Owing(a)]

(* The time that is left to accrue over *)
Left == IF lastUpdateTime < periodFinish THEN periodFinish - lastUpdateTime ELSE 0

(* What was notified and neither paid nor credited *)
Unspent == notified - Total(paidOut) - Total(rewards)

PaidUp == \A a \in Accounts : userRewardPerTokenPaid[a] <= rewardPerTokenStored

Accounted == held = received + Principal - Total(paidOut)

Covered == ~backdated => Total(Owed) + Precision * (rewardRate * Left) <= Precision * Unspent

PoolInv == PoolTypeOK /\ PaidUp /\ Accounted /\ Covered

-----------------------------------------------------------------------------
(* Accrual *)

(* What is added to the stored rate as of now *)
Growth == IF Accrues THEN Accrued ELSE 0
PerToken == rewardPerTokenStored + Growth

From == Larger(lastUpdateTime, LastTimeRewardApplicable)

LEMMA Accounting ==
  ASSUME PoolTypeOK
  PROVE  /\ IsFiniteSet(Accounts) /\ Precision \in Nat /\ Precision > 0
         /\ TotalSupply = Total(balances) /\ TotalSupply \in Nat
         /\ Total(rewards) \in Nat /\ Total(paidOut) \in Nat
         /\ Unspent \in Int
<1>1. IsFiniteSet(Accounts) /\ Precision \in Nat /\ Precision > 0
  BY PoolAssumption
<1>2. ASSUME NEW f \in [Accounts -> Nat] PROVE Total(f) \in Nat
  <2>1. \A a \in Accounts : f[a] \in Int /\ f[a] >= 0
    OBVIOUS
  <2>2. SumFunctionOnSet(f, Accounts) \in Int /\ SumFunctionOnSet(f, Accounts) >= 0
    BY <1>1, <2>1, SumType
  <2> QED BY <2>2 DEF Total
<1>3. Total(rewards) \in Nat /\ Total(paidOut) \in Nat /\ Total(balances) \in Nat
  BY <1>2 DEF PoolTypeOK
<1>4. TotalSupply = Total(balances)
  BY DEF TotalSupply, SumFunction, Total, PoolTypeOK
<1> QED BY <1>1, <1>3, <1>4 DEF Unspent, PoolTypeOK

LEMMA Times ==
  ASSUME PoolTypeOK
  PROVE  /\ LastTimeRewardApplicable \in Nat /\ LastTimeRewardApplicable <= periodFinish
         /\ From \in Nat /\ From >= lastUpdateTime /\ From >= LastTimeRewardApplicable
         /\ Left \in Nat /\ Outstanding \in Nat
         /\ Outstanding = (IF From >= periodFinish THEN 0 ELSE periodFinish - From) * rewardRate
<1>1. /\ LastTimeRewardApplicable \in Nat /\ LastTimeRewardApplicable <= periodFinish
      /\ Left \in Nat
  BY DEF PoolTypeOK, LastTimeRewardApplicable, Left
<1>2. From \in Nat /\ From >= lastUpdateTime /\ From >= LastTimeRewardApplicable
  BY <1>1 DEF From, Larger, PoolTypeOK
<1>3. Outstanding = IF From >= periodFinish THEN 0 ELSE (periodFinish - From) * rewardRate
  BY DEF Outstanding, From
<1>4. CASE From >= periodFinish
  BY <1>1, <1>2, <1>3, <1>4 DEF PoolTypeOK
<1>5. CASE ~(From >= periodFinish)
  <2>1. periodFinish - From \in Nat /\ rewardRate \in Nat
    BY <1>2, <1>5 DEF PoolTypeOK
  <2> QED BY <1>1, <1>2, <1>3, <1>5, <2>1, MulNat
<1> QED BY <1>4, <1>5

(* The time that an accrual covers, its rate and the precision bound what   *)
(* all stakes are given; what is outstanding is the rest.                   *)
LEMMA GrowthCovered ==
  ASSUME PoolTypeOK
  PROVE  /\ Growth \in Nat
         /\ TotalSupply * Growth + Precision * Outstanding <= Precision * (rewardRate * Left)
<1> DEFINE t == lastUpdateTime
           l == LastTimeRewardApplicable
           R == rewardRate
           P == Precision
           S == TotalSupply
           o == IF From >= periodFinish THEN 0 ELSE periodFinish - From
<1>1. /\ t \in Nat /\ l \in Nat /\ R \in Nat /\ P \in Nat /\ S \in Nat /\ Left \in Nat
      /\ o \in Nat /\ Outstanding = o * R
  BY Accounting, Times DEF PoolTypeOK
<1>2. o <= Left
  BY Times DEF Left, PoolTypeOK
<1>3. CASE S = 0 \/ ~(l >= t)
  <2>1. Growth = 0
    BY <1>3 DEF Growth, Accrued, Accrues
  <2>2. o * R <= R * Left
    <3>1. o * R <= Left * R
      BY <1>1, <1>2, MulMono
    <3> QED BY <1>1, <3>1
  <2>3. o * R \in Nat /\ R * Left \in Nat
    BY <1>1, MulNat
  <2>4. P * (o * R) <= P * (R * Left)
    BY <1>1, <2>2, <2>3, MulMono
  <2>5. S * Growth = 0 /\ P * (o * R) \in Nat
    BY <1>1, <2>1, <2>3, MulNat
  <2> QED BY <1>1, <2>1, <2>4, <2>5
<1>4. CASE S # 0 /\ l >= t
  <2> DEFINE d == l - t
             y == (d * R) * P
  <2>1. Growth = y \div S
    BY <1>4 DEF Growth, Accrued, Accrues
  <2>2. d \in Nat /\ y \in Nat /\ S > 0
    <3>1. d \in Nat /\ S > 0
      BY <1>1, <1>4
    <3> QED BY <1>1, <3>1, MulNat
  <2>3. d + o = Left
    <3>1. From = l
      BY <1>1, <1>4 DEF From, Larger
    <3> QED BY <1>1, <1>4, <3>1, Times DEF Left, PoolTypeOK
  <2> HIDE DEF y
  <2>4. (y \div S) \in Nat /\ (y \div S) * S <= y
    BY <1>1, <2>2, FloorBounds
  <2>5. y = P * (R * d)
    <3>1. y = (d * R) * P
      BY DEF y
    <3> HIDE DEF d
    <3> QED BY <1>1, <2>2, <3>1
  <2>6. P * (R * Left) = y + P * (o * R)
    <3> HIDE DEF d, o
    <3>1. R * Left = R * d + R * o
      BY <1>1, <2>2, <2>3
    <3>2. R * d \in Nat /\ R * o \in Nat
      BY <1>1, <2>2, MulNat
    <3>3. P * (R * d + R * o) = P * (R * d) + P * (R * o)
      BY <1>1, <3>2
    <3>4. R * o = o * R
      BY <1>1
    <3> QED BY <2>5, <3>1, <3>3, <3>4
  <2>7. S * Growth = (y \div S) * S
    BY <1>1, <2>1, <2>4 DEF y
  <2>8. P * (o * R) \in Nat
    BY <1>1, MulNat
  <2> QED BY <1>1, <2>1, <2>2, <2>4, <2>6, <2>7, <2>8 DEF y
<1> QED BY <1>3, <1>4

(* What has accrued to the stake of an account as of now *)
Due(a) == balances[a] * (PerToken - userRewardPerTokenPaid[a])
Dues == [a \in Accounts |-> Due(a)]

LEMMA DuesSum ==
  ASSUME PoolTypeOK, PaidUp
  PROVE  /\ \A a \in Accounts : Due(a) \in Nat /\ Owing(a) \in Nat
         /\ Total(Dues) \in Nat /\ Total(Owed) \in Nat
         /\ Total(Dues) = Total(Owed) + Growth * TotalSupply
<1>1. ASSUME NEW a \in Accounts
      PROVE  /\ Due(a) \in Nat /\ Owing(a) \in Nat
             /\ Due(a) = Owing(a) + Growth * balances[a]
  <2> DEFINE b == balances[a]
             d == rewardPerTokenStored - userRewardPerTokenPaid[a]
  <2>1. /\ b \in Nat /\ d \in Nat /\ Growth \in Nat
        /\ rewardPerTokenStored \in Int /\ userRewardPerTokenPaid[a] \in Int
    BY GrowthCovered DEF PoolTypeOK, PaidUp
  <2>2. PerToken - userRewardPerTokenPaid[a] = d + Growth
    BY <2>1 DEF PerToken
  <2>3. Due(a) = b * (d + Growth) /\ Owing(a) = b * d
    BY <2>2 DEF Due, Owing
  <2> HIDE DEF b, d
  <2>4. b * (d + Growth) = b * d + Growth * b /\ b * d \in Nat /\ Growth * b \in Nat
    BY <2>1, MulNat
  <2> QED BY <2>3, <2>4 DEF b
<1>2. \A a \in Accounts : /\ Owed[a] \in Int /\ Owed[a] >= 0
                          /\ balances[a] \in Int
                          /\ Dues[a] \in Int /\ Dues[a] >= 0
                          /\ Dues[a] = Owed[a] + Growth * balances[a]
  BY <1>1 DEF Owed, Dues, PoolTypeOK
<1>3. Growth \in Int /\ IsFiniteSet(Accounts) /\ TotalSupply = SumFunctionOnSet(balances, Accounts)
  BY Accounting, GrowthCovered DEF Total
<1>4. /\ SumFunctionOnSet(Dues, Accounts)
           = SumFunctionOnSet(Owed, Accounts) + Growth * SumFunctionOnSet(balances, Accounts)
      /\ SumFunctionOnSet(Dues, Accounts) \in Nat /\ SumFunctionOnSet(Owed, Accounts) \in Nat
  <2>1. SumFunctionOnSet(Dues, Accounts)
           = SumFunctionOnSet(Owed, Accounts) + Growth * SumFunctionOnSet(balances, Accounts)
    BY <1>2, <1>3, SumLinear
  <2>2. SumFunctionOnSet(Dues, Accounts) \in Int /\ SumFunctionOnSet(Dues, Accounts) >= 0
    BY <1>2, <1>3, SumType
  <2>3. SumFunctionOnSet(Owed, Accounts) \in Int /\ SumFunctionOnSet(Owed, Accounts) >= 0
    BY <1>2, <1>3, SumType
  <2> QED BY <2>1, <2>2, <2>3
<1> QED BY <1>1, <1>3, <1>4 DEF Total

(* What was notified and not used still covers all that is due and all that *)
(* will be.                                                                 *)
LEMMA DuesCovered ==
  ASSUME PoolInv, ~backdated
  PROVE  Total(Dues) + Precision * Outstanding <= Precision * Unspent
<1>1. /\ Total(Dues) \in Nat /\ Total(Owed) \in Nat
      /\ Total(Dues) = Total(Owed) + Growth * TotalSupply
  BY DuesSum DEF PoolInv
<1>2. TotalSupply * Growth + Precision * Outstanding <= Precision * (rewardRate * Left)
  BY GrowthCovered DEF PoolInv
<1>3. Total(Owed) + Precision * (rewardRate * Left) <= Precision * Unspent
  BY DEF PoolInv, Covered
<1>4. /\ TotalSupply * Growth \in Nat /\ TotalSupply * Growth = Growth * TotalSupply
      /\ Precision * Outstanding \in Nat /\ Precision * (rewardRate * Left) \in Nat
      /\ Precision * Unspent \in Int
  <2>1. TotalSupply \in Nat /\ Precision \in Nat /\ Growth \in Nat /\ Outstanding \in Nat
        /\ rewardRate \in Nat /\ Left \in Nat /\ Unspent \in Int
    BY Accounting, Times, GrowthCovered DEF PoolInv, PoolTypeOK
  <2>2. rewardRate * Left \in Nat
    BY <2>1, MulNat
  <2> QED BY <2>1, <2>2, MulNat
<1> QED BY <1>1, <1>2, <1>3, <1>4

LEMMA EarnedIsDue ==
  ASSUME PoolTypeOK, PaidUp, NEW a \in Accounts
  PROVE  /\ Earned(a) = Due(a) \div Precision + rewards[a]
         /\ Earned(a) \in Nat /\ rewards[a] \in Nat
         /\ Due(a) \div Precision \in Nat
         /\ (Due(a) \div Precision) * Precision <= Due(a)
         /\ Accrues => RewardPerToken = PerToken /\ EarnedAt(a, RewardPerToken) = Earned(a)
<1>1. Due(a) \in Nat /\ rewards[a] \in Nat /\ rewardPerTokenStored \in Nat
  BY DuesSum DEF PoolTypeOK
<1>2. Precision \in Nat /\ Precision > 0
  BY Accounting
<1>3. Due(a) \div Precision \in Nat /\ (Due(a) \div Precision) * Precision <= Due(a)
  BY <1>1, <1>2, FloorBounds
<1>4. (IF Accrues THEN RewardPerToken ELSE rewardPerTokenStored) = PerToken
  BY <1>1 DEF RewardPerToken, PerToken, Growth
<1>5. Earned(a) = Due(a) \div Precision + rewards[a]
  BY <1>4 DEF Earned, EarnedAt, Due
<1>6. Accrues => RewardPerToken = PerToken /\ EarnedAt(a, RewardPerToken) = Earned(a)
  BY <1>4 DEF Earned
<1> QED BY <1>1, <1>3, <1>5, <1>6

(* The invariant implies that the pool is solvent. *)
LEMMA Solvent == PoolInv => PoolSolvent
<1> SUFFICES ASSUME PoolInv, ~backdated, received >= notified
             PROVE  held >= Principal + SumFunction([a \in Accounts |-> Earned(a)]) + Outstanding
  BY DEF PoolSolvent
<1> DEFINE E == [a \in Accounts |-> Earned(a)]
           Z == [a \in Accounts |-> 0]
           W == [a \in Accounts |-> Precision * Earned(a)]
           V == [a \in Accounts |-> Due(a) + Precision * rewards[a]]
<1>1. PoolTypeOK /\ PaidUp /\ Accounted
  BY DEF PoolInv
<1>2. IsFiniteSet(Accounts) /\ Precision \in Nat /\ Precision > 0 /\ Precision \in Int
  BY <1>1, Accounting
<1>3. ASSUME NEW a \in Accounts
      PROVE  /\ E[a] \in Int /\ Z[a] \in Int /\ Z[a] = 0 /\ W[a] \in Int /\ V[a] \in Int
             /\ W[a] = Z[a] + Precision * E[a]
             /\ Dues[a] \in Int /\ rewards[a] \in Int
             /\ V[a] = Dues[a] + Precision * rewards[a]
             /\ W[a] <= V[a]
  <2> DEFINE q == Due(a) \div Precision
  <2>1. /\ Earned(a) = q + rewards[a] /\ q \in Nat /\ rewards[a] \in Nat /\ q * Precision <= Due(a)
        /\ Due(a) \in Nat
    BY <1>1, EarnedIsDue, DuesSum
  <2> HIDE DEF q
  <2>2. Precision * (q + rewards[a]) = q * Precision + Precision * rewards[a]
    BY <1>2, <2>1
  <2>3. q * Precision \in Nat /\ Precision * rewards[a] \in Nat
    BY <1>2, <2>1, MulNat
  <2> QED BY <1>2, <2>1, <2>2, <2>3 DEF Dues
<1> HIDE DEF E, Z, W, V
<1>4. Total(W) = Total(Z) + Precision * Total(E)
  <2>1. SumFunctionOnSet(W, Accounts)
          = SumFunctionOnSet(Z, Accounts) + Precision * SumFunctionOnSet(E, Accounts)
    BY <1>2, <1>3, SumLinear
  <2> QED BY <2>1 DEF Total
<1>5. Total(Z) = 0
  BY <1>2, <1>3, SumOfZeros DEF Total
<1>6. Total(V) = Total(Dues) + Precision * Total(rewards)
  BY <1>2, <1>3, SumLinear DEF Total
<1>7. Total(W) <= Total(V)
  BY <1>2, <1>3, SumMono DEF Total
<1>8. Total(E) \in Int
  BY <1>2, <1>3, SumType DEF Total
<1>9. Total(Dues) + Precision * Outstanding <= Precision * Unspent
  BY DuesCovered
<1>10. /\ Total(Dues) \in Nat /\ Outstanding \in Nat /\ Unspent \in Int
       /\ Total(rewards) \in Nat /\ Total(paidOut) \in Nat /\ Principal \in Int
       /\ notified \in Nat /\ received \in Nat /\ held \in Nat
  BY <1>1, DuesSum, Times, Accounting DEF PoolTypeOK, Principal
<1>11. Precision * (Total(E) + Outstanding) <= Precision * (Unspent + Total(rewards))
  <2>1. Precision * (Total(E) + Outstanding) = Precision * Total(E) + Precision * Outstanding
    BY <1>2, <1>8, <1>10
  <2>2. Precision * (Unspent + Total(rewards)) = Precision * Unspent + Precision * Total(rewards)
    BY <1>2, <1>10
  <2>3. /\ Precision * Total(E) \in Int /\ Precision * Outstanding \in Int
        /\ Precision * Unspent \in Int /\ Precision * Total(rewards) \in Int
    BY <1>2, <1>8, <1>10
  <2> QED BY <1>4, <1>5, <1>6, <1>7, <1>9, <1>10, <2>1, <2>2, <2>3
<1>12. Total(E) + Outstanding <= Unspent + Total(rewards)
  <2> DEFINE x == Total(E) + Outstanding
             y == Unspent + Total(rewards)
  <2>1. x \in Int /\ y \in Int
    BY <1>8, <1>10
  <2>2. x * Precision <= y * Precision
    <3> HIDE DEF x, y
    <3>1. x * Precision = Precision * x /\ y * Precision = Precision * y
      BY <1>2, <2>1
    <3> QED BY <1>11, <3>1 DEF x, y
  <2> HIDE DEF x, y
  <2>3. x <= y
    BY <1>2, <2>1, <2>2, MulCancel
  <2> QED BY <2>3 DEF x, y
<1>13. held >= Principal + Total(E) + Outstanding
  BY <1>1, <1>8, <1>10, <1>12 DEF Accounted, Unspent
<1>14. SumFunction(E) = Total(E)
  BY DEF SumFunction, Total, E
<1> QED BY <1>13, <1>14 DEF E

-----------------------------------------------------------------------------
(* The steps *)

(* What stake, withdraw, getReward and exit have in common: what x has      *)
(* earned is credited or paid, and only x is touched.                       *)
Serves(x) ==
  /\ Accrues
  /\ rewardPerTokenStored' = RewardPerToken
  /\ userRewardPerTokenPaid' \in [Accounts -> Nat] /\ userRewardPerTokenPaid'[x] = RewardPerToken
  /\ lastUpdateTime' = LastTimeRewardApplicable
  /\ backdated' = (backdated \/ LastTimeRewardApplicable < From)
  /\ rewards' \in [Accounts -> Nat] /\ paidOut' \in [Accounts -> Nat]
  /\ balances' \in [Accounts -> Nat] /\ held' \in Nat
  /\ rewards'[x] + paidOut'[x] = Earned(x) + paidOut[x]
  /\ held' = held + (IF SameToken THEN balances'[x] - balances[x] ELSE 0)
                  - (paidOut'[x] - paidOut[x])
  /\ \A a \in Accounts \ {x} :
       /\ userRewardPerTokenPaid'[a] = userRewardPerTokenPaid[a]
       /\ rewards'[a] = rewards[a] /\ paidOut'[a] = paidOut[a] /\ balances'[a] = balances[a]
  /\ UNCHANGED <<now, period, paused, notified, received>>

(* A notification of a reward that starts at a time *)
Notifies(start, reward) ==
  /\ Accrues
  /\ rewardPerTokenStored' = RewardPerToken
  /\ \A a \in Accounts : userRewardPerTokenPaid'[a] = userRewardPerTokenPaid[a]
  /\ userRewardPerTokenPaid' \in [Accounts -> Nat]
  /\ rewardRate' = NotifiedRate(start, reward)
  /\ lastUpdateTime' = start /\ periodFinish' = start + rewardsDuration
  /\ backdated' = (backdated \/ start < From)
  /\ notified' = notified + reward
  /\ UNCHANGED <<now, rewardsDuration, rewards, balances, paused, held, received, paidOut>>

(* What does not concern the accounts *)
Reconfigures ==
  /\ rewardsDuration' \in Nat /\ rewardsDuration' > 0 /\ paused' \in BOOLEAN
  /\ received' \in Nat /\ held' = held + (received' - received) /\ received' >= received
  /\ UNCHANGED <<now, periodFinish, rewardRate, lastUpdateTime, rewardPerTokenStored, accounts,
                 balances, notified, paidOut, backdated>>

Rests == UNCHANGED vars

PoolMoves ==
  \/ \E x \in Accounts : Serves(x)
  \/ \E start \in Nat, reward \in Nat : Notifies(start, reward)
  \/ Reconfigures
  \/ Tick
  \/ Rests

LEMMA PerTokenType ==
  ASSUME PoolTypeOK, PaidUp
  PROVE  /\ PerToken \in Nat /\ PerToken >= rewardPerTokenStored
         /\ \A a \in Accounts : userRewardPerTokenPaid[a] <= PerToken
<1>1. Growth \in Nat /\ rewardPerTokenStored \in Nat
  BY GrowthCovered DEF PoolTypeOK
<1> QED BY <1>1 DEF PerToken, PaidUp, PoolTypeOK

(* What the modifier leaves, in terms of what was earned *)
LEMMA AccrualOf ==
  ASSUME PoolTypeOK, PaidUp, NEW x \in Accounts, UpdateReward({x})
  PROVE  /\ Accrues
         /\ rewardPerTokenStored' = RewardPerToken
         /\ userRewardPerTokenPaid' \in [Accounts -> Nat]
         /\ userRewardPerTokenPaid'[x] = RewardPerToken
         /\ \A a \in Accounts \ {x} : userRewardPerTokenPaid'[a] = userRewardPerTokenPaid[a]
         /\ lastUpdateTime' = LastTimeRewardApplicable
         /\ backdated' = (backdated \/ LastTimeRewardApplicable < From)
         /\ RewardsOf({x}) \in [Accounts -> Nat] /\ RewardsOf({x})[x] = Earned(x)
         /\ Earned(x) \in Nat
         /\ \A a \in Accounts \ {x} : RewardsOf({x})[a] = rewards[a]
<1>1. Accrues /\ RewardPerToken = PerToken /\ EarnedAt(x, RewardPerToken) = Earned(x)
  BY EarnedIsDue DEF UpdateReward, AccrueFor
<1>2. PerToken \in Nat /\ Earned(x) \in Nat
  BY PerTokenType, EarnedIsDue
<1>3. /\ rewardPerTokenStored' = RewardPerToken
      /\ userRewardPerTokenPaid' = [a \in Accounts |->
           IF a \in {x} THEN RewardPerToken ELSE userRewardPerTokenPaid[a]]
  BY DEF UpdateReward, AccrueFor
<1>4. /\ lastUpdateTime' = LastTimeRewardApplicable
      /\ backdated' = (backdated \/ LastTimeRewardApplicable < From)
  BY DEF UpdateReward, SetLastUpdate, From
<1>5. userRewardPerTokenPaid \in [Accounts -> Nat] /\ rewards \in [Accounts -> Nat]
  BY DEF PoolTypeOK
<1>6. /\ RewardsOf({x}) \in [Accounts -> Nat] /\ RewardsOf({x})[x] = Earned(x)
      /\ \A a \in Accounts \ {x} : RewardsOf({x})[a] = rewards[a]
  BY <1>1, <1>2, <1>5 DEF RewardsOf
<1>7. /\ userRewardPerTokenPaid' \in [Accounts -> Nat]
      /\ userRewardPerTokenPaid'[x] = RewardPerToken
      /\ \A a \in Accounts \ {x} : userRewardPerTokenPaid'[a] = userRewardPerTokenPaid[a]
  BY <1>1, <1>2, <1>3, <1>5
<1> QED BY <1>1, <1>2, <1>3, <1>4, <1>6, <1>7

LEMMA StakersServe ==
  ASSUME PoolTypeOK, PaidUp, NEW x \in Accounts, NEW amount \in Nat,
         Stake(x, amount) \/ Withdraw(x, amount) \/ GetReward(x) \/ Exit(x)
  PROVE  Serves(x)
<1>1. UpdateReward({x})
  BY DEF Stake, Withdraw, GetReward, Exit
<1> DEFINE c == RewardsOf({x})
<1>2. /\ Accrues
      /\ rewardPerTokenStored' = RewardPerToken
      /\ userRewardPerTokenPaid' \in [Accounts -> Nat]
      /\ userRewardPerTokenPaid'[x] = RewardPerToken
      /\ \A a \in Accounts \ {x} : userRewardPerTokenPaid'[a] = userRewardPerTokenPaid[a]
      /\ lastUpdateTime' = LastTimeRewardApplicable
      /\ backdated' = (backdated \/ LastTimeRewardApplicable < From)
      /\ c \in [Accounts -> Nat] /\ c[x] = Earned(x) /\ Earned(x) \in Nat
      /\ \A a \in Accounts \ {x} : c[a] = rewards[a]
  BY <1>1, AccrualOf
<1>3. /\ held \in Nat /\ balances \in [Accounts -> Nat] /\ paidOut \in [Accounts -> Nat]
      /\ SameToken \in BOOLEAN
  BY PoolAssumption DEF PoolTypeOK
<1> HIDE DEF c
<1>4. CASE Stake(x, amount)
  <2>1. /\ rewards' = c /\ balances' = [balances EXCEPT ![x] = @ + amount]
        /\ held' = IF SameToken THEN held + amount ELSE held
        /\ UNCHANGED <<now, period, paused, notified, received, paidOut>>
    BY <1>4 DEF Stake, c
  <2> QED BY <1>2, <1>3, <2>1 DEF Serves
<1>5. CASE Withdraw(x, amount)
  <2>1. /\ balances[x] >= amount /\ (SameToken => held >= amount)
        /\ rewards' = c /\ balances' = [balances EXCEPT ![x] = @ - amount]
        /\ held' = IF SameToken THEN held - amount ELSE held
        /\ UNCHANGED <<now, period, paused, notified, received, paidOut>>
    BY <1>5 DEF Withdraw, c
  <2> QED BY <1>2, <1>3, <2>1 DEF Serves
<1>6. CASE GetReward(x)
  <2>1. /\ c[x] <= held /\ held' = held - c[x] /\ rewards' = [c EXCEPT ![x] = 0]
        /\ paidOut' = [paidOut EXCEPT ![x] = @ + c[x]]
        /\ UNCHANGED <<now, period, balances, paused, notified, received>>
    BY <1>6 DEF GetReward, c
  <2> QED BY <1>2, <1>3, <2>1 DEF Serves
<1>7. CASE Exit(x)
  <2> DEFINE returned == IF SameToken THEN balances[x] ELSE 0
  <2>1. /\ returned + c[x] <= held /\ held' = held - returned - c[x]
        /\ rewards' = [c EXCEPT ![x] = 0]
        /\ paidOut' = [paidOut EXCEPT ![x] = @ + c[x]]
        /\ balances' = [balances EXCEPT ![x] = 0]
        /\ UNCHANGED <<now, period, paused, notified, received>>
    BY <1>7 DEF Exit, c
  <2> QED BY <1>2, <1>3, <2>1 DEF Serves
<1> QED BY <1>4, <1>5, <1>6, <1>7

(* Every step of the desk does one of these to the pool, or nothing.        *)
LEMMA DeskMovesPool ==
  ASSUME PoolTypeOK, PaidUp, OperatorNext
  PROVE  PoolMoves
<1>1. ASSUME NEW start \in Nat, NEW reward \in Nat, NotifyRewardAmount(start, reward)
      PROVE  PoolMoves
  <2>1. /\ userRewardPerTokenPaid \in [Accounts -> Nat]
        /\ userRewardPerTokenPaid' = [a \in Accounts |->
             IF a \in {} THEN RewardPerToken ELSE userRewardPerTokenPaid[a]]
    BY <1>1 DEF NotifyRewardAmount, AccrueFor, PoolTypeOK
  <2>2. /\ \A a \in Accounts : userRewardPerTokenPaid'[a] = userRewardPerTokenPaid[a]
        /\ userRewardPerTokenPaid' \in [Accounts -> Nat]
    BY <2>1
  <2>3. Notifies(start, reward)
    BY <1>1, <2>2 DEF NotifyRewardAmount, AccrueFor, SetLastUpdate, Notifies, From
  <2> QED BY <2>3 DEF PoolMoves
<1>2. ASSUME NEW d \in Nat, d > 0, SetRewardsDuration(d)
      PROVE  PoolMoves
  BY <1>2 DEF SetRewardsDuration, PoolMoves, Reconfigures, PoolTypeOK
<1>3. ASSUME NEW p \in BOOLEAN, SetPaused(p)
      PROVE  PoolMoves
  BY <1>3 DEF SetPaused, PoolMoves, Reconfigures, PoolTypeOK, period
<1>4. ASSUME NEW amount \in Nat, Receive(amount)
      PROVE  PoolMoves
  BY <1>4 DEF Receive, PoolMoves, Reconfigures, PoolTypeOK, period
<1>5. CASE StakerStep
  <2>1. PICK x \in Accounts :
          \/ \E amount \in Stakes : Stake(x, amount) \/ Withdraw(x, amount)
          \/ GetReward(x) \/ Exit(x)
    BY <1>5 DEF StakerStep
  <2>2. Stakes \subseteq Nat
    BY PoolAssumption
  <2>3. Serves(x)
    <3>1. CASE \E amount \in Stakes : Stake(x, amount) \/ Withdraw(x, amount)
      BY <2>2, <3>1, StakersServe
    <3>2. CASE GetReward(x) \/ Exit(x)
      <4>1. 0 \in Nat
        OBVIOUS
      <4> QED BY <3>2, <4>1, StakersServe
    <3> QED BY <2>1, <3>1, <3>2
  <2> QED BY <2>3 DEF PoolMoves
<1>6. CASE AdminStep
  <2>1. /\ Rewards \subseteq Nat /\ Offsets \subseteq Int
        /\ \A d \in Durations : d \in Nat /\ d > 0
    BY PoolAssumption
  <2>2. ASSUME NEW offset \in Offsets, NEW reward \in Rewards,
               now + offset >= 0, NotifyRewardAmount(now + offset, reward)
        PROVE  PoolMoves
    <3>1. now + offset \in Nat /\ reward \in Nat
      BY <2>1, <2>2 DEF PoolTypeOK
    <3> QED BY <1>1, <2>2, <3>1
  <2> QED BY <1>2, <1>3, <1>4, <1>6, <2>1, <2>2 DEF AdminStep
<1>7. CASE ~Deploys /\ Next
  <2>1. CASE PoolStep
    BY <1>5, <1>6, <2>1 DEF PoolStep, PoolMoves
  <2>2. CASE \E r \in Others \cup Range(GeyserKeys) \cup {"pool"} : RevokeRecipient(r)
    BY <2>2 DEF RevokeRecipient, PoolMoves, Rests
  <2>3. CASE TopUpPool
    <3> DEFINE required == PoolReward - held
    <3>1. required \in Int
      BY EmissionsAssumption DEF PoolTypeOK
    <3>2. IF required <= 0 THEN Rests ELSE Rests \/ Receive(required)
      BY <2>3 DEF TopUpPool, Rests
    <3> QED BY <1>4, <3>1, <3>2 DEF PoolMoves, Rests
  <2>4. CASE ModifyDuration
    <3>1. Rests \/ SetRewardsDuration(PoolDuration)
      BY <2>4 DEF ModifyDuration, Rests
    <3>2. PoolDuration \in Nat /\ PoolDuration > 0
      BY EmissionsAssumption
    <3> QED BY <1>2, <3>1, <3>2 DEF PoolMoves, Rests
  <2>5. CASE Notify
    <3>1. Rests \/ NotifyRewardAmount(PoolStart, PoolReward)
      BY <2>5 DEF Notify, Rests
    <3>2. PoolStart \in Nat /\ PoolReward \in Nat
      BY EmissionsAssumption
    <3> QED BY <1>1, <3>1, <3>2 DEF PoolMoves, Rests
  <2>6. CASE Begin \/ PrintState \/ ApproveRecipient \/ SendTokens
    BY <2>6 DEF Begin, PrintState, ApproveRecipient, SendTokens, PoolMoves, Rests
  <2>7. CASE SignalTokenLocks \/ GrantRole \/ SetUnlockSchedules
    BY <2>7 DEF SignalTokenLocks, GrantRole, SetUnlockSchedules, PoolMoves, Rests
  <2>8. CASE Allow \/ CheckTime \/ AddBonusToken \/ VerifyPool
    BY <2>8 DEF Allow, CheckTime, AddBonusToken, VerifyPool, PoolMoves, Rests
  <2> QED BY <1>7, <2>1, <2>2, <2>3, <2>4, <2>5, <2>6, <2>7, <2>8 DEF Next, ScriptStep
<1>8. CASE Deploys /\ D!Step /\ UNCHANGED <<vars, treasury>>
  BY <1>8 DEF PoolMoves, Rests
<1> QED BY <1>7, <1>8 DEF OperatorNext

-----------------------------------------------------------------------------
(* The invariant is inductive *)

LEMMA Sizes ==
  PoolTypeOK => Growth \in Nat /\ Left \in Nat /\ TotalSupply = Total(balances)
BY GrowthCovered, Times, Accounting

LEMMA SizesNext ==
  PoolTypeOK' => (Growth \in Nat /\ Left \in Nat /\ TotalSupply = Total(balances))'
BY Sizes, PTL

(* What is outstanding is what is left once the accrual has caught up. *)
LEMMA LeftAfter ==
  ASSUME PoolTypeOK, NEW l \in Nat, l >= From
  PROVE  rewardRate * (IF l < periodFinish THEN periodFinish - l ELSE 0) <= Outstanding
<1> DEFINE o == IF From >= periodFinish THEN 0 ELSE periodFinish - From
           e == IF l < periodFinish THEN periodFinish - l ELSE 0
<1>1. /\ o \in Nat /\ e \in Nat /\ e <= o /\ rewardRate \in Nat /\ Outstanding = o * rewardRate
  BY Times DEF PoolTypeOK
<1> HIDE DEF o, e
<1>2. e * rewardRate <= o * rewardRate /\ e * rewardRate = rewardRate * e
  BY <1>1, MulMono
<1> QED BY <1>1, <1>2 DEF e

LEMMA ServesKeeps ==
  ASSUME PoolInv, NEW x \in Accounts, Serves(x)
  PROVE  PoolInv'
<1> DEFINE q == Due(x) \div Precision
<1>1. PoolTypeOK /\ PaidUp /\ Accounted
  BY DEF PoolInv
<1>2. /\ Accrues /\ RewardPerToken = PerToken
      /\ Earned(x) = q + rewards[x] /\ q \in Nat /\ q * Precision <= Due(x)
  BY <1>1, EarnedIsDue DEF Serves
<1>3. /\ PerToken \in Nat /\ PerToken >= rewardPerTokenStored
      /\ \A a \in Accounts : userRewardPerTokenPaid[a] <= PerToken
  BY <1>1, PerTokenType
<1>4. LastTimeRewardApplicable \in Nat /\ IsFiniteSet(Accounts) /\ Precision \in Nat
  BY <1>1, Times, Accounting
<1>5. PoolTypeOK'
  BY <1>1, <1>2, <1>3, <1>4 DEF PoolTypeOK, Serves, period
<1>6. PaidUp'
  BY <1>2, <1>3 DEF PaidUp, Serves
<1>7. Total(rewards)' = Total(rewards) - rewards[x] + rewards'[x]
  <2>1. /\ \A a \in Accounts : rewards[a] \in Int /\ rewards'[a] \in Int
        /\ \A a \in Accounts \ {x} : rewards'[a] = rewards[a]
    BY <1>1, <1>5 DEF PoolTypeOK, Serves
  <2>2. SumFunctionOnSet(rewards', Accounts)
          = SumFunctionOnSet(rewards, Accounts) - rewards[x] + rewards'[x]
    BY <1>4, <2>1, SumChanged
  <2> QED BY <2>2 DEF Total
<1>8. Total(paidOut)' = Total(paidOut) - paidOut[x] + paidOut'[x]
  <2>1. /\ \A a \in Accounts : paidOut[a] \in Int /\ paidOut'[a] \in Int
        /\ \A a \in Accounts \ {x} : paidOut'[a] = paidOut[a]
    BY <1>1, <1>5 DEF PoolTypeOK, Serves
  <2>2. SumFunctionOnSet(paidOut', Accounts)
          = SumFunctionOnSet(paidOut, Accounts) - paidOut[x] + paidOut'[x]
    BY <1>4, <2>1, SumChanged
  <2> QED BY <2>2 DEF Total
<1>9. Total(balances)' = Total(balances) - balances[x] + balances'[x]
  <2>1. /\ \A a \in Accounts : balances[a] \in Int /\ balances'[a] \in Int
        /\ \A a \in Accounts \ {x} : balances'[a] = balances[a]
    BY <1>1, <1>5 DEF PoolTypeOK, Serves
  <2>2. SumFunctionOnSet(balances', Accounts)
          = SumFunctionOnSet(balances, Accounts) - balances[x] + balances'[x]
    BY <1>4, <2>1, SumChanged
  <2> QED BY <2>2 DEF Total
<1>10. /\ Total(rewards) \in Nat /\ Total(paidOut) \in Nat /\ Total(balances) \in Nat
       /\ rewards[x] \in Nat /\ rewards'[x] \in Nat /\ paidOut[x] \in Nat /\ paidOut'[x] \in Nat
       /\ balances[x] \in Nat /\ balances'[x] \in Nat
       /\ held \in Nat /\ held' \in Nat /\ received \in Nat /\ notified \in Nat
       /\ SameToken \in BOOLEAN
  BY <1>1, <1>5, Accounting, PoolAssumption DEF PoolTypeOK
<1>11. Accounted'
  <2>1. Principal = (IF SameToken THEN Total(balances) ELSE 0)
    BY <1>1, Sizes DEF Principal
  <2>2. Principal' = (IF SameToken THEN Total(balances)' ELSE 0)
    BY <1>5, SizesNext DEF Principal
  <2>3. /\ held' = held + (IF SameToken THEN balances'[x] - balances[x] ELSE 0)
                        - (paidOut'[x] - paidOut[x])
        /\ received' = received
    BY DEF Serves
  <2>4. held = received + Principal - Total(paidOut)
    BY <1>1 DEF Accounted
  <2>5. held' = received' + Principal' - Total(paidOut)'
    BY <1>8, <1>9, <1>10, <2>1, <2>2, <2>3, <2>4
  <2> QED BY <2>5 DEF Accounted
<1>12. Covered'
  <2> SUFFICES ASSUME ~backdated'
               PROVE  Total(Owed)' + Precision * (rewardRate' * Left') <= Precision * Unspent'
    BY DEF Covered
  <2>1. /\ ~backdated /\ LastTimeRewardApplicable >= From
        /\ rewardRate' = rewardRate /\ periodFinish' = periodFinish /\ notified' = notified
        /\ lastUpdateTime' = LastTimeRewardApplicable
    <3>1. ~backdated /\ ~(LastTimeRewardApplicable < From)
      BY Zenon DEF Serves
    <3>2. From \in Nat
      BY <1>1, Times
    <3>3. /\ rewardRate' = rewardRate /\ periodFinish' = periodFinish /\ notified' = notified
          /\ lastUpdateTime' = LastTimeRewardApplicable
      BY DEF Serves, period
    <3> QED BY <1>4, <3>1, <3>2, <3>3
  <2>2. Total(Dues) + Precision * Outstanding <= Precision * Unspent
    BY <2>1, DuesCovered
  <2>3. Total(Owed)' = Total(Dues) - Due(x)
    <3>1. ASSUME NEW a \in Accounts \ {x} PROVE Owed'[a] = Dues[a]
      BY <1>2 DEF Serves, Owed, Owing, Dues, Due
    <3>2. Owed'[x] = 0
      <4>1. Owed'[x] = balances'[x] * (PerToken - PerToken)
        BY <1>2 DEF Serves, Owed, Owing
      <4> QED BY <1>3, <1>10, <4>1
    <3>3. /\ \A a \in Accounts : Dues[a] \in Int /\ Owed'[a] \in Int
          /\ \A a \in Accounts \ {x} : Owed'[a] = Dues[a]
          /\ Dues[x] = Due(x) /\ Due(x) \in Nat
      BY <1>1, <3>1, <3>2, DuesSum DEF Dues
    <3>4. SumFunctionOnSet(Owed', Accounts)
            = SumFunctionOnSet(Dues, Accounts) - Dues[x] + Owed'[x]
      BY <1>4, <3>3, SumChanged
    <3>5. Total(Dues) \in Nat
      BY <1>1, DuesSum
    <3> QED BY <3>2, <3>3, <3>4, <3>5 DEF Total
  <2>4. Unspent' = Unspent - q
    <3>1. rewards'[x] + paidOut'[x] = Earned(x) + paidOut[x]
      BY DEF Serves
    <3>2. Unspent' = notified' - Total(paidOut)' - Total(rewards)'
      BY DEF Unspent
    <3> HIDE DEF q
    <3> QED BY <1>2, <1>7, <1>8, <1>10, <2>1, <3>1, <3>2 DEF Unspent
  <2>5. rewardRate' * Left' <= Outstanding
    <3>1. Left' = IF LastTimeRewardApplicable < periodFinish
                  THEN periodFinish - LastTimeRewardApplicable ELSE 0
      BY <2>1 DEF Left
    <3> QED BY <1>1, <1>4, <2>1, <3>1, LeftAfter
  <2>6. /\ rewardRate' * Left' \in Nat /\ Outstanding \in Nat /\ Unspent \in Int
        /\ Total(Dues) \in Nat /\ Due(x) \in Nat
    <3>1. rewardRate' \in Nat /\ Left' \in Nat
      BY <1>5, SizesNext DEF PoolTypeOK
    <3>2. rewardRate' * Left' \in Nat
      BY <3>1, MulNat
    <3> QED BY <1>1, <3>2, Times, Accounting, DuesSum
  <2>7. Precision * (rewardRate' * Left') <= Precision * Outstanding
    BY <1>4, <2>5, <2>6, MulMono
  <2>8. Precision * Unspent' = Precision * Unspent - q * Precision
    <3>1. Precision * (Unspent - q) = Precision * Unspent - q * Precision
      <4> HIDE DEF q
      <4> QED BY <1>2, <1>4, <2>6
    <3> QED BY <2>4, <3>1
  <2>9. /\ Precision * (rewardRate' * Left') \in Nat /\ Precision * Outstanding \in Nat
        /\ Precision * Unspent \in Int /\ q * Precision \in Nat
    BY <1>2, <1>4, <2>6, MulNat
  <2> QED BY <1>2, <2>2, <2>3, <2>6, <2>7, <2>8, <2>9
<1> QED BY <1>5, <1>6, <1>11, <1>12 DEF PoolInv

LEMMA NotifiesKeeps ==
  ASSUME PoolInv, NEW start \in Nat, NEW reward \in Nat, Notifies(start, reward)
  PROVE  PoolInv'
<1> DEFINE span == rewardsDuration
           y == reward + Leftover(start)
<1>1. PoolTypeOK /\ PaidUp /\ Accounted
  BY DEF PoolInv
<1>2. /\ Accrues /\ \A a \in Accounts : RewardPerToken = PerToken
      /\ rewardPerTokenStored' = RewardPerToken
  BY <1>1, EarnedIsDue DEF Notifies
<1>3. /\ PerToken \in Nat /\ PerToken >= rewardPerTokenStored
      /\ \A a \in Accounts : userRewardPerTokenPaid[a] <= PerToken
  BY <1>1, PerTokenType
<1>4. IsFiniteSet(Accounts) /\ Precision \in Nat
  BY <1>1, Accounting
<1>5. RewardPerToken = PerToken
  BY <1>1, <1>2 DEF RewardPerToken, PerToken, Growth
<1>6. /\ Leftover(start) \in Nat /\ y \in Nat /\ span \in Nat /\ span > 0
      /\ rewardRate' = y \div span /\ y \div span \in Nat /\ (y \div span) * span <= y
  <2>1. Leftover(start) \in Nat
    <3>1. periodFinish \in Nat /\ rewardRate \in Nat
      BY <1>1 DEF PoolTypeOK
    <3>2. CASE start >= periodFinish
      BY <3>2 DEF Leftover
    <3>3. CASE ~(start >= periodFinish)
      <4>1. periodFinish - start \in Nat
        BY <3>1, <3>3
      <4> QED BY <3>1, <3>3, <4>1, MulNat DEF Leftover
    <3> QED BY <3>2, <3>3
  <2>2. y \in Nat /\ span \in Nat /\ span > 0
    BY <1>1, <2>1 DEF PoolTypeOK
  <2>3. rewardRate' = y \div span
    BY DEF Notifies, NotifiedRate
  <2> HIDE DEF y, span
  <2>4. y \div span \in Nat /\ (y \div span) * span <= y
    BY <2>2, FloorBounds
  <2> QED BY <2>1, <2>2, <2>3, <2>4
<1>7. PoolTypeOK'
  <2>1. start + rewardsDuration \in Nat /\ notified + reward \in Nat
    BY <1>1 DEF PoolTypeOK
  <2>2. (backdated \/ start < From) \in BOOLEAN
    OBVIOUS
  <2> QED BY <1>1, <1>2, <1>3, <1>5, <1>6, <2>1, <2>2 DEF PoolTypeOK, Notifies
<1>8. PaidUp'
  BY <1>2, <1>3, <1>5 DEF PaidUp, Notifies
<1>9. /\ Total(rewards)' = Total(rewards) /\ Total(paidOut)' = Total(paidOut)
      /\ Total(balances)' = Total(balances)
  BY DEF Notifies, Total
<1>10. Accounted'
  BY <1>1, <1>7, <1>9, Sizes, SizesNext DEF Accounted, Principal, Notifies
<1>11. Covered'
  <2> SUFFICES ASSUME ~backdated'
               PROVE  Total(Owed)' + Precision * (rewardRate' * Left') <= Precision * Unspent'
    BY DEF Covered
  <2>1. ~backdated /\ start >= From
    <3>1. ~backdated /\ ~(start < From)
      BY Zenon DEF Notifies
    <3>2. From \in Nat
      BY <1>1, Times
    <3> QED BY <3>1, <3>2
  <2>2. Total(Dues) + Precision * Outstanding <= Precision * Unspent
    BY <2>1, DuesCovered
  <2>3. Total(Owed)' = Total(Dues)
    <3>1. \A a \in Accounts : Owed'[a] = Dues[a]
      BY <1>2, <1>5 DEF Notifies, Owed, Owing, Dues, Due
    <3>2. \A a \in Accounts : Dues[a] \in Int
      BY <1>1, DuesSum DEF Dues
    <3>3. SumFunctionOnSet(Owed', Accounts) = SumFunctionOnSet(Dues, Accounts)
      BY <1>4, <3>1, <3>2, SumSame
    <3> QED BY <3>3 DEF Total
  <2>4. Unspent' = Unspent + reward
    <3>1. Unspent' = notified' - Total(paidOut)' - Total(rewards)' /\ notified' = notified + reward
      BY DEF Unspent, Notifies
    <3>2. Total(rewards) \in Nat /\ Total(paidOut) \in Nat /\ notified \in Nat
      BY <1>1, Accounting DEF PoolTypeOK
    <3> QED BY <1>9, <3>1, <3>2 DEF Unspent
  <2>5. Left' = span
    <3>1. lastUpdateTime' = start /\ periodFinish' = start + span
      BY DEF Notifies
    <3> HIDE DEF span
    <3> QED BY <1>6, <3>1 DEF Left
  <2>6. Leftover(start) <= Outstanding
    <3> DEFINE e == IF start < periodFinish THEN periodFinish - start ELSE 0
    <3>1. rewardRate * e <= Outstanding
      BY <1>1, <2>1, LeftAfter
    <3>2. e \in Nat /\ rewardRate \in Nat /\ Leftover(start) = e * rewardRate
      BY <1>1 DEF PoolTypeOK, Leftover
    <3> HIDE DEF e
    <3>3. rewardRate * e = e * rewardRate
      BY <3>2
    <3> QED BY <3>1, <3>2, <3>3
  <2>7. /\ Total(Dues) \in Nat /\ Outstanding \in Nat /\ Unspent \in Int
    BY <1>1, DuesSum, Times, Accounting
  <2>8. rewardRate' * Left' <= reward + Outstanding /\ rewardRate' * Left' \in Nat
    <3>1. rewardRate' * Left' = (y \div span) * span
      BY <1>6, <2>5
    <3> DEFINE r == y \div span
    <3>2. r * span \in Nat
      <4> HIDE DEF y
      <4> QED BY <1>6, MulNat
    <3> QED BY <1>6, <2>6, <2>7, <3>1, <3>2
  <2>9. Precision * (rewardRate' * Left') <= Precision * (reward + Outstanding)
    BY <1>4, <2>7, <2>8, MulMono
  <2>10. /\ Precision * (reward + Outstanding) = Precision * reward + Precision * Outstanding
         /\ Precision * (Unspent + reward) = Precision * Unspent + Precision * reward
    BY <1>4, <2>7
  <2>11. /\ Precision * (rewardRate' * Left') \in Nat /\ Precision * Outstanding \in Nat
         /\ Precision * reward \in Nat /\ Precision * Unspent \in Int
    BY <1>4, <2>7, <2>8, MulNat
  <2> QED BY <2>2, <2>3, <2>4, <2>7, <2>9, <2>10, <2>11
<1> QED BY <1>7, <1>8, <1>10, <1>11 DEF PoolInv

LEMMA AddedIsNat ==
  ASSUME NEW a \in Nat, NEW b \in Nat, NEW c \in Nat, c >= b
  PROVE  a + (c - b) \in Nat
OBVIOUS

LEMMA OthersKeep ==
  ASSUME PoolInv, Reconfigures \/ Tick \/ Rests
  PROVE  PoolInv'
<1>1. PoolTypeOK /\ PaidUp /\ Accounted /\ Covered
  BY DEF PoolInv
<1>2. /\ lastUpdateTime' = lastUpdateTime /\ periodFinish' = periodFinish
      /\ rewardRate' = rewardRate /\ rewardPerTokenStored' = rewardPerTokenStored
      /\ userRewardPerTokenPaid' = userRewardPerTokenPaid /\ rewards' = rewards
      /\ balances' = balances /\ notified' = notified /\ paidOut' = paidOut
      /\ backdated' = backdated
  BY DEF Reconfigures, Tick, Rests, vars, poolVars, period, accounts
<1>3. /\ now' \in Nat /\ rewardsDuration' \in Nat /\ rewardsDuration' > 0 /\ paused' \in BOOLEAN
      /\ held' \in Nat /\ received' \in Nat /\ held' = held + (received' - received)
  <2>1. CASE Reconfigures
    <3>1. /\ rewardsDuration' \in Nat /\ rewardsDuration' > 0 /\ paused' \in BOOLEAN
          /\ now' = now
      BY <2>1 DEF Reconfigures
    <3>4. received' \in Nat /\ held' = held + (received' - received) /\ received' >= received
      BY <2>1 DEF Reconfigures
    <3>2. now \in Nat /\ held \in Nat /\ received \in Nat
      BY <1>1 DEF PoolTypeOK
    <3>3. held + (received' - received) \in Nat
      BY <3>2, <3>4, AddedIsNat
    <3> QED BY <3>1, <3>2, <3>3, <3>4, Zenon
  <2>2. CASE Tick
    BY <1>1, <2>2 DEF Tick, poolVars, period, PoolTypeOK
  <2>3. CASE Rests
    BY <1>1, <2>3 DEF Rests, vars, poolVars, period, PoolTypeOK
  <2> QED BY <2>1, <2>2, <2>3
<1>4. PoolTypeOK'
  BY <1>1, <1>2, <1>3 DEF PoolTypeOK
<1>5. PaidUp'
  BY <1>1, <1>2 DEF PaidUp
<1>6. Accounted'
  <2>1. Principal' = Principal /\ Total(paidOut)' = Total(paidOut)
    BY <1>2 DEF Principal, TotalSupply, Total
  <2>2. Principal \in Int /\ Total(paidOut) \in Int /\ held \in Int /\ received \in Int
    BY <1>1, Accounting DEF Principal, PoolTypeOK
  <2> QED BY <1>1, <1>3, <2>1, <2>2 DEF Accounted
<1>7. Covered'
  BY <1>1, <1>2 DEF Covered, Owed, Owing, Left, Unspent, Total
<1> QED BY <1>4, <1>5, <1>6, <1>7 DEF PoolInv

LEMMA PoolInitially == OperatorInit => PoolInv
<1> SUFFICES ASSUME OperatorInit PROVE PoolInv
  OBVIOUS
<1>1. PoolInit
  BY DEF OperatorInit, Init
<1>2. \A d \in Durations : d \in Nat /\ d > 0
  BY PoolAssumption
<1>3. PoolTypeOK /\ PaidUp
  <2>1. paused \in BOOLEAN /\ backdated \in BOOLEAN
    BY <1>1, Zenon DEF PoolInit
  <2>2. /\ now = 0 /\ periodFinish = 0 /\ rewardRate = 0 /\ rewardsDuration \in Durations
        /\ lastUpdateTime = 0 /\ rewardPerTokenStored = 0
        /\ held = 0 /\ notified = 0 /\ received = 0
        /\ userRewardPerTokenPaid = [a \in Accounts |-> 0] /\ rewards = [a \in Accounts |-> 0]
        /\ balances = [a \in Accounts |-> 0] /\ paidOut = [a \in Accounts |-> 0]
    BY <1>1 DEF PoolInit
  <2> QED BY <1>2, <2>1, <2>2 DEF PoolTypeOK, PaidUp
<1>4. IsFiniteSet(Accounts)
  BY PoolAssumption
<1>5. /\ \A a \in Accounts : rewards[a] = 0 /\ paidOut[a] = 0 /\ balances[a] = 0
      /\ \A a \in Accounts : Owed[a] = 0
      /\ held = 0 /\ received = 0 /\ notified = 0 /\ rewardRate = 0
  BY <1>1 DEF PoolInit, Owed, Owing
<1>6. Total(rewards) = 0 /\ Total(paidOut) = 0 /\ Total(balances) = 0 /\ Total(Owed) = 0
  BY <1>4, <1>5, SumOfZeros DEF Total
<1>7. Accounted
  BY <1>3, <1>5, <1>6, Sizes DEF Accounted, Principal
<1>8. Covered
  <2>1. Left \in Nat /\ Precision \in Nat
    BY <1>3, Sizes, Accounting
  <2> QED BY <1>5, <1>6, <2>1 DEF Covered, Unspent
<1> QED BY <1>3, <1>7, <1>8 DEF PoolInv

LEMMA PoolStays == PoolInv /\ [OperatorNext]_operatorVars => PoolInv'
<1> SUFFICES ASSUME PoolInv, [OperatorNext]_operatorVars PROVE PoolInv'
  OBVIOUS
<1>1. PoolTypeOK /\ PaidUp
  BY DEF PoolInv
<1>2. PoolMoves
  BY <1>1, DeskMovesPool DEF operatorVars, allVars, PoolMoves, Rests
<1> QED BY <1>2, ServesKeeps, NotifiesKeeps, OthersKeep DEF PoolMoves

(* The pool can pay every stake back and pay all that was earned or is to   *)
(* be, if it was sent what was notified and its accrual was not set back.   *)
THEOREM PoolAlwaysSolvent == OperatorSpec => []PoolSolvent
<1>1. OperatorInit => PoolInv
  BY PoolInitially
<1>2. PoolInv /\ [OperatorNext]_operatorVars => PoolInv'
  BY PoolStays
<1>3. PoolInv => PoolSolvent
  BY Solvent
<1> QED BY <1>1, <1>2, <1>3, PTL DEF OperatorSpec, operatorVars

-----------------------------------------------------------------------------
(* What is earned stays earned *)

Keeps == \A a \in Accounts : Earned(a)' + paidOut[a]' >= Earned(a) + paidOut[a]

LEMMA FurtherFrom ==
  ASSUME NEW l \in Nat, NEW m \in Nat, NEW t \in Nat, t <= l, l <= m
  PROVE  l - t \in Nat /\ m - t \in Nat /\ l - t <= m - t
OBVIOUS

LEMMA AddMore == ASSUME NEW c \in Nat, NEW a \in Nat PROVE c + a >= c
OBVIOUS

LEMMA AddMono ==
  ASSUME NEW c \in Nat, NEW a \in Nat, NEW b \in Nat, b <= a
  PROVE  c + a >= c + b
OBVIOUS

LEMMA EarnedShape ==
  PoolInv => \A a \in Accounts :
    /\ Earned(a) = Due(a) \div Precision + rewards[a]
    /\ Due(a) \in Nat /\ Due(a) \div Precision \in Nat /\ Earned(a) \in Nat
    /\ rewards[a] \in Nat /\ paidOut[a] \in Nat
BY EarnedIsDue, DuesSum DEF PoolInv, PoolTypeOK

LEMMA EarnedShapeNext ==
  PoolInv' => (\A a \in Accounts :
    /\ Earned(a) = Due(a) \div Precision + rewards[a]
    /\ Due(a) \in Nat /\ Due(a) \div Precision \in Nat /\ Earned(a) \in Nat
    /\ rewards[a] \in Nat /\ paidOut[a] \in Nat)'
BY EarnedShape, PTL

(* The rate of all stakes never falls: an accrual stores what it was, and   *)
(* time only adds to it.                                                    *)
LEMMA GrowthRises ==
  ASSUME PoolTypeOK, PoolTypeOK', now' \in {now, now + 1},
         lastUpdateTime' = lastUpdateTime, periodFinish' = periodFinish,
         rewardRate' = rewardRate, balances' = balances
  PROVE  Growth' >= Growth
<1> DEFINE l == LastTimeRewardApplicable
           m == LastTimeRewardApplicable'
           t == lastUpdateTime
           S == TotalSupply
           y == ((l - t) * rewardRate) * Precision
           z == ((m - t) * rewardRate) * Precision
<1>1. TotalSupply' = S
  BY DEF TotalSupply
<1>2. l \in Nat /\ m \in Nat /\ l <= m
  BY DEF LastTimeRewardApplicable, PoolTypeOK
<1>3. t \in Nat /\ rewardRate \in Nat /\ Precision \in Nat /\ S \in Nat
  BY Accounting DEF PoolTypeOK
<1>4. Growth \in Nat /\ Growth' \in Nat
  BY Sizes, SizesNext
<1>5. CASE S = 0 \/ ~(l >= t)
  <2>1. Growth = 0
    BY <1>5 DEF Growth, Accrued, Accrues
  <2> QED BY <1>4, <2>1
<1>6. CASE S # 0 /\ l >= t
  <2>1. S > 0 /\ l - t \in Nat /\ m - t \in Nat /\ l - t <= m - t
    <3> HIDE DEF l, m, t, S
    <3> QED BY <1>2, <1>3, <1>6, FurtherFrom
  <2>2. Growth = y \div S
    BY <1>6 DEF Growth, Accrued, Accrues
  <2>3. Growth' = z \div S
    <3>1. Accrues'
      BY <1>1, <1>2, <1>3, <1>6 DEF Accrues
    <3>2. Accrued' = z \div S
      BY <1>1, <1>6 DEF Accrued
    <3> QED BY <3>1, <3>2 DEF Growth
  <2>4. y \in Nat /\ z \in Nat /\ y <= z
    <3> DEFINE d == l - t
               e == m - t
    <3>1. d \in Nat /\ e \in Nat /\ d <= e
      BY <2>1
    <3> HIDE DEF d, e
    <3>2. d * rewardRate \in Nat /\ e * rewardRate \in Nat /\ d * rewardRate <= e * rewardRate
      BY <1>3, <3>1, MulNat, MulMono
    <3>3. /\ (d * rewardRate) * Precision \in Nat /\ (e * rewardRate) * Precision \in Nat
          /\ (d * rewardRate) * Precision <= (e * rewardRate) * Precision
      BY <1>3, <3>2, MulNat, MulMono
    <3> QED BY <3>3 DEF d, e
  <2> HIDE DEF y, z, S
  <2>5. y \div S <= z \div S
    BY <1>3, <2>1, <2>4, FloorMono
  <2> QED BY <2>2, <2>3, <2>5, <1>4
<1> QED BY <1>5, <1>6

(* Whoever is not served keeps what is earned if the rate does not fall. *)
LEMMA NotServed ==
  ASSUME PoolInv, PoolInv', PerToken' >= PerToken, NEW a \in Accounts,
         balances'[a] = balances[a], userRewardPerTokenPaid'[a] = userRewardPerTokenPaid[a],
         rewards'[a] = rewards[a], paidOut'[a] = paidOut[a]
  PROVE  Earned(a)' + paidOut[a]' >= Earned(a) + paidOut[a]
<1> DEFINE b == balances[a]
           lo == PerToken - userRewardPerTokenPaid[a]
           hi == PerToken' - userRewardPerTokenPaid[a]
           y == Due(a)
           z == Due(a)'
<1>1. /\ Earned(a) = y \div Precision + rewards[a] /\ y \in Nat /\ y \div Precision \in Nat
      /\ Earned(a)' = z \div Precision + rewards[a] /\ z \in Nat /\ z \div Precision \in Nat
      /\ rewards[a] \in Nat /\ paidOut[a] \in Nat
  BY EarnedShape, EarnedShapeNext
<1>2. y = b * lo /\ z = b * hi
  BY DEF Due
<1>3. b \in Nat /\ lo \in Int /\ hi \in Int /\ lo <= hi
  <2>1. PerToken \in Nat /\ userRewardPerTokenPaid[a] \in Nat /\ b \in Nat
    BY PerTokenType DEF PoolInv, PoolTypeOK
  <2>2. PerToken' \in Int
    BY SizesNext DEF PoolInv, PoolTypeOK, PerToken
  <2> QED BY <2>1, <2>2
<1> HIDE DEF b, lo, hi, y, z
<1>4. y <= z
  BY <1>2, <1>3, MulMono
<1>5. Precision \in Nat /\ Precision > 0
  BY Accounting DEF PoolInv
<1>6. y \div Precision <= z \div Precision
  BY <1>1, <1>4, <1>5, FloorMono
<1> QED BY <1>1, <1>6

LEMMA StepKeeps ==
  ASSUME PoolInv, PoolInv', PoolMoves
  PROVE  Keeps
<1>1. PoolTypeOK /\ PaidUp /\ PoolTypeOK'
  BY DEF PoolInv
<1>2. /\ Growth \in Nat /\ Growth' \in Nat /\ PerToken \in Nat /\ rewardPerTokenStored \in Nat
      /\ rewardPerTokenStored' \in Nat
  BY <1>1, Sizes, SizesNext, PerTokenType DEF PoolTypeOK
<1>3. ASSUME rewardPerTokenStored' = RewardPerToken, Accrues
      PROVE  PerToken' >= PerToken
  <2>1. RewardPerToken = PerToken
    BY <1>3 DEF RewardPerToken, PerToken, Growth
  <2>2. PerToken' = PerToken + Growth'
    BY <1>3, <2>1 DEF PerToken
  <2>3. PerToken + Growth' >= PerToken
    BY <1>2, AddMore
  <2> QED BY <1>2, <2>2, <2>3
<1>4. ASSUME NEW x \in Accounts, Serves(x), NEW a \in Accounts
      PROVE  Earned(a)' + paidOut[a]' >= Earned(a) + paidOut[a]
  <2>1. CASE a = x
    <3>1. rewards'[x] + paidOut'[x] = Earned(x) + paidOut[x]
      BY <1>4 DEF Serves
    <3>2. /\ Earned(x)' = Due(x)' \div Precision + rewards'[x]
          /\ Due(x)' \div Precision \in Nat /\ rewards'[x] \in Nat /\ paidOut'[x] \in Nat
          /\ Earned(x) \in Nat /\ paidOut[x] \in Nat
      BY EarnedShape, EarnedShapeNext
    <3> DEFINE q == Due(x)' \div Precision
    <3> HIDE DEF q
    <3>3. Earned(x)' = q + rewards'[x] /\ q \in Nat
      BY <3>2 DEF q
    <3>4. Earned(x)' + paidOut'[x] >= Earned(x) + paidOut[x]
      BY <3>1, <3>2, <3>3
    <3> QED BY <2>1, <3>4
  <2>2. CASE a # x
    <3>1. PerToken' >= PerToken
      BY <1>3, <1>4 DEF Serves
    <3>2. /\ balances'[a] = balances[a] /\ userRewardPerTokenPaid'[a] = userRewardPerTokenPaid[a]
          /\ rewards'[a] = rewards[a] /\ paidOut'[a] = paidOut[a]
      BY <1>4, <2>2 DEF Serves
    <3> QED BY <3>1, <3>2, NotServed
  <2> QED BY <2>1, <2>2
<1>5. ASSUME NEW start \in Nat, NEW reward \in Nat, Notifies(start, reward), NEW a \in Accounts
      PROVE  Earned(a)' + paidOut[a]' >= Earned(a) + paidOut[a]
  <2>1. PerToken' >= PerToken
    BY <1>3, <1>5 DEF Notifies
  <2>2. /\ balances'[a] = balances[a] /\ userRewardPerTokenPaid'[a] = userRewardPerTokenPaid[a]
        /\ rewards'[a] = rewards[a] /\ paidOut'[a] = paidOut[a]
    BY <1>5 DEF Notifies
  <2> QED BY <2>1, <2>2, NotServed
<1>6. ASSUME Reconfigures \/ Tick \/ Rests, NEW a \in Accounts
      PROVE  Earned(a)' + paidOut[a]' >= Earned(a) + paidOut[a]
  <2>1. /\ lastUpdateTime' = lastUpdateTime /\ periodFinish' = periodFinish
        /\ rewardRate' = rewardRate /\ rewardPerTokenStored' = rewardPerTokenStored
        /\ userRewardPerTokenPaid' = userRewardPerTokenPaid /\ rewards' = rewards
        /\ balances' = balances /\ paidOut' = paidOut
    BY <1>6 DEF Reconfigures, Tick, Rests, vars, poolVars, period, accounts
  <2>2. now' \in {now, now + 1}
    BY <1>6 DEF Reconfigures, Tick, Rests, vars
  <2>3. Growth' >= Growth
    BY <1>1, <2>1, <2>2, GrowthRises
  <2>4. PerToken' >= PerToken
    <3>1. rewardPerTokenStored + Growth' >= rewardPerTokenStored + Growth
      BY <1>2, <2>3, AddMono
    <3> QED BY <2>1, <3>1 DEF PerToken
  <2> QED BY <2>1, <2>4, NotServed
<1> QED BY <1>4, <1>5, <1>6 DEF PoolMoves, Keeps

(* What an account has earned is kept for it or paid to it, whatever others *)
(* do: the stored rate never falls, and an accrual credits what was earned. *)
THEOREM AlwaysKeepsEarned == OperatorSpec => EarnedIsKept
<1>1. OperatorInit => PoolInv
  BY PoolInitially
<1>2. PoolInv /\ [OperatorNext]_operatorVars => PoolInv'
  BY PoolStays
<1>3. PoolInv /\ PoolInv' /\ [OperatorNext]_operatorVars => [Keeps]_vars
  <2> SUFFICES ASSUME PoolInv, PoolInv', [OperatorNext]_operatorVars PROVE Keeps
    OBVIOUS
  <2>1. PoolTypeOK /\ PaidUp
    BY DEF PoolInv
  <2>2. PoolMoves
    BY <2>1, DeskMovesPool DEF operatorVars, allVars, PoolMoves, Rests
  <2> QED BY <2>2, StepKeeps
<1> QED BY <1>1, <1>2, <1>3, PTL DEF OperatorSpec, operatorVars, EarnedIsKept, Keeps

-----------------------------------------------------------------------------
(* What FlattenSeq joins *)

LEMMA FlattenType ==
  ASSUME NEW S, NEW seqs \in Seq(Seq(S))
  PROVE  FlattenSeq(seqs) \in Seq(S)
<1>1. CASE seqs = <<>>
  BY <1>1 DEF FlattenSeq
<1>2. CASE seqs # <<>>
  <2>1. FlattenSeq(seqs) = (CHOOSE f : Joins(f, seqs, Len(seqs)))[Len(seqs)]
    BY <1>2 DEF FlattenSeq, Joins
  <2> QED BY <1>2, <2>1, JoinedType
<1> QED BY <1>1, <1>2

-----------------------------------------------------------------------------
(* The unlock schedules and what pays for them *)

Promised(a) == SumFunction([k \in Keys |-> locked[k][a]])
DueInAWeek(a) == SumFunction([k \in Keys |-> GeyserDists[k][a]])
Funds(a) == InFragments(a, sent["tree"][a])

(* There is room for one more week. *)
Slack(a) == Promised(a) + DueInAWeek(a) <= Funds(a)

(* What the tree is topped up with covers what the week distributes: the   *)
(* amount that RewardsSchedule.py:227 means to make it.                    *)
TopUpsCover == \A a \in Assets : DueInAWeek(a) <= InFragments(a, TopUp[a])

(* The schedule, from its end *)
Signal == Do("signalTokenLocks")
Approving == {[op |-> "approve", to |-> k, checked |-> FALSE] : k \in Keys}
Signals(t) == \E s \in Seq(Approving) : t = s \o Signal
ToManager == Send("digg", "manager", HarvestDigg, "never") \o (Approvals \o Signal)
ToTreeDigg == Send("digg", "tree", TopUp["digg"], "exactly") \o ToManager
ToTreeBadger == Send("badger", "tree", TopUp["badger"], "exactly") \o ToTreeDigg

OnSchedule ==
  \/ todo \in {<<>>, EmitSchedule, ToTreeBadger}
  \/ todo = ToTreeDigg /\ Slack("badger")
  \/ (todo = ToManager \/ Signals(todo)) /\ \A a \in Assets : Slack(a)

(* The other scripts promise nothing and take nothing from the tree. *)
Quiet(i) ==
  /\ i.op # "signalTokenLocks"
  /\ i.op = "send" /\ i.to = "tree" => i.asset \in Assets /\ i.amount \in Nat
Quietly(t) == \E S : t \in Seq(S) /\ \A i \in S : Quiet(i)

BooksOK ==
  /\ locked \in [Keys -> [Assets -> Nat]]
  /\ "tree" \in DOMAIN sent /\ sent["tree"] \in [Assets -> Nat]

LocksInv ==
  /\ BooksOK /\ LocksAreFunded
  /\ ~Deploys => IF script = "schedule" THEN OnSchedule ELSE Quietly(todo)

(* Sums of the books *)

LEMMA KeysFinite == IsFiniteSet(Keys)
<1> DEFINE S == 1..Len(Order)
<1>1. IsFiniteSet(S)
  BY EmissionsAssumption, FS_Interval
<1>2. Order \in [S -> Keys] /\ \A k \in Keys : \E i \in S : Order[i] = k
  <2>1. Order \in [S -> Keys] /\ DOMAIN Order = S
    BY EmissionsAssumption
  <2>2. Keys = {Order[i] : i \in DOMAIN Order}
    BY Zenon DEF Keys, Range
  <2> HIDE DEF S
  <2> QED BY <2>1, <2>2
<1>3. Order \in Surjection(S, Keys)
  <2> HIDE DEF S
  <2> QED BY <1>2 DEF Surjection
<1> HIDE DEF S
<1> QED BY <1>1, <1>3, FS_Surjection

LEMMA DistsType == GeyserDists \in [Keys -> [Assets -> Nat]]
<1> SUFFICES ASSUME NEW k \in Keys, NEW a \in Assets PROVE ToGeyser(k, a) \in Nat
  BY DEF GeyserDists
<1>1. Amount[k][a] \in Nat
  BY EmissionsAssumption
<1>2. Amount[k][a] \div 2 \in Nat
  BY <1>1, FloorBounds
<1> QED BY <1>1, <1>2 DEF ToGeyser

LEMMA SumOver ==
  ASSUME NEW m \in [Keys -> [Assets -> Nat]], NEW a \in Assets
  PROVE  /\ SumFunction([k \in Keys |-> m[k][a]])
              = SumFunctionOnSet([k \in Keys |-> m[k][a]], Keys)
         /\ SumFunction([k \in Keys |-> m[k][a]]) \in Nat
<1> DEFINE f == [k \in Keys |-> m[k][a]]
<1>1. DOMAIN f = Keys /\ \A k \in Keys : f[k] \in Int /\ f[k] >= 0
  OBVIOUS
<1> HIDE DEF f
<1>2. SumFunction(f) = SumFunctionOnSet(f, Keys)
  BY <1>1 DEF SumFunction
<1>3. SumFunctionOnSet(f, Keys) \in Int /\ SumFunctionOnSet(f, Keys) >= 0
  BY <1>1, KeysFinite, SumType
<1> QED BY <1>2, <1>3 DEF f

LEMMA BooksType ==
  ASSUME BooksOK, NEW a \in Assets
  PROVE  Promised(a) \in Nat /\ DueInAWeek(a) \in Nat /\ Funds(a) \in Nat
<1>1. Promised(a) \in Nat /\ DueInAWeek(a) \in Nat
  BY SumOver, DistsType DEF BooksOK, Promised, DueInAWeek
<1>2. sent["tree"][a] \in Nat /\ SharesPerFragment \in Nat
  BY EmissionsAssumption DEF BooksOK
<1>3. sent["tree"][a] * SharesPerFragment \in Nat
  BY <1>2, MulNat
<1> QED BY <1>1, <1>2, <1>3 DEF Funds, InFragments

(* Every geyser gets its week. *)
LEMMA SignalsAdd ==
  ASSUME BooksOK, NEW a \in Assets,
         locked' = [k \in Keys |-> [x \in Assets |-> locked[k][x] + GeyserDists[k][x]]]
  PROVE  Promised(a)' = Promised(a) + DueInAWeek(a) /\ locked' \in [Keys -> [Assets -> Nat]]
<1> DEFINE f == [k \in Keys |-> locked[k][a]]
           g == [k \in Keys |-> GeyserDists[k][a]]
           h == [k \in Keys |-> locked'[k][a]]
<1>1. GeyserDists \in [Keys -> [Assets -> Nat]] /\ locked \in [Keys -> [Assets -> Nat]]
  BY DistsType DEF BooksOK
<1>2. locked' \in [Keys -> [Assets -> Nat]]
  BY <1>1
<1>3. \A k \in Keys : f[k] \in Int /\ g[k] \in Int /\ h[k] = f[k] + 1 * g[k]
  BY <1>1
<1>4. /\ SumFunction(f) = SumFunctionOnSet(f, Keys) /\ SumFunction(f) \in Nat
      /\ SumFunction(g) = SumFunctionOnSet(g, Keys) /\ SumFunction(g) \in Nat
      /\ SumFunction(h) = SumFunctionOnSet(h, Keys)
  BY <1>1, <1>2, SumOver
<1>5. SumFunctionOnSet(h, Keys) = SumFunctionOnSet(f, Keys) + 1 * SumFunctionOnSet(g, Keys)
  <2> HIDE DEF f, g, h
  <2> QED BY <1>3, KeysFinite, SumLinear
<1>6. Promised(a) = SumFunction(f) /\ DueInAWeek(a) = SumFunction(g) /\ Promised(a)' = SumFunction(h)
  BY DEF Promised, DueInAWeek
<1> HIDE DEF f, g, h
<1> QED BY <1>2, <1>4, <1>5, <1>6

(* The tree is sent n of the asset b. *)
LEMMA SendsAdd ==
  ASSUME BooksOK, NEW b \in Assets, NEW n \in Nat, locked' = locked,
         "tree" \in DOMAIN sent', sent'["tree"] = [sent["tree"] EXCEPT ![b] = @ + n]
  PROVE  /\ BooksOK'
         /\ Funds(b)' = Funds(b) + InFragments(b, n) /\ InFragments(b, n) \in Nat
         /\ \A a \in Assets : Funds(a)' >= Funds(a) /\ Promised(a)' = Promised(a)
<1>1. /\ sent["tree"] \in [Assets -> Nat] /\ sent'["tree"] \in [Assets -> Nat]
      /\ sent'["tree"][b] = sent["tree"][b] + n
      /\ \A a \in Assets \ {b} : sent'["tree"][a] = sent["tree"][a]
  BY DEF BooksOK
<1>2. BooksOK'
  BY <1>1 DEF BooksOK
<1>3. SharesPerFragment \in Nat /\ n * SharesPerFragment \in Nat /\ InFragments(b, n) \in Nat
  <2>1. SharesPerFragment \in Nat
    BY EmissionsAssumption
  <2>2. n * SharesPerFragment \in Nat
    BY <2>1, MulNat
  <2> QED BY <2>1, <2>2 DEF InFragments
<1>4. Funds(b)' = Funds(b) + InFragments(b, n)
  <2> DEFINE s == sent["tree"][b]
  <2>1. s \in Nat
    BY <1>1
  <2>2. Funds(b) = InFragments(b, s) /\ Funds(b)' = InFragments(b, s + n)
    BY <1>1 DEF Funds, InFragments
  <2> HIDE DEF s
  <2>3. (s + n) * SharesPerFragment = s * SharesPerFragment + n * SharesPerFragment
    BY <1>3, <2>1
  <2> QED BY <2>2, <2>3 DEF InFragments
<1>5. ASSUME NEW a \in Assets PROVE Funds(a)' >= Funds(a) /\ Promised(a)' = Promised(a)
  <2>1. Promised(a)' = Promised(a)
    BY DEF Promised
  <2>2. Funds(a) \in Nat /\ Funds(b) \in Nat
    BY BooksType
  <2>3. a # b => Funds(a)' = Funds(a)
    BY <1>1 DEF Funds, InFragments
  <2> QED BY <1>3, <1>4, <2>1, <2>2, <2>3
<1> QED BY <1>2, <1>3, <1>4, <1>5

(* The programs *)

LEMMA ConsFacts ==
  ASSUME NEW S, NEW e, <<e>> \in Seq(S), NEW t \in Seq(S)
  PROVE  <<e>> \o t # <<>> /\ Head(<<e>> \o t) = e /\ Tail(<<e>> \o t) = t /\ <<e>> \o t \in Seq(S)
<1>1. e \in S
  OBVIOUS
<1> QED BY <1>1

LEMMA ApprovalsType == Approvals \in Seq(Approving)
<1> DEFINE two(i) == IF \E a \in Assets : GeyserDists[Order[i]][a] > 0
                     THEN Approve(Order[i]) \o Approve(Order[i]) ELSE <<>>
           seqs == [i \in DOMAIN Order |-> two(i)]
<1>1. DOMAIN Order = 1..Len(Order) /\ Len(Order) \in Nat
  BY EmissionsAssumption
<1>2. ASSUME NEW i \in 1..Len(Order) PROVE two(i) \in Seq(Approving)
  <2>1. Order[i] \in Keys
    BY EmissionsAssumption
  <2>2. Approve(Order[i]) \in Seq(Approving)
    <3>1. [op |-> "approve", to |-> Order[i], checked |-> FALSE] \in Approving
      BY <2>1, Zenon DEF Approving
    <3> QED BY <3>1 DEF Approve
  <2>3. Approve(Order[i]) \o Approve(Order[i]) \in Seq(Approving) /\ <<>> \in Seq(Approving)
    BY <2>2
  <2> QED BY <2>3
<1>3. seqs \in Seq(Seq(Approving))
  <2>1. seqs = [i \in 1..Len(Order) |-> two(i)]
    BY <1>1
  <2> HIDE DEF two
  <2> QED BY <1>1, <1>2, <2>1
<1>4. FlattenSeq(seqs) \in Seq(Approving)
  <2> HIDE DEF seqs
  <2> QED BY <1>3, FlattenType
<1> QED BY <1>4 DEF Approvals

(* The schedule, one instruction after the other *)
LEMMA ScheduleParts ==
  /\ EmitSchedule # <<>> /\ Head(EmitSchedule).op = "printState"
  /\ Tail(EmitSchedule) = ToTreeBadger
  /\ ToTreeBadger # <<>> /\ Head(ToTreeBadger) = [op |-> "send", asset |-> "badger",
       to |-> "tree", amount |-> TopUp["badger"], check |-> "exactly"]
  /\ Tail(ToTreeBadger) = ToTreeDigg
  /\ ToTreeDigg # <<>> /\ Head(ToTreeDigg) = [op |-> "send", asset |-> "digg",
       to |-> "tree", amount |-> TopUp["digg"], check |-> "exactly"]
  /\ Tail(ToTreeDigg) = ToManager
  /\ ToManager # <<>> /\ Head(ToManager) = [op |-> "send", asset |-> "digg",
       to |-> "manager", amount |-> HarvestDigg, check |-> "never"]
  /\ Signals(Tail(ToManager))
<1> DEFINE p == [op |-> "printState"]
           b == [op |-> "send", asset |-> "badger", to |-> "tree",
                 amount |-> TopUp["badger"], check |-> "exactly"]
           d == [op |-> "send", asset |-> "digg", to |-> "tree",
                 amount |-> TopUp["digg"], check |-> "exactly"]
           m == [op |-> "send", asset |-> "digg", to |-> "manager",
                 amount |-> HarvestDigg, check |-> "never"]
           z == [op |-> "signalTokenLocks"]
           S == Approving \cup {p, b, d, m, z}
           A == Approvals
<1>1. A \in Seq(S) /\ <<p>> \in Seq(S) /\ <<b>> \in Seq(S) /\ <<d>> \in Seq(S)
      /\ <<m>> \in Seq(S) /\ <<z>> \in Seq(S)
  BY ApprovalsType
<1>2. EmitSchedule = ((((<<p>> \o <<b>>) \o <<d>>) \o <<m>>) \o A) \o <<z>>
  BY DEF EmitSchedule, Do, Send
<1>3. /\ ToManager = <<m>> \o (A \o <<z>>)
      /\ ToTreeDigg = <<d>> \o ToManager /\ ToTreeBadger = <<b>> \o ToTreeDigg
  BY DEF ToManager, ToTreeDigg, ToTreeBadger, Send, Do, Signal
<1>4. p.op = "printState" /\ Signals(A \o <<z>>)
  BY ApprovalsType DEF Signals, Signal, Do
<1> HIDE DEF p, b, d, m, z, S, A
<1>5. A \o <<z>> \in Seq(S) /\ <<m>> \o (A \o <<z>>) \in Seq(S)
      /\ <<d>> \o (<<m>> \o (A \o <<z>>)) \in Seq(S)
      /\ <<b>> \o (<<d>> \o (<<m>> \o (A \o <<z>>))) \in Seq(S)
  BY <1>1
<1>6. EmitSchedule = <<p>> \o ToTreeBadger
  <2>1. <<p>> \o <<b>> \in Seq(S) /\ (<<p>> \o <<b>>) \o <<d>> \in Seq(S)
        /\ ((<<p>> \o <<b>>) \o <<d>>) \o <<m>> \in Seq(S)
    BY <1>1
  <2>2. EmitSchedule = (((<<p>> \o <<b>>) \o <<d>>) \o <<m>>) \o (A \o <<z>>)
    BY <1>1, <1>2, <2>1
  <2>3. EmitSchedule = ((<<p>> \o <<b>>) \o <<d>>) \o ToManager
    BY <1>1, <1>3, <1>5, <2>1, <2>2
  <2>4. EmitSchedule = (<<p>> \o <<b>>) \o ToTreeDigg
    BY <1>1, <1>3, <1>5, <2>1, <2>3
  <2> QED BY <1>1, <1>3, <1>5, <2>4
<1>7. /\ EmitSchedule # <<>> /\ Head(EmitSchedule) = p /\ Tail(EmitSchedule) = ToTreeBadger
  BY <1>1, <1>3, <1>5, <1>6, ConsFacts
<1>8. ToTreeBadger # <<>> /\ Head(ToTreeBadger) = b /\ Tail(ToTreeBadger) = ToTreeDigg
  BY <1>1, <1>3, <1>5, ConsFacts
<1>9. ToTreeDigg # <<>> /\ Head(ToTreeDigg) = d /\ Tail(ToTreeDigg) = ToManager
  BY <1>1, <1>3, <1>5, ConsFacts
<1>10. ToManager # <<>> /\ Head(ToManager) = m /\ Tail(ToManager) = A \o <<z>>
  BY <1>1, <1>3, <1>5, ConsFacts
<1> QED BY <1>4, <1>7, <1>8, <1>9, <1>10 DEF p, b, d, m

LEMMA SignalsParts ==
  ASSUME NEW t, Signals(t)
  PROVE  /\ t # <<>>
         /\ \/ Head(t).op = "signalTokenLocks" /\ Tail(t) = <<>>
            \/ Head(t).op = "approve" /\ Signals(Tail(t))
<1> DEFINE z == [op |-> "signalTokenLocks"]
           S == Approving \cup {z}
<1>1. PICK s \in Seq(Approving) : t = s \o <<z>>
  BY DEF Signals, Signal, Do
<1>2. s \in Seq(S) /\ <<z>> \in Seq(S) /\ z.op = "signalTokenLocks"
  OBVIOUS
<1>3. CASE s = <<>>
  <2>1. t = <<z>>
    BY <1>1, <1>3
  <2> HIDE DEF z, S
  <2>2. Head(<<z>>) = z /\ Tail(<<z>>) = <<>> /\ <<z>> # <<>>
    OBVIOUS
  <2> QED BY <1>2, <2>1, <2>2
<1>4. CASE s # <<>>
  <2>1. Head(s) \in Approving /\ Tail(s) \in Seq(Approving)
    BY <1>4
  <2>2. t # <<>> /\ Head(t) = Head(s) /\ Tail(t) = Tail(s) \o <<z>>
    <3> HIDE DEF z, S
    <3> QED BY <1>1, <1>2, <1>4
  <2>3. Head(t).op = "approve"
    BY <2>1, <2>2 DEF Approving
  <2> QED BY <2>1, <2>2, <2>3 DEF Signals, Signal, Do
<1> QED BY <1>3, <1>4

LEMMA QuietEmpty == Quietly(<<>>)
<1> DEFINE S == {}
<1>1. <<>> \in Seq(S) /\ \A i \in S : Quiet(i)
  OBVIOUS
<1> HIDE DEF S
<1> QED BY <1>1 DEF Quietly

LEMMA QuietOne == ASSUME NEW i, Quiet(i) PROVE Quietly(<<i>>)
<1> DEFINE S == {i}
<1>1. <<i>> \in Seq(S) /\ \A j \in S : Quiet(j)
  OBVIOUS
<1> HIDE DEF S
<1> QED BY <1>1 DEF Quietly

LEMMA QuietBoth == ASSUME NEW s, NEW t, Quietly(s), Quietly(t) PROVE Quietly(s \o t)
<1>1. PICK S : s \in Seq(S) /\ \A i \in S : Quiet(i)
  BY DEF Quietly
<1>2. PICK T : t \in Seq(T) /\ \A i \in T : Quiet(i)
  BY DEF Quietly
<1>3. s \in Seq(S \cup T) /\ t \in Seq(S \cup T)
  BY <1>1, <1>2
<1>4. s \o t \in Seq(S \cup T)
  BY <1>3
<1>5. \A i \in S \cup T : Quiet(i)
  BY <1>1, <1>2
<1> QED BY <1>4, <1>5 DEF Quietly

LEMMA QuietParts ==
  ASSUME NEW t, Quietly(t), t # <<>>
  PROVE  Quiet(Head(t)) /\ Quietly(Tail(t))
<1>1. PICK S : t \in Seq(S) /\ \A i \in S : Quiet(i)
  BY DEF Quietly
<1>2. Head(t) \in S /\ Tail(t) \in Seq(S)
  BY <1>1
<1> QED BY <1>1, <1>2 DEF Quietly

LEMMA OthersAreQuiet ==
  ASSUME script # "schedule"
  PROVE  Quietly(Program)
<1>1. \A op : op # "signalTokenLocks" /\ op # "send" => Quietly(Do(op))
  <2> SUFFICES ASSUME NEW op, op # "signalTokenLocks", op # "send" PROVE Quietly(Do(op))
    OBVIOUS
  <2>1. Quiet([op |-> op])
    BY DEF Quiet
  <2> QED BY <2>1, QuietOne DEF Do
<1>2. \A r : Quietly(Approve(r))
  <2> SUFFICES ASSUME NEW r PROVE Quietly(Approve(r))
    OBVIOUS
  <2>1. Quiet([op |-> "approve", to |-> r, checked |-> FALSE])
    BY DEF Quiet
  <2> QED BY <2>1, QuietOne DEF Approve
<1>3. \A a, r, n, c : (r # "tree" \/ (a \in Assets /\ n \in Nat)) => Quietly(Send(a, r, n, c))
  <2> SUFFICES ASSUME NEW a, NEW r, NEW n, NEW c, r # "tree" \/ (a \in Assets /\ n \in Nat)
               PROVE  Quietly(Send(a, r, n, c))
    OBVIOUS
  <2>1. Quiet([op |-> "send", asset |-> a, to |-> r, amount |-> n, check |-> c])
    BY DEF Quiet
  <2> QED BY <2>1, QuietOne DEF Send
<1>4. \A s : Quietly(Log(s))
  <2> SUFFICES ASSUME NEW s PROVE Quietly(Log(s))
    OBVIOUS
  <2>1. Quiet([op |-> "log", schedules |-> s])
    BY DEF Quiet
  <2> QED BY <2>1, QuietOne DEF Log
<1>5. \A n, s : Quietly(Bonus(n, s))
  <2> SUFFICES ASSUME NEW n, NEW s PROVE Quietly(Bonus(n, s))
    OBVIOUS
  <2>1. Quiet([op |-> "addBonusToken", amount |-> n, sum |-> s])
    BY DEF Quiet
  <2> QED BY <2>1, QuietOne DEF Bonus
<1>6. Quietly(SendCompounded)
  BY <1>1, <1>3, QuietBoth DEF SendCompounded
<1>7. Quietly(Transfer)
  BY <1>2, <1>3, QuietBoth, EmissionsAssumption DEF Transfer
<1>8. Quietly(GrantTokenLocking)
  <2> DEFINE S == {[op |-> "grant", key |-> k] : k \in Keys}
             one(i) == <<[op |-> "grant", key |-> GeyserKeys[i]]>>
             seqs == [i \in DOMAIN GeyserKeys |-> one(i)]
  <2>1. DOMAIN GeyserKeys = 1..Len(GeyserKeys) /\ Len(GeyserKeys) \in Nat
    BY EmissionsAssumption
  <2>2. ASSUME NEW i \in 1..Len(GeyserKeys) PROVE one(i) \in Seq(S)
    <3>1. GeyserKeys[i] \in Keys
      BY EmissionsAssumption
    <3> QED BY <3>1
  <2>3. seqs \in Seq(Seq(S))
    <3>1. seqs = [i \in 1..Len(GeyserKeys) |-> one(i)]
      BY <2>1
    <3> HIDE DEF one, S
    <3> QED BY <2>1, <2>2, <3>1
  <2>4. FlattenSeq(seqs) \in Seq(S)
    <3> HIDE DEF seqs, S
    <3> QED BY <2>3, FlattenType
  <2>5. \A i \in S : Quiet(i)
    BY DEF Quiet
  <2> QED BY <2>4, <2>5 DEF Quietly, GrantTokenLocking
<1>9. Quietly(Distribute)
  <2>1. Quiet([op |-> "approve", to |-> "pool", checked |-> TRUE])
    BY DEF Quiet
  <2>2. Quietly(<<[op |-> "approve", to |-> "pool", checked |-> TRUE]>>)
    BY <2>1, QuietOne
  <2> QED BY <1>1, <2>2, QuietBoth DEF Distribute
<1>10. Quietly(CoverRewards)
  BY <1>1, <1>2, <1>5, QuietBoth DEF CoverRewards
<1>11. Quietly(WeeklyEmissions) /\ Quietly(LogOthers)
  BY <1>4 DEF WeeklyEmissions, LogOthers
<1> QED BY <1>6, <1>7, <1>8, <1>9, <1>10, <1>11, QuietEmpty DEF Program

(* The steps *)

KeepsBooks ==
  locked' = locked /\ "tree" \in DOMAIN sent' /\ sent'["tree"] = sent["tree"]

(* What a script goes through: it begins, rests, or carries something out. *)
Moves ==
  \/ KeepsBooks /\ todo = <<>> /\ todo' = Program
  \/ KeepsBooks /\ todo' = todo
  \/ /\ KeepsBooks /\ todo # <<>> /\ Instruction.op \notin {"send", "signalTokenLocks"}
     /\ todo' \in {Tail(todo), <<>>}
  \/ SendTokens
  \/ SignalTokenLocks

LEMMA NextMoves ==
  ASSUME BooksOK, Next
  PROVE  Moves /\ script' = script
<1>1. "tree" \in DOMAIN sent
  BY DEF BooksOK
<1>2. ASSUME NEW on, Goes(on) PROVE todo' \in {Tail(todo), <<>>}
  BY <1>2 DEF Goes
<1>3. CASE Begin
  BY <1>1, <1>3 DEF Begin, Starts, Moves, KeepsBooks, treasury
<1>4. CASE PrintState
  BY <1>1, <1>4 DEF PrintState, Goes, Reaches, Moves, KeepsBooks, treasury
<1>5. CASE ApproveRecipient
  BY <1>1, <1>5 DEF ApproveRecipient, Goes, Reaches, Moves, KeepsBooks
<1>6. CASE SendTokens
  BY <1>6 DEF SendTokens, Moves
<1>7. CASE SignalTokenLocks
  BY <1>7 DEF SignalTokenLocks, Moves
<1>8. CASE GrantRole
  BY <1>1, <1>8 DEF GrantRole, Goes, Reaches, Moves, KeepsBooks
<1>9. CASE SetUnlockSchedules
  BY <1>1, <1>9 DEF SetUnlockSchedules, Goes, Reaches, Moves, KeepsBooks
<1>10. CASE Allow
  BY <1>1, <1>10 DEF Allow, Goes, Reaches, Moves, KeepsBooks
<1>11. CASE CheckTime
  BY <1>1, <1>11 DEF CheckTime, Goes, Reaches, Moves, KeepsBooks, treasury
<1>12. CASE AddBonusToken
  <2>1. /\ "tree" \in DOMAIN sent' /\ sent'["tree"] = sent["tree"] /\ locked' = locked
        /\ script' = script
    BY <1>1, <1>12 DEF AddBonusToken
  <2>2. todo # <<>> /\ Instruction.op = "addBonusToken" /\ \E on \in {TRUE, FALSE} : Goes(on)
    BY <1>12 DEF AddBonusToken, Reaches, Goes
  <2> QED BY <1>2, <2>1, <2>2 DEF Moves, KeepsBooks
<1>13. CASE TopUpPool
  BY <1>1, <1>13 DEF TopUpPool, Goes, Reaches, Moves, KeepsBooks
<1>14. CASE ModifyDuration
  BY <1>1, <1>14 DEF ModifyDuration, Goes, Reaches, Moves, KeepsBooks, treasury
<1>15. CASE Notify
  BY <1>1, <1>15 DEF Notify, Goes, Reaches, Moves, KeepsBooks, treasury
<1>16. CASE VerifyPool
  BY <1>1, <1>16 DEF VerifyPool, Goes, Reaches, Moves, KeepsBooks, treasury
<1>17. CASE PoolStep
  BY <1>1, <1>17 DEF PoolStep, Moves, KeepsBooks, treasury, emissionVars, scriptVars
<1>18. CASE \E r \in Others \cup Range(GeyserKeys) \cup {"pool"} : RevokeRecipient(r)
  BY <1>1, <1>18 DEF RevokeRecipient, Moves, KeepsBooks
<1> QED BY <1>3, <1>4, <1>5, <1>6, <1>7, <1>8, <1>9, <1>10, <1>11, <1>12, <1>13, <1>14,
            <1>15, <1>16, <1>17, <1>18 DEF Next, ScriptStep

LEMMA SendParts ==
  ASSUME BooksOK, SendTokens
  PROVE  /\ todo # <<>> /\ Instruction.op = "send" /\ locked' = locked
         /\ "tree" \in DOMAIN sent'
         /\ \/ /\ todo' = Tail(todo)
               /\ IF Instruction.to = "tree"
                  THEN sent'["tree"] = [sent["tree"] EXCEPT ![Instruction.asset] = @ + Instruction.amount]
                  ELSE sent'["tree"] = sent["tree"]
            \/ sent' = sent /\ todo' = IF Unnoticed(Instruction) THEN Tail(todo) ELSE <<>>
<1>1. "tree" \in DOMAIN sent
  BY DEF BooksOK
<1>2. todo # <<>> /\ Instruction.op = "send" /\ locked' = locked
  BY DEF SendTokens, Reaches
<1> DEFINE i == Instruction
<1>3. CASE /\ sent' = [sent EXCEPT ![i.to][i.asset] = @ + i.amount]
           /\ Goes(TRUE)
  <2>1. todo' = Tail(todo)
    BY <1>3 DEF Goes
  <2> HIDE DEF i
  <2>2. "tree" \in DOMAIN sent'
    BY <1>1, <1>3
  <2>3. CASE i.to = "tree"
    <3>1. sent'["tree"] = [sent["tree"] EXCEPT ![i.asset] = @ + i.amount]
      BY <1>1, <1>3, <2>3
    <3> QED BY <1>2, <2>1, <2>2, <2>3, <3>1 DEF i
  <2>4. CASE i.to # "tree"
    <3>1. sent'["tree"] = sent["tree"]
      BY <1>1, <1>3, <2>4
    <3> QED BY <1>2, <2>1, <2>2, <2>4, <3>1 DEF i
  <2> QED BY <2>3, <2>4
<1>4. CASE sent' = sent /\ Goes(Unnoticed(i))
  BY <1>1, <1>2, <1>4 DEF Goes
<1> QED BY <1>3, <1>4 DEF SendTokens

BooksNat == \A a \in Assets : Promised(a) \in Nat /\ DueInAWeek(a) \in Nat /\ Funds(a) \in Nat

LEMMA BooksTypeNext == BooksOK' => BooksNat'
<1>1. BooksOK => BooksNat
  BY BooksType DEF BooksNat
<1> QED BY <1>1, PTL

(* What carries over when the books stay as they are *)
LEMMA BooksCarry ==
  ASSUME BooksOK, LocksAreFunded, KeepsBooks
  PROVE  /\ BooksOK' /\ LocksAreFunded'
         /\ \A a \in Assets : Promised(a)' = Promised(a) /\ Funds(a)' = Funds(a)
                              /\ (Slack(a) => Slack(a)')
<1>1. \A a \in Assets : Promised(a)' = Promised(a) /\ Funds(a)' = Funds(a)
  BY DEF Promised, Funds, InFragments, KeepsBooks
<1>2. BooksOK'
  BY DEF BooksOK, KeepsBooks
<1>3. \A a \in Assets : Promised(a) <= Funds(a)
  BY DEF LocksAreFunded, Promised, Funds
<1>4. LocksAreFunded'
  <2>1. \A a \in Assets : Promised(a)' <= Funds(a)'
    BY <1>1, <1>3
  <2> QED BY <2>1 DEF LocksAreFunded, Promised, Funds
<1> QED BY <1>1, <1>2, <1>4 DEF Slack, DueInAWeek

LEMMA QuietSteps ==
  ASSUME BooksOK, LocksAreFunded, Quietly(todo), script # "schedule", Moves
  PROVE  BooksOK' /\ LocksAreFunded' /\ Quietly(todo')
<1>1. todo # <<>> => Quiet(Head(todo)) /\ Quietly(Tail(todo))
  BY QuietParts
<1>2. Quietly(<<>>) /\ Quietly(Program)
  BY QuietEmpty, OthersAreQuiet
<1>3. CASE KeepsBooks /\ todo' \in {Program, todo, <<>>}
  BY <1>2, <1>3, BooksCarry
<1>4. CASE KeepsBooks /\ todo # <<>> /\ todo' \in {Tail(todo), <<>>}
  BY <1>1, <1>2, <1>4, BooksCarry
<1>5. CASE SendTokens
  <2> DEFINE i == Instruction
  <2>1. todo # <<>> /\ i.op = "send" /\ locked' = locked /\ todo' \in {Tail(todo), <<>>}
        /\ "tree" \in DOMAIN sent'
    BY <1>5, SendParts
  <2>2. Quietly(todo') /\ Quiet(i)
    BY <1>1, <1>2, <2>1 DEF Instruction
  <2>3. CASE sent'["tree"] = sent["tree"]
    BY <2>1, <2>2, <2>3, BooksCarry DEF KeepsBooks
  <2>4. CASE sent'["tree"] # sent["tree"]
    <3>1. i.to = "tree" /\ sent'["tree"] = [sent["tree"] EXCEPT ![i.asset] = @ + i.amount]
      BY <1>5, <2>4, SendParts
    <3>2. i.asset \in Assets /\ i.amount \in Nat
      BY <2>1, <2>2, <3>1 DEF Quiet
    <3> HIDE DEF i
    <3>3. BooksOK' /\ \A a \in Assets : Funds(a)' >= Funds(a) /\ Promised(a)' = Promised(a)
      BY <2>1, <3>1, <3>2, SendsAdd
    <3>4. \A a \in Assets : Promised(a) <= Funds(a) /\ Promised(a) \in Nat /\ Funds(a) \in Nat
      BY BooksType DEF LocksAreFunded, Promised, Funds
    <3>5. \A a \in Assets : Funds(a)' \in Nat
      BY <3>3, BooksTypeNext DEF BooksNat
    <3>6. \A a \in Assets : Promised(a)' <= Funds(a)'
      BY <3>3, <3>4, <3>5
    <3>7. LocksAreFunded'
      BY <3>6 DEF LocksAreFunded, Promised, Funds
    <3> QED BY <2>2, <3>3, <3>7
  <2> QED BY <2>3, <2>4
<1>6. CASE SignalTokenLocks
  <2>1. todo # <<>> /\ Head(todo).op = "signalTokenLocks"
    BY <1>6 DEF SignalTokenLocks, Reaches, Instruction
  <2> QED BY <1>1, <2>1 DEF Quiet
<1> QED BY <1>3, <1>4, <1>5, <1>6 DEF Moves

(* A top-up of the tree makes room for a week, of its asset. *)
LEMMA TopUpMakesRoom ==
  ASSUME BooksOK, LocksAreFunded, TopUpsCover, NEW b \in Assets, SendTokens,
         Instruction = [op |-> "send", asset |-> b, to |-> "tree",
                        amount |-> TopUp[b], check |-> "exactly"]
  PROVE  /\ BooksOK' /\ LocksAreFunded'
         /\ \/ todo' = <<>>
            \/ todo' = Tail(todo) /\ Slack(b)' /\ \A a \in Assets : Slack(a) => Slack(a)'
<1> DEFINE i == Instruction
           n == TopUp[b]
<1>1. i.op = "send" /\ i.to = "tree" /\ i.asset = b /\ i.amount = n /\ i.check = "exactly"
  OBVIOUS
<1>2. ~Unnoticed(i)
  BY <1>1 DEF Unnoticed
<1>3. n \in Nat
  BY EmissionsAssumption
<1>4. /\ locked' = locked /\ "tree" \in DOMAIN sent'
      /\ \/ /\ todo' = Tail(todo)
            /\ sent'["tree"] = [sent["tree"] EXCEPT ![b] = @ + n]
         \/ sent' = sent /\ todo' = <<>>
  <2> HIDE DEF n
  <2> QED BY <1>1, <1>2, SendParts
<1>5. \A a \in Assets : /\ Promised(a) <= Funds(a) /\ Promised(a) \in Nat /\ Funds(a) \in Nat
                        /\ DueInAWeek(a) \in Nat
  BY BooksType DEF LocksAreFunded, Promised, Funds
<1>6. CASE sent' = sent /\ todo' = <<>>
  BY <1>4, <1>6, BooksCarry DEF KeepsBooks
<1>7. CASE todo' = Tail(todo) /\ sent'["tree"] = [sent["tree"] EXCEPT ![b] = @ + n]
  <2> HIDE DEF i, n
  <2>1. /\ BooksOK'
        /\ Funds(b)' = Funds(b) + InFragments(b, n) /\ InFragments(b, n) \in Nat
        /\ \A a \in Assets : Funds(a)' >= Funds(a) /\ Promised(a)' = Promised(a)
    BY <1>3, <1>4, <1>7, SendsAdd
  <2>2. \A a \in Assets : Funds(a)' \in Nat
    BY <2>1, BooksTypeNext DEF BooksNat
  <2>3. \A a \in Assets : Promised(a)' <= Funds(a)'
    BY <1>5, <2>1, <2>2
  <2>4. LocksAreFunded'
    BY <2>3 DEF LocksAreFunded, Promised, Funds
  <2>5. \A a \in Assets : DueInAWeek(a)' = DueInAWeek(a)
    BY DEF DueInAWeek
  <2>6. DueInAWeek(b) <= InFragments(b, n)
    BY DEF TopUpsCover, n
  <2>7. Slack(b)'
    <3>1. Promised(b) + DueInAWeek(b) <= Funds(b) + InFragments(b, n)
      BY <1>5, <2>1, <2>6
    <3> QED BY <2>1, <2>5, <3>1 DEF Slack
  <2>8. ASSUME NEW a \in Assets, Slack(a) PROVE Slack(a)'
    <3>1. Promised(a) + DueInAWeek(a) <= Funds(a)'
      BY <1>5, <2>1, <2>2, <2>8 DEF Slack
    <3> QED BY <2>1, <2>5, <3>1 DEF Slack
  <2> QED BY <1>7, <2>1, <2>4, <2>7, <2>8
<1> QED BY <1>4, <1>6, <1>7

(* Whoever signals has made room for what is signalled. *)
LEMMA SignalUsesRoom ==
  ASSUME BooksOK, LocksAreFunded, \A a \in Assets : Slack(a), SignalTokenLocks
  PROVE  BooksOK' /\ LocksAreFunded' /\ todo' = Tail(todo)
<1>1. todo' = Tail(todo) /\ sent' = sent
  BY DEF SignalTokenLocks, Goes
<1>2. CASE locked' = locked
  BY <1>1, <1>2, BooksCarry DEF KeepsBooks, BooksOK
<1>3. CASE locked' = [k \in Keys |-> [x \in Assets |-> locked[k][x] + GeyserDists[k][x]]]
  <2>1. ASSUME NEW a \in Assets PROVE Promised(a)' <= Funds(a)' /\ locked' \in [Keys -> [Assets -> Nat]]
    <3>1. Promised(a)' = Promised(a) + DueInAWeek(a) /\ locked' \in [Keys -> [Assets -> Nat]]
      BY <1>3, SignalsAdd
    <3>2. Funds(a)' = Funds(a)
      BY <1>1 DEF Funds, InFragments
    <3>3. Promised(a) + DueInAWeek(a) <= Funds(a)
      BY DEF Slack
    <3> QED BY <3>1, <3>2, <3>3
  <2>2. BooksOK'
    <3>1. "badger" \in Assets
      BY DEF Assets
    <3> QED BY <1>1, <2>1, <3>1 DEF BooksOK
  <2>3. LocksAreFunded'
    BY <2>1 DEF LocksAreFunded, Promised, Funds
  <2> QED BY <1>1, <2>2, <2>3
<1> QED BY <1>2, <1>3 DEF SignalTokenLocks

LEMMA ScheduleSteps ==
  ASSUME BooksOK, LocksAreFunded, TopUpsCover, OnSchedule, script = "schedule", Moves
  PROVE  BooksOK' /\ LocksAreFunded' /\ OnSchedule'
<1> DEFINE All == \A a \in Assets : Slack(a)
<1>1. Program = EmitSchedule
  BY DEF Program
<1>2. "badger" \in Assets /\ "digg" \in Assets /\ \A a \in Assets : a = "badger" \/ a = "digg"
  BY DEF Assets
<1>3. todo' = <<>> => OnSchedule'
  BY DEF OnSchedule
<1>4. CASE KeepsBooks /\ todo' = todo
  <2>1. BooksOK' /\ LocksAreFunded' /\ \A a \in Assets : Slack(a) => Slack(a)'
    BY <1>4, BooksCarry
  <2> QED BY <1>2, <1>4, <2>1 DEF OnSchedule, Signals
<1>5. CASE KeepsBooks /\ todo = <<>> /\ todo' = Program
  BY <1>1, <1>5, BooksCarry DEF OnSchedule
<1>6. CASE KeepsBooks /\ todo' = <<>>
  BY <1>3, <1>6, BooksCarry
<1>7. CASE todo # <<>> /\ todo = EmitSchedule /\ todo' = Tail(todo) /\ KeepsBooks
  BY <1>7, ScheduleParts, BooksCarry DEF OnSchedule
<1>8. CASE todo = ToTreeBadger /\ SendTokens
  <2>1. Instruction = [op |-> "send", asset |-> "badger", to |-> "tree",
                       amount |-> TopUp["badger"], check |-> "exactly"]
    BY <1>8, ScheduleParts DEF Instruction
  <2>2. /\ BooksOK' /\ LocksAreFunded'
        /\ todo' = <<>> \/ (todo' = Tail(todo) /\ Slack("badger")')
    BY <1>2, <1>8, <2>1, TopUpMakesRoom
  <2>3. Tail(todo) = ToTreeDigg /\ ToTreeDigg' = ToTreeDigg
    BY <1>8, ScheduleParts
  <2> QED BY <1>3, <2>2, <2>3 DEF OnSchedule
<1>9. CASE todo = ToTreeDigg /\ Slack("badger") /\ SendTokens
  <2>1. Instruction = [op |-> "send", asset |-> "digg", to |-> "tree",
                       amount |-> TopUp["digg"], check |-> "exactly"]
    BY <1>9, ScheduleParts DEF Instruction
  <2>2. /\ BooksOK' /\ LocksAreFunded'
        /\ todo' = <<>> \/ (todo' = Tail(todo) /\ Slack("badger")' /\ Slack("digg")')
    BY <1>2, <1>9, <2>1, TopUpMakesRoom
  <2>3. Tail(todo) = ToManager /\ ToManager' = ToManager
    BY <1>9, ScheduleParts
  <2>4. (Slack("badger")' /\ Slack("digg")') => \A a \in Assets : Slack(a)'
    BY <1>2
  <2> QED BY <1>3, <2>2, <2>3, <2>4 DEF OnSchedule
<1>10. CASE todo = ToManager /\ All /\ SendTokens
  <2>1. Instruction.to = "manager"
    BY <1>10, ScheduleParts DEF Instruction
  <2>2. KeepsBooks /\ todo' \in {Tail(todo), <<>>}
    BY <1>10, <2>1, SendParts DEF KeepsBooks, BooksOK
  <2>3. BooksOK' /\ LocksAreFunded' /\ \A a \in Assets : Slack(a)'
    BY <1>10, <2>2, BooksCarry
  <2>4. Signals(Tail(todo))
    BY <1>10, ScheduleParts
  <2>5. todo' = Tail(todo) => Signals(todo')
    BY <2>4
  <2>6. Signals(todo') => Signals(todo)'
    BY DEF Signals, Signal, Approving
  <2> QED BY <1>3, <2>2, <2>3, <2>5, <2>6 DEF OnSchedule
<1>11. CASE Signals(todo) /\ All /\ todo # <<>> /\ todo' = Tail(todo) /\ KeepsBooks
            /\ Instruction.op # "signalTokenLocks"
  <2>1. Signals(Tail(todo))
    BY <1>11, SignalsParts DEF Instruction
  <2>2. BooksOK' /\ LocksAreFunded' /\ \A a \in Assets : Slack(a)'
    BY <1>11, BooksCarry
  <2>3. Signals(todo)'
    BY <1>11, <2>1 DEF Signals, Signal, Approving
  <2> QED BY <2>2, <2>3 DEF OnSchedule
<1>12. CASE Signals(todo) /\ All /\ SignalTokenLocks
  <2>1. BooksOK' /\ LocksAreFunded' /\ todo' = Tail(todo)
    BY <1>12, SignalUsesRoom
  <2>2. Instruction.op = "signalTokenLocks"
    BY <1>12 DEF SignalTokenLocks, Reaches
  <2>3. Tail(todo) = <<>>
    BY <1>12, <2>2, SignalsParts DEF Instruction
  <2> QED BY <1>3, <2>1, <2>3
<1>13. todo # <<>> =>
         \/ todo = EmitSchedule /\ Instruction.op = "printState"
         \/ todo = ToTreeBadger /\ Instruction.op = "send"
         \/ todo = ToTreeDigg /\ Slack("badger") /\ Instruction.op = "send"
         \/ todo = ToManager /\ All /\ Instruction.op = "send"
         \/ Signals(todo) /\ All /\ Instruction.op \in {"signalTokenLocks", "approve"}
  BY ScheduleParts, SignalsParts DEF OnSchedule, Instruction
<1>14. CASE KeepsBooks /\ todo # <<>> /\ Instruction.op \notin {"send", "signalTokenLocks"}
            /\ todo' \in {Tail(todo), <<>>}
  BY <1>6, <1>7, <1>11, <1>13, <1>14
<1>15. CASE SendTokens
  <2>1. todo # <<>> /\ Instruction.op = "send"
    BY <1>15 DEF SendTokens, Reaches
  <2> QED BY <1>8, <1>9, <1>10, <1>13, <1>15, <2>1
<1>16. CASE SignalTokenLocks
  <2>1. todo # <<>> /\ Instruction.op = "signalTokenLocks"
    BY <1>16 DEF SignalTokenLocks, Reaches
  <2> QED BY <1>12, <1>13, <1>16, <2>1
<1> QED BY <1>4, <1>5, <1>14, <1>15, <1>16 DEF Moves

LEMMA LocksInitially == OperatorInit => LocksInv
<1> SUFFICES ASSUME OperatorInit PROVE LocksInv
  OBVIOUS
<1>1. /\ todo = <<>> /\ locked = [k \in Keys |-> [a \in Assets |-> 0]]
      /\ sent = [r \in Others |-> [a \in Assets |-> 0]] /\ "tree" \in Others
  BY DEF OperatorInit, Init, ScriptInit, Nothing, Others
<1>2. BooksOK
  BY <1>1 DEF BooksOK
<1>3. ASSUME NEW a \in Assets PROVE Promised(a) <= Funds(a)
  <2> DEFINE f == [k \in Keys |-> locked[k][a]]
  <2>1. \A k \in Keys : f[k] = 0
    BY <1>1
  <2>2. Promised(a) = SumFunctionOnSet(f, Keys)
    BY <1>2, SumOver DEF BooksOK, Promised
  <2>3. SumFunctionOnSet(f, Keys) = 0
    <3> HIDE DEF f
    <3> QED BY <2>1, KeysFinite, SumOfZeros
  <2>4. Funds(a) \in Nat
    BY <1>2, BooksType
  <2> QED BY <2>2, <2>3, <2>4
<1>4. LocksAreFunded
  BY <1>3 DEF LocksAreFunded, Promised, Funds
<1> QED BY <1>1, <1>2, <1>4, QuietEmpty DEF LocksInv, OnSchedule

LEMMA DeployingStays ==
  ASSUME Deploys, D!Step PROVE Deploys'
<1>1. CASE D!Begin
  <2>1. script' \in D!Campaign
    BY <1>1 DEF D!Begin
  <2> QED BY <2>1 DEF D!Campaign, Deploys
<1>2. CASE ~D!Begin
  <2>1. script' = script
    BY <1>2 DEF D!Step, D!KnowElsewhere, D!DeployProxy, D!DeploySett, D!DeployStrategy,
       D!SetVault, D!ApproveStrategy, D!SetStrategy, D!PayBadger, D!GrantRole, D!GiveAway,
       D!InitializeProxy, D!UnpauseSett, D!SetLink, D!UpdateAndPush, D!Sleep, D!CheckThat,
       D!Raise, D!ConnectBadger, D!PrintToFile, D!Transacts, D!TransactsBy, D!Creates
  <2> QED BY SMTT(30), <2>1 DEF Deploys
<1> QED BY <1>1, <1>2

LEMMA LocksStay ==
  ASSUME TopUpsCover
  PROVE  LocksInv /\ [OperatorNext]_operatorVars => LocksInv'
<1> SUFFICES ASSUME LocksInv, [OperatorNext]_operatorVars PROVE LocksInv'
  OBVIOUS
<1>1. BooksOK /\ LocksAreFunded
  BY DEF LocksInv
<1>2. CASE ~Deploys /\ Next
  <2>1. Moves /\ script' = script
    BY <1>1, <1>2, NextMoves
  <2>2. CASE script = "schedule"
    <3>1. BooksOK' /\ LocksAreFunded' /\ OnSchedule'
      BY <1>1, <1>2, <2>1, <2>2, ScheduleSteps DEF LocksInv
    <3> QED BY <2>1, <2>2, <3>1 DEF LocksInv
  <2>3. CASE script # "schedule"
    <3>1. BooksOK' /\ LocksAreFunded' /\ Quietly(todo')
      BY <1>1, <1>2, <2>1, <2>3, QuietSteps DEF LocksInv
    <3>2. Quietly(todo)'
      BY <3>1 DEF Quietly, Quiet
    <3> QED BY <2>1, <2>3, <3>1, <3>2 DEF LocksInv
  <2> QED BY <2>2, <2>3
<1>3. CASE Deploys /\ D!Step /\ UNCHANGED <<vars, treasury>>
  <2>1. KeepsBooks
    BY <1>1, <1>3 DEF KeepsBooks, BooksOK, treasury
  <2>2. BooksOK' /\ LocksAreFunded'
    BY <1>1, <2>1, BooksCarry
  <2> QED BY <1>3, <2>2, DeployingStays DEF LocksInv
<1>4. CASE UNCHANGED operatorVars
  <2>1. UNCHANGED <<locked, sent, todo, script>>
    BY <1>4 DEF operatorVars, allVars, emissionVars, scriptVars, treasury
  <2>2. BooksOK' /\ LocksAreFunded'
    BY <1>1, <2>1, BooksCarry DEF KeepsBooks, BooksOK
  <2>3. /\ Deploys' = Deploys /\ OnSchedule' = OnSchedule /\ Quietly(todo)' = Quietly(todo)
    BY <2>1 DEF Deploys, OnSchedule, Quietly, Quiet, Signals, Slack, Promised, DueInAWeek,
                Funds, InFragments
  <2> QED BY <2>1, <2>2, <2>3 DEF LocksInv
<1> QED BY <1>2, <1>3, <1>4 DEF OperatorNext

(* If the week's top-up covers what the week distributes, the geysers       *)
(* never promise more than the tree was sent, however often the schedule is *)
(* cut off by a failed assertion, passed over by a Safe and begun again.    *)
THEOREM LocksAlwaysFunded ==
  ASSUME TopUpsCover
  PROVE  OperatorSpec => []LocksAreFunded
<1>1. OperatorInit => LocksInv
  BY LocksInitially
<1>2. LocksInv /\ [OperatorNext]_operatorVars => LocksInv'
  BY LocksStay
<1>3. LocksInv => LocksAreFunded
  BY DEF LocksInv
<1> QED BY <1>1, <1>2, <1>3, PTL DEF OperatorSpec, operatorVars

-----------------------------------------------------------------------------
(* Instructions, and programs without a "connect" that begin with nothing  *)
(* to wire                                                                 *)

WireOps == {"setVault", "approveStrategy", "setStrategy"}
CreateOps == {"deploy", "deploySett", "deployStrategy"}

(* What is known by a name and has no state here *)
Outside == {"token", "dao", "devMultisig", "pair", "logic"}

Fine(i) ==
  /\ i.op = "know" => \A n \in i.names : n[1] \in Outside
  /\ i.op = "deploy" => i.name[1] \notin Outside \cup {"sett", "strategy"}
  /\ i.op = "deploy" /\ i.name[1] \in {"admin", "escrow"} => i.owner = "deployer"
  /\ i.op \in CreateOps => i.owner \notin {"", "seeder", "opsMultisig"}
  /\ i.op = "setOwner" => i.to \notin {"", "deployer", "seeder"} /\ i.by \in {"deployer", "seeder"}
  /\ i.op = "pay" => i.amount \in Nat

(* What is printed is what the launch is planned for. *)
Planned(i) ==
  /\ i.op = "deploySett" => i.id \in Range(Setts)
  /\ i.op = "deployStrategy" =>
       i.id \in Range(Setts) /\ (i.id \in {"badger", "uniBadgerWbtc"} => i.want = i.id)
  /\ i.op = "deploy" /\ i.name[1] = "controller" =>
       i.name \in {D!Name("controller", "native"), D!Name("controller", "harvest")}

(* In a program that deploys, p for one that prints *)
Building(p, i) ==
  /\ Fine(i) /\ (p => Planned(i))
  /\ i.op \in {"know", "check", "unpause"} \cup CreateOps \cup WireOps
  /\ i.op = "deploy" => i.links = <<>>
  /\ i.op = "deployStrategy" => D!ControllerOf(i.id) \in i.needs
  /\ i.op \in WireOps => i.want = ""

OnMainnet(i) ==
  /\ i.op \notin {"link", "initialize"}
  /\ i.op = "deploy" => i.links = <<>>
  /\ i.op = "setOwner" => i.by = "deployer" /\ i.to = "devMultisig" /\ ~i.if

OnBsc(i) ==
  /\ i.op \in {"connect", "initialize", "check", "unpause", "setOwner"} \cup WireOps
  /\ i.op = "setOwner" => i.by = "seeder" /\ i.to = "opsMultisig"

(* Nothing that makes a policy rebase or keeps one from it *)
Plain(i) ==
  /\ i.op \notin {"link", "updateAndPush", "sleep", "connect"}
  /\ i.op = "deploy" => i.links = <<>>

Ok(k, i) ==
  /\ Fine(i)
  /\ (k = "mainnet" => OnMainnet(i)) /\ (k = "bsc" => OnBsc(i)) /\ (k = "plain" => Plain(i))

SettName(id) == D!Name("sett", id)
StrategyName(id) == D!Name("strategy", id)
SameWant(id) == [op |-> "check", that |-> "sameWant", id |-> id]
Wiring(op, id, by) == [op |-> op, id |-> id, by |-> by, want |-> ""]

(* A strategy is wired as soon as it is deployed, ...                      *)
Follows(a, b) ==
  /\ b.op = "check" /\ b.that = "sameWant" => a.op = "deployStrategy" /\ a.id = b.id
  /\ b.op = "setVault" => a = SameWant(b.id)
  /\ b.op = "approveStrategy" => a = Wiring("setVault", b.id, b.by)
  /\ b.op = "setStrategy" => a = Wiring("approveStrategy", b.id, b.by)

(* ... to a Sett that its deployment needs or that was deployed before.    *)
Settles(t, j) ==
  t[j].op = "check" /\ t[j].that = "sameWant" =>
    \/ SettName(t[j].id) \in t[j-1].needs
    \/ j > 2 /\ t[j-2].op = "deploySett" /\ t[j-2].id = t[j].id

Linked(t) == \A j \in 2..Len(t) : Follows(t[j-1], t[j]) /\ Settles(t, j)

Opens(i) == i.op \notin WireOps /\ ~(i.op = "check" /\ i.that = "sameWant")

Body(p, t) ==
  /\ \E S : t \in Seq(S)
  /\ Linked(t)
  /\ t # <<>> => Opens(t[1])
  /\ \A j \in 1..Len(t) : Building(p, t[j])

Fair(k, t) ==
  /\ \E S : t \in Seq(S)
  /\ \A j \in 1..Len(t) : Ok(k, t[j])

LEMMA Joined ==
  ASSUME NEW S, NEW s \in Seq(S), NEW T, NEW t \in Seq(T)
  PROVE  /\ s \o t \in Seq(S \cup T) /\ Len(s \o t) = Len(s) + Len(t)
         /\ Len(s) \in Nat /\ Len(t) \in Nat
         /\ \A j \in 1..Len(s) : (s \o t)[j] = s[j]
         /\ \A j \in (Len(s) + 1)..(Len(s) + Len(t)) : (s \o t)[j] = t[j - Len(s)]
<1>1. s \in Seq(S \cup T) /\ t \in Seq(S \cup T)
  OBVIOUS
<1> QED BY <1>1

LEMMA FairJoin == ASSUME NEW k, NEW s, Fair(k, s), NEW t, Fair(k, t) PROVE Fair(k, s \o t)
<1>1. PICK S, T : s \in Seq(S) /\ t \in Seq(T)
  BY DEF Fair
<1> DEFINE r == s \o t
           n == Len(s)
           m == Len(t)
<1>2. /\ r \in Seq(S \cup T) /\ Len(r) = n + m /\ n \in Nat /\ m \in Nat
      /\ \A j \in 1..n : r[j] = s[j]
      /\ \A j \in (n + 1)..(n + m) : r[j] = t[j - n]
  BY <1>1, Joined
<1>3. /\ \A j \in 1..n : Ok(k, s[j])
      /\ \A j \in 1..m : Ok(k, t[j])
  BY DEF Fair
<1> HIDE DEF r, n, m
<1>4. ASSUME NEW j \in 1..Len(r) PROVE Ok(k, r[j])
  <2>1. CASE j <= n
    BY <1>2, <1>3, <2>1
  <2>2. CASE ~(j <= n)
    <3>1. j \in (n + 1)..(n + m) /\ j - n \in 1..m
      BY <1>2, <2>2
    <3> QED BY <1>2, <1>3, <3>1
  <2> QED BY <2>1, <2>2
<1> QED BY <1>2, <1>4 DEF Fair, r

LEMMA BodyJoin == ASSUME NEW p, NEW s, Body(p, s), NEW t, Body(p, t) PROVE Body(p, s \o t)
<1>0. PICK S, T : s \in Seq(S) /\ t \in Seq(T)
  BY DEF Body
<1> DEFINE r == s \o t
           n == Len(s)
           m == Len(t)
<1>1. /\ r \in Seq(S \cup T) /\ Len(r) = n + m /\ n \in Nat /\ m \in Nat
      /\ \A j \in 1..n : r[j] = s[j]
      /\ \A j \in (n + 1)..(n + m) : r[j] = t[j - n]
  BY <1>0, Joined
<1>2. Linked(s) /\ Linked(t) /\ (n > 0 => Opens(s[1])) /\ (m > 0 => Opens(t[1]))
  BY DEF Body
<1>3. /\ \A j \in 1..n : Building(p, s[j])
      /\ \A j \in 1..m : Building(p, t[j])
  BY DEF Body
<1> HIDE DEF r, n, m
<1>4. ASSUME NEW j \in 1..Len(r) PROVE Building(p, r[j])
  <2>1. CASE j <= n
    BY <1>1, <1>3, <2>1
  <2>2. CASE ~(j <= n)
    <3>1. j \in (n + 1)..(n + m) /\ j - n \in 1..m
      BY <1>1, <2>2
    <3> QED BY <1>1, <1>3, <3>1
  <2> QED BY <2>1, <2>2
<1>5. r # <<>> => Opens(r[1])
  <2>1. CASE n > 0
    BY <1>1, <1>2, <2>1
  <2>2. CASE n = 0 /\ m > 0
    BY <1>1, <1>2, <2>2
  <2>3. CASE n = 0 /\ m = 0
    BY <1>1, <2>3
  <2> QED BY <1>1, <2>1, <2>2, <2>3
<1>6. ASSUME NEW j \in 2..Len(r) PROVE Follows(r[j-1], r[j]) /\ Settles(r, j)
  <2>1. CASE j <= n
    <3>1. j \in 2..n /\ r[j] = s[j] /\ r[j-1] = s[j-1] /\ (j > 2 => r[j-2] = s[j-2])
      BY <1>1, <2>1
    <3> QED BY <1>2, <3>1 DEF Linked, Settles, n
  <2>2. CASE j = n + 1
    <3>1. r[j] = t[1] /\ m > 0
      BY <1>1, <2>2
    <3> QED BY <1>2, <3>1 DEF Opens, WireOps, Follows, Settles
  <2>3. CASE j > n + 1
    <3> DEFINE k == j - n
    <3>1. k \in 2..m /\ r[j] = t[k] /\ r[j-1] = t[k-1] /\ (k > 2 => j > 2 /\ r[j-2] = t[k-2])
      <4>1. k \in 2..m /\ j \in (n + 1)..(n + m) /\ j - 1 \in (n + 1)..(n + m)
        BY <1>1, <2>3
      <4>2. k > 2 => j > 2 /\ j - 2 \in (n + 1)..(n + m)
        BY <1>1, <2>3
      <4>3. (j - 1) - n = k - 1 /\ (j - 2) - n = k - 2
        BY <1>1
      <4> QED BY <1>1, <4>1, <4>2, <4>3
    <3> HIDE DEF k
    <3>2. Follows(t[k-1], t[k]) /\ Settles(t, k)
      BY <1>2, <3>1 DEF Linked, m
    <3> QED BY <3>1, <3>2 DEF Settles
  <2> QED BY <1>1, <2>1, <2>2, <2>3
<1>7. Linked(r)
  BY <1>6 DEF Linked
<1> QED BY <1>1, <1>4, <1>5, <1>7 DEF Body, r
-----------------------------------------------------------------------------
(* What an instruction does to the contracts                               *)

Fields ==
  {"owner", "strategist", "want", "controller", "paused", "vaults", "strategies",
   "approved", "stakers", "holds", "links", "pushed"}

Shaped(C) == \E S : C \in Seq(S) /\ \A k \in DOMAIN C : DOMAIN C[k] = Fields

Ledger(c) ==
  DOMAIN c = {"contracts", "purse", "time"} /\ Shaped(c.contracts) /\ c.purse \in Nat
    /\ c.time \in Nat

WriteOps ==
  WireOps \cup {"pay", "grantRole", "setOwner", "initialize", "unpause", "link",
                "updateAndPush"}

Target(i) ==
  CASE i.op \in WireOps        -> D!ControllerOf(i.id)
    [] i.op = "pay"            -> i.to
    [] i.op = "grantRole"      -> D!Name("rewards", i.id)
    [] i.op = "unpause"        -> SettName(i.id)
    [] i.op = "updateAndPush"  -> D!Digg("cpiMedianOracle")
    [] OTHER                   -> i.on

Written(op) ==
  CASE op = "setVault"        -> {"vaults"}
    [] op = "approveStrategy" -> {"approved"}
    [] op = "setStrategy"     -> {"strategies"}
    [] op = "pay"             -> {"holds"}
    [] op = "grantRole"       -> {"stakers"}
    [] op = "setOwner"        -> {"owner"}
    [] op = "unpause"         -> {"paused"}
    [] op = "link"            -> {"links"}
    [] op = "updateAndPush"   -> {"pushed"}
    [] OTHER                  -> {"owner", "strategist", "want", "paused", "controller"}

NameOf(i) ==
  CASE i.op = "deploySett"     -> SettName(i.id)
    [] i.op = "deployStrategy" -> StrategyName(i.id)
    [] OTHER                   -> i.name

(* E is C but for some fields of the contract at a. *)
Writes(C, E, a, F) ==
  /\ DOMAIN E = DOMAIN C
  /\ \A k \in DOMAIN C : /\ k # a => E[k] = C[k]
                         /\ \A f \in Fields \ F : E[k][f] = C[k][f]

(* E is C and a contract that has nothing yet. *)
Adds(C, E, i) ==
  \E r : /\ E = Append(C, r) /\ DOMAIN r = Fields
         /\ r.owner = i.owner /\ r.vaults = <<>> /\ r.strategies = <<>> /\ r.holds = 0
         /\ r.approved = {} /\ r.pushed = 0
         /\ (i.op = "deploy" /\ i.links # <<>>) \/ DOMAIN r.links = {}

LEMMA BlankFields == DOMAIN D!Blank = Fields
BY DEF D!Blank, Fields

LEMMA ShapedFacts ==
  ASSUME NEW C, Shaped(C)
  PROVE  /\ Len(C) \in Nat /\ DOMAIN C = 1..Len(C)
         /\ \A k \in DOMAIN C : DOMAIN C[k] = Fields
BY DEF Shaped

LEMMA PutWrites ==
  ASSUME NEW C, Shaped(C), NEW a, NEW r, NEW F,
         a \in DOMAIN C => DOMAIN r = Fields /\ \A f \in Fields \ F : r[f] = C[a][f],
         NEW E, E = [C EXCEPT ![a] = r]
  PROVE  /\ Shaped(E) /\ Writes(C, E, a, F) /\ Len(E) = Len(C)
         /\ a \in DOMAIN C => E[a] = r
<1>1. PICK S : C \in Seq(S) /\ \A k \in DOMAIN C : DOMAIN C[k] = Fields
  BY DEF Shaped
<1> DEFINE T == S \cup {r}
<1>2. Len(C) \in Nat /\ DOMAIN C = 1..Len(C) /\ C \in [1..Len(C) -> S]
  BY <1>1
<1>3. E \in [1..Len(C) -> T]
  BY <1>2
<1>4. E \in Seq(T) /\ Len(E) = Len(C)
  <2>1. E \in Seq(T)
    BY <1>2, <1>3
  <2> QED BY <1>2, <1>3, <2>1
<1>5. \A k \in DOMAIN C : (k # a => E[k] = C[k]) /\ (k = a => E[k] = r)
  BY <1>2
<1>6. DOMAIN E = DOMAIN C /\ \A k \in DOMAIN E : DOMAIN E[k] = Fields
  BY <1>1, <1>2, <1>3, <1>5
<1> HIDE DEF T
<1>7. Shaped(E)
  BY <1>4, <1>6 DEF Shaped
<1>8. Writes(C, E, a, F)
  BY <1>1, <1>5, <1>6 DEF Writes
<1> QED BY <1>4, <1>5, <1>7, <1>8

LEMMA AppendShaped ==
  ASSUME NEW C, Shaped(C), NEW r, DOMAIN r = Fields
  PROVE  /\ Shaped(Append(C, r)) /\ Len(Append(C, r)) = Len(C) + 1
         /\ \A k \in DOMAIN C : Append(C, r)[k] = C[k]
         /\ Append(C, r)[Len(C) + 1] = r
         /\ DOMAIN Append(C, r) = DOMAIN C \cup {Len(C) + 1}
<1>1. PICK S : C \in Seq(S) /\ \A k \in DOMAIN C : DOMAIN C[k] = Fields
  BY DEF Shaped
<1> DEFINE T == S \cup {r}
<1>2. C \in Seq(T) /\ r \in T
  <2>1. Len(C) \in Nat /\ C \in [1..Len(C) -> T]
    BY <1>1
  <2> QED BY <2>1
<1> HIDE DEF T
<1>3. Append(C, r) \in Seq(T) /\ Len(Append(C, r)) = Len(C) + 1
  BY <1>2
<1>4. /\ \A k \in DOMAIN C : Append(C, r)[k] = C[k]
      /\ Append(C, r)[Len(C) + 1] = r
      /\ DOMAIN Append(C, r) = DOMAIN C \cup {Len(C) + 1}
  BY <1>2
<1>5. Shaped(Append(C, r))
  BY <1>1, <1>3, <1>4 DEF Shaped
<1> QED BY <1>3, <1>4, <1>5

Here(name) == chain.contracts[memory[name]]

(* What the process knows after an instruction that succeeds *)
Forgotten(i) ==
  IF i.fresh THEN [n \in {m \in DOMAIN memory : m[1] # "logic"} |-> memory[n]] ELSE memory
Recalled(i) ==
  CASE i.op = "connect"     -> file
    [] i.op \in CreateOps   -> D!Over([n \in {NameOf(i)} |-> Len(chain.contracts) + 1], memory)
    [] i.op = "know"        -> D!Over([n \in i.names |-> 0], Forgotten(i))
    [] OTHER                -> memory

(* What a step other than "Begin" leaves of the script ... *)
Proceeds(i) ==
  /\ script' = script
  /\ file' = IF i.op = "print" THEN memory ELSE file
  /\ \/ todo' = <<>> /\ memory' \in {<<>>, memory, file}
     \/ /\ todo' = Tail(todo) /\ memory' = Recalled(i)
        /\ i.op \in CreateOps => Adds(chain.contracts, chain'.contracts, i)

(* ... and of the chain *)
Effects(i) ==
  LET C == chain.contracts
      E == chain'.contracts
  IN
  \/ chain' = chain
  \/ i.op \in CreateOps /\ Adds(C, E, i) /\ chain' = [chain EXCEPT !.contracts = E]
  \/ /\ i.op \in WriteOps /\ Shaped(E) /\ Writes(C, E, memory[Target(i)], Written(i.op))
     /\ IF i.op = "pay"
        THEN chain.purse >= i.amount /\ chain'.purse = chain.purse - i.amount
        ELSE chain'.purse = chain.purse
     /\ chain'.time = chain.time /\ DOMAIN chain' = DOMAIN chain
  \/ /\ i.op = "sleep" /\ E = C /\ chain'.purse = chain.purse
     /\ chain'.time = chain.time + ReportDelay /\ DOMAIN chain' = DOMAIN chain

LEMMA RecalledFacts ==
  ASSUME NEW i
  PROVE  /\ i.op = "connect" => Recalled(i) = file
         /\ i.op \in CreateOps =>
              Recalled(i) = D!Over([n \in {NameOf(i)} |-> Len(chain.contracts) + 1], memory)
         /\ i.op = "know" => Recalled(i) = D!Over([n \in i.names |-> 0], Forgotten(i))
         /\ i.op \notin {"connect", "know"} \cup CreateOps => Recalled(i) = memory
BY DEF Recalled, CreateOps

LEMMA TransactsDoes ==
  ASSUME NEW possible \in BOOLEAN, NEW after, NEW known, D!Transacts(possible, after, known)
  PROVE  /\ script' = script /\ file' = file
         /\ \/ todo' = <<>> /\ memory' = <<>>
            \/ possible /\ todo' = Tail(todo) /\ memory' = known /\ chain' = after
         /\ chain' = chain \/ (possible /\ chain' = after)
BY DEF D!Transacts, D!Dies, D!Goes

LEMMA TransactsByDoes ==
  ASSUME NEW possible \in BOOLEAN, NEW after, NEW by, D!TransactsBy(by, possible, after)
  PROVE  /\ script' = script /\ file' = file
         /\ \/ todo' = <<>> /\ memory' = <<>>
            \/ todo' = Tail(todo) /\ memory' = memory
         /\ chain' = chain \/ (possible /\ chain' = after)
         /\ by # "devMultisig" /\ todo' = Tail(todo) /\ Tail(todo) # <<>> => chain' = after
<1>1. CASE by = "devMultisig"
  BY <1>1 DEF D!TransactsBy, D!Executes, D!Fails, D!Goes
<1>2. CASE by # "devMultisig"
  BY <1>2, TransactsDoes DEF D!TransactsBy
<1> QED BY <1>1, <1>2

LEMMA PutDoes ==
  ASSUME NEW name, NEW r, NEW i, Ledger(chain), i.op \in WriteOps, name = Target(i),
         memory[name] \in DOMAIN chain.contracts =>
           DOMAIN r = Fields /\ \A f \in Fields \ Written(i.op) : r[f] = Here(name)[f]
  PROVE  LET c == D!Put(name, r)
         IN  /\ Shaped(c.contracts)
             /\ Writes(chain.contracts, c.contracts, memory[Target(i)], Written(i.op))
             /\ c.purse = chain.purse /\ c.time = chain.time
             /\ DOMAIN c = DOMAIN chain
             /\ Len(c.contracts) = Len(chain.contracts)
             /\ memory[name] \in DOMAIN chain.contracts => c.contracts[memory[name]] = r
<1>1. D!Put(name, r).contracts = [chain.contracts EXCEPT ![memory[name]] = r]
  BY DEF D!Put, Ledger
<1>2. /\ D!Put(name, r).purse = chain.purse /\ D!Put(name, r).time = chain.time
      /\ DOMAIN D!Put(name, r) = DOMAIN chain
  BY DEF D!Put, Ledger
<1> QED BY <1>1, <1>2, PutWrites DEF Ledger, Here

LEMMA HereShaped ==
  ASSUME Ledger(chain), NEW name, memory[name] \in DOMAIN chain.contracts
  PROVE  DOMAIN Here(name) = Fields
BY DEF Ledger, Shaped, Here

LEMMA CreatedDoes ==
  ASSUME NEW r, NEW i, Ledger(chain), DOMAIN r = Fields,
         r.owner = i.owner, r.vaults = <<>>, r.strategies = <<>>, r.holds = 0,
         r.approved = {}, r.pushed = 0,
         (i.op = "deploy" /\ i.links # <<>>) \/ DOMAIN r.links = {}
  PROVE  LET c == D!Created(r)
         IN  /\ Adds(chain.contracts, c.contracts, i)
             /\ c = [chain EXCEPT !.contracts = c.contracts]
             /\ c.contracts = Append(chain.contracts, r)
<1>1. D!Created(r).contracts = Append(chain.contracts, r)
  BY DEF D!Created, Ledger
<1>2. D!Created(r) = [chain EXCEPT !.contracts = Append(chain.contracts, r)]
  BY DEF D!Created
<1>3. D!Created(r) = [chain EXCEPT !.contracts = D!Created(r).contracts]
  BY <1>1, <1>2
<1>4. Adds(chain.contracts, D!Created(r).contracts, i)
  BY <1>1 DEF Adds
<1> QED BY <1>1, <1>3, <1>4

LEMMA CreatesDoes ==
  ASSUME NEW i, i = Head(todo), i.op \in CreateOps, Ledger(chain),
         NEW r, NEW possible \in BOOLEAN,
         D!Creates(NameOf(i), r, possible),
         possible =>
           /\ DOMAIN r = Fields /\ r.owner = i.owner /\ r.vaults = <<>>
           /\ r.strategies = <<>> /\ r.holds = 0 /\ r.approved = {} /\ r.pushed = 0
           /\ (i.op = "deploy" /\ i.links # <<>>) \/ DOMAIN r.links = {}
  PROVE  Proceeds(i) /\ Effects(i)
<1>1. /\ script' = script /\ file' = file
      /\ \/ todo' = <<>> /\ memory' = <<>>
         \/ /\ possible /\ todo' = Tail(todo) /\ chain' = D!Created(r)
            /\ memory' = D!Over([n \in {NameOf(i)} |-> Len(chain.contracts) + 1], memory)
      /\ chain' = chain \/ (possible /\ chain' = D!Created(r))
  BY TransactsDoes DEF D!Creates, D!Remember
<1>2. i.op \notin {"connect", "know", "print"}
  BY DEF CreateOps
<1>3. chain' = D!Created(r) /\ possible =>
        /\ Adds(chain.contracts, chain'.contracts, i)
        /\ chain' = [chain EXCEPT !.contracts = chain'.contracts]
  BY CreatedDoes
<1>4. Effects(i)
  BY <1>1, <1>3 DEF Effects
<1>0. script' = script /\ file' = file /\ i.op # "print"
  BY <1>1, <1>2
<1>5. CASE todo' = <<>> /\ memory' = <<>>
  BY <1>0, <1>4, <1>5 DEF Proceeds
<1>6. CASE /\ possible /\ todo' = Tail(todo) /\ chain' = D!Created(r)
           /\ memory' = D!Over([n \in {NameOf(i)} |-> Len(chain.contracts) + 1], memory)
  <2>1. memory' = Recalled(i)
    BY <1>6, RecalledFacts
  <2>2. todo' = Tail(todo) /\ Adds(chain.contracts, chain'.contracts, i)
    BY <1>3, <1>6
  <2> QED BY <1>0, <1>4, <2>1, <2>2 DEF Proceeds
<1> QED BY <1>1, <1>4, <1>5, <1>6

LEMMA WritesDoes ==
  ASSUME NEW i, i = Head(todo), i.op \in WriteOps, i.op \notin {"pay"}, Ledger(chain),
         NEW name, name = Target(i), NEW r, NEW possible \in BOOLEAN, NEW by,
         D!TransactsBy(by, possible, D!Put(name, r)),
         memory[name] \in DOMAIN chain.contracts =>
           DOMAIN r = Fields /\ \A f \in Fields \ Written(i.op) : r[f] = Here(name)[f]
  PROVE  Proceeds(i) /\ Effects(i)
<1>1. /\ script' = script /\ file' = file
      /\ \/ todo' = <<>> /\ memory' = <<>>
         \/ todo' = Tail(todo) /\ memory' = memory
      /\ chain' = chain \/ (possible /\ chain' = D!Put(name, r))
  BY TransactsByDoes
<1>2. i.op \notin {"connect", "know", "print"} \cup CreateOps
  BY DEF CreateOps, WriteOps, WireOps
<1>3. Proceeds(i)
  <2>1. CASE todo' = <<>> /\ memory' = <<>>
    BY <1>1, <1>2, <2>1 DEF Proceeds
  <2>2. CASE todo' = Tail(todo) /\ memory' = memory
    <3>1. memory' = Recalled(i)
      BY <1>2, <2>2, RecalledFacts
    <3> QED BY <1>1, <1>2, <2>2, <3>1 DEF Proceeds
  <2> QED BY <1>1, <2>1, <2>2
<1>4. CASE chain' = D!Put(name, r)
  <2>1. /\ Shaped(chain'.contracts)
        /\ Writes(chain.contracts, chain'.contracts, memory[Target(i)], Written(i.op))
        /\ chain'.purse = chain.purse /\ chain'.time = chain.time /\ DOMAIN chain' = DOMAIN chain
    BY <1>4, PutDoes
  <2> QED BY <1>3, <2>1 DEF Effects
<1> QED BY <1>1, <1>3, <1>4 DEF Effects

LEMMA PaysDoes ==
  ASSUME NEW i, i = Head(todo), i.op = "pay", Ledger(chain), D!PayBadger
  PROVE  /\ Proceeds(i) /\ Effects(i)
<1> DEFINE r == [Here(i.to) EXCEPT !.holds = @ + i.amount]
           put == D!Put(i.to, r)
           after == [put EXCEPT !.purse = @ - i.amount]
           possible == D!Knows({i.to}) /\ chain.purse >= i.amount
<1>1. D!Transacts(possible, after, memory)
  BY ZenonT(30) DEF D!PayBadger, D!At, Here, D!Instruction
<1>2. memory[i.to] \in DOMAIN chain.contracts =>
        DOMAIN r = Fields /\ \A f \in Fields \ Written(i.op) : r[f] = Here(i.to)[f]
  BY HereShaped DEF Fields, Written
<1>3. i.op \in WriteOps /\ Target(i) = i.to
  BY DEF WriteOps, WireOps, Target
<1> HIDE DEF r
<1>4. /\ Shaped(put.contracts)
      /\ Writes(chain.contracts, put.contracts, memory[Target(i)], Written(i.op))
      /\ put.purse = chain.purse /\ put.time = chain.time /\ DOMAIN put = DOMAIN chain
  BY <1>2, <1>3, PutDoes
<1> HIDE DEF put
<1>5. /\ after.contracts = put.contracts /\ after.time = put.time
      /\ after.purse = put.purse - i.amount /\ DOMAIN after = DOMAIN chain
  BY <1>4 DEF Ledger
<1> HIDE DEF after, possible
<1>6. /\ script' = script /\ file' = file
      /\ \/ todo' = <<>> /\ memory' = <<>>
         \/ todo' = Tail(todo) /\ memory' = memory
      /\ chain' = chain \/ (possible /\ chain' = after)
  BY <1>1, TransactsDoes DEF possible
<1>7. Proceeds(i)
  <2>1. Recalled(i) = memory
    BY RecalledFacts DEF CreateOps
  <2> QED BY <1>6, <2>1 DEF Proceeds, CreateOps
<1>8. Effects(i)
  BY <1>3, <1>4, <1>5, <1>6 DEF Effects, possible
<1> QED BY SMTT(30), <1>7, <1>8

LEMMA StepDoes ==
  ASSUME NEW i, i = Head(todo), Ledger(chain), D!Step, ~D!Begin
  PROVE  todo # <<>> /\ Proceeds(i) /\ Effects(i)
<1> USE DEF D!Instruction
<1>1. CASE D!KnowElsewhere
  <2>1. /\ todo # <<>> /\ i.op = "know" /\ todo' = Tail(todo)
        /\ script' = script /\ file' = file /\ chain' = chain
    BY <1>1 DEF D!KnowElsewhere, D!Reaches, D!Goes
  <2>2. memory' = D!Over([n \in i.names |-> 0], Forgotten(i))
    BY <1>1 DEF D!KnowElsewhere, Forgotten, D!Elsewhere
  <2>3. memory' = Recalled(i)
    BY <2>1, <2>2, RecalledFacts
  <2> QED BY <2>1, <2>3 DEF Proceeds, Effects, CreateOps
<1>2. CASE D!DeployProxy
  <2>1. todo # <<>> /\ i.op = "deploy" /\ i.op \in CreateOps /\ NameOf(i) = i.name
    BY <1>2 DEF D!DeployProxy, D!Reaches, CreateOps, NameOf
  <2>2. CASE D!Knows(i.needs)
    <3> DEFINE r == [D!Blank EXCEPT !.owner = i.owner, !.strategist = i.owner,
                                    !.links = [f \in DOMAIN i.links |-> memory[i.links[f]]]]
    <3>1. D!Creates(NameOf(i), r, TRUE)
      BY <1>2, <2>1, <2>2 DEF D!DeployProxy
    <3>2. /\ DOMAIN r = Fields /\ r.owner = i.owner /\ r.vaults = <<>>
          /\ r.strategies = <<>> /\ r.holds = 0 /\ r.approved = {} /\ r.pushed = 0
          /\ DOMAIN r.links = DOMAIN i.links
      BY DEF D!Blank, Fields
    <3>3. i.links = <<>> => DOMAIN r.links = {}
      BY <3>2
    <3> HIDE DEF r
    <3> QED BY <2>1, <3>1, <3>2, <3>3, CreatesDoes
  <2>3. CASE ~D!Knows(i.needs)
    <3>1. D!Transacts(FALSE, chain, memory)
      BY <1>2, <2>3 DEF D!DeployProxy
    <3>2. script' = script /\ file' = file /\ todo' = <<>> /\ memory' = <<>> /\ chain' = chain
      BY <3>1, TransactsDoes
    <3> QED BY <2>1, <3>2 DEF Proceeds, Effects
  <2> QED BY <2>2, <2>3
<1>3. CASE D!DeploySett
  <2>1. todo # <<>> /\ i.op = "deploySett" /\ i.op \in CreateOps /\ NameOf(i) = SettName(i.id)
    BY <1>3 DEF D!DeploySett, D!Reaches, CreateOps, NameOf
  <2>2. ASSUME NEW token
        PROVE  LET r == D!SettWith(token, i)
               IN  /\ DOMAIN r = Fields /\ r.owner = i.owner /\ r.vaults = <<>>
                   /\ r.strategies = <<>> /\ r.holds = 0 /\ r.approved = {} /\ r.pushed = 0
                   /\ DOMAIN r.links = {}
    BY DEF D!SettWith, D!Blank, Fields
  <2>3. CASE D!Creates(NameOf(i), D!SettWith(i.token, i), TRUE)
    BY <2>1, <2>2, <2>3, CreatesDoes
  <2>4. CASE D!Transacts(FALSE, chain, memory)
    <3>2. script' = script /\ file' = file /\ todo' = <<>> /\ memory' = <<>> /\ chain' = chain
      BY <2>4, TransactsDoes
    <3> QED BY <2>1, <3>2 DEF Proceeds, Effects
  <2>5. ASSUME NEW token, chain' = D!Created(D!SettWith(token, i)),
               memory' = D!Remember({NameOf(i)}, Len(chain.contracts) + 1),
               D!Goes(TRUE), UNCHANGED <<script, runs, file>>
        PROVE  Proceeds(i) /\ Effects(i)
    <3>1. /\ Adds(chain.contracts, chain'.contracts, i)
          /\ chain' = [chain EXCEPT !.contracts = chain'.contracts]
      BY <2>2, <2>5, CreatedDoes
    <3>2. memory' = Recalled(i)
      BY <2>1, <2>5, RecalledFacts DEF D!Remember
    <3>3. script' = script /\ file' = file /\ todo' = Tail(todo)
      BY <2>5 DEF D!Goes
    <3> QED BY <2>1, <3>1, <3>2, <3>3 DEF Proceeds, Effects
  <2>6. \/ D!Creates(NameOf(i), D!SettWith(i.token, i), TRUE)
        \/ D!Transacts(FALSE, chain, memory)
        \/ \E token : /\ chain' = D!Created(D!SettWith(token, i))
                      /\ memory' = D!Remember({NameOf(i)}, Len(chain.contracts) + 1)
                      /\ D!Goes(TRUE) /\ UNCHANGED <<script, runs, file>>
    BY <1>3, <2>1 DEF D!DeploySett, SettName
  <2> QED BY <2>1, <2>3, <2>4, <2>5, <2>6
<1>4. CASE D!DeployStrategy
  <2>1. /\ todo # <<>> /\ i.op = "deployStrategy" /\ i.op \in CreateOps
        /\ NameOf(i) = D!Name("strategy", i.id)
    BY <1>4 DEF D!DeployStrategy, D!Reaches, CreateOps, NameOf, StrategyName
  <2>2. CASE D!Knows(i.needs) /\ D!CanDeploy(i.kind, i.params)
    <3> DEFINE r == [D!Blank EXCEPT !.owner = i.owner, !.want = i.want,
                                    !.controller = memory[D!ControllerOf(i.id)]]
    <3>1. D!Creates(NameOf(i), r, TRUE)
      BY <1>4, <2>1, <2>2 DEF D!DeployStrategy
    <3>2. /\ DOMAIN r = Fields /\ r.owner = i.owner /\ r.vaults = <<>>
          /\ r.strategies = <<>> /\ r.holds = 0 /\ r.approved = {} /\ r.pushed = 0
          /\ DOMAIN r.links = {}
      BY DEF D!Blank, Fields
    <3> HIDE DEF r
    <3> QED BY <2>1, <3>1, <3>2, CreatesDoes
  <2>3. CASE ~(D!Knows(i.needs) /\ D!CanDeploy(i.kind, i.params))
    <3>1. D!Transacts(FALSE, chain, memory)
      BY <1>4, <2>3 DEF D!DeployStrategy
    <3>2. script' = script /\ file' = file /\ todo' = <<>> /\ memory' = <<>> /\ chain' = chain
      BY <3>1, TransactsDoes
    <3> QED BY <2>1, <3>2 DEF Proceeds, Effects
  <2> QED BY <2>2, <2>3
<1>5. CASE D!SetVault
  <2> DEFINE name == D!ControllerOf(i.id)
             r == [Here(name) EXCEPT !.vaults =
                    D!Over([w \in {D!Wants(i)} |-> memory[D!Name("sett", i.id)]], @)]
             possible == /\ i.by \in {Here(name).owner, Here(name).strategist}
                         /\ D!Wants(i) \notin DOMAIN Here(name).vaults
  <2>1. todo # <<>> /\ i.op = "setVault"
    BY <1>5 DEF D!SetVault, D!Reaches
  <2>2. i.op \in WriteOps /\ i.op # "pay" /\ name = Target(i)
    BY SMTT(30), <2>1 DEF WriteOps, WireOps, Target, SettName
  <2>3. D!TransactsBy(i.by, possible, D!Put(name, r))
    BY ZenonT(30), <1>5 DEF D!SetVault, D!At, Here
  <2>4. memory[name] \in DOMAIN chain.contracts =>
          DOMAIN r = Fields /\ \A f \in Fields \ Written(i.op) : r[f] = Here(name)[f]
    BY <2>1, HereShaped DEF Fields, Written
  <2> HIDE DEF r, name
  <2>5. possible \in BOOLEAN
    OBVIOUS
  <2> HIDE DEF possible
  <2> QED BY <2>1, <2>2, <2>3, <2>4, <2>5, WritesDoes
<1>6. CASE D!ApproveStrategy
  <2> DEFINE name == D!ControllerOf(i.id)
             r == [Here(name) EXCEPT !.approved =
                    @ \cup {<<D!Wants(i), memory[D!Name("strategy", i.id)]>>}]
             possible == i.by = Here(name).owner
  <2>1. todo # <<>> /\ i.op = "approveStrategy"
    BY <1>6 DEF D!ApproveStrategy, D!Reaches
  <2>2. i.op \in WriteOps /\ i.op # "pay" /\ name = Target(i)
    BY SMTT(30), <2>1 DEF WriteOps, WireOps, Target, SettName
  <2>3. D!TransactsBy(i.by, possible, D!Put(name, r))
    BY <1>6 DEF D!ApproveStrategy, D!At, Here
  <2>4. memory[name] \in DOMAIN chain.contracts =>
          DOMAIN r = Fields /\ \A f \in Fields \ Written(i.op) : r[f] = Here(name)[f]
    BY <2>1, HereShaped DEF Fields, Written
  <2> HIDE DEF r, name
  <2>5. possible \in BOOLEAN
    OBVIOUS
  <2> HIDE DEF possible
  <2> QED BY <2>1, <2>2, <2>3, <2>4, <2>5, WritesDoes
<1>7. CASE D!SetStrategy
  <2> DEFINE name == D!ControllerOf(i.id)
             r == [Here(name) EXCEPT !.strategies =
                    D!Over([w \in {D!Wants(i)} |-> memory[D!Name("strategy", i.id)]], @)]
             possible == /\ i.by \in {Here(name).owner, Here(name).strategist}
                         /\ <<D!Wants(i), memory[D!Name("strategy", i.id)]>> \in Here(name).approved
  <2>1. todo # <<>> /\ i.op = "setStrategy"
    BY <1>7 DEF D!SetStrategy, D!Reaches
  <2>2. i.op \in WriteOps /\ i.op # "pay" /\ name = Target(i)
    BY SMTT(30), <2>1 DEF WriteOps, WireOps, Target, SettName
  <2>3. D!TransactsBy(i.by, possible, D!Put(name, r))
    BY ZenonT(30), <1>7 DEF D!SetStrategy, D!At, Here
  <2>4. memory[name] \in DOMAIN chain.contracts =>
          DOMAIN r = Fields /\ \A f \in Fields \ Written(i.op) : r[f] = Here(name)[f]
    BY <2>1, HereShaped DEF Fields, Written
  <2> HIDE DEF r, name
  <2>5. possible \in BOOLEAN
    OBVIOUS
  <2> HIDE DEF possible
  <2> QED BY <2>1, <2>2, <2>3, <2>4, <2>5, WritesDoes
<1>8. CASE D!PayBadger
  <2>1. todo # <<>> /\ i.op = "pay"
    BY <1>8 DEF D!PayBadger, D!Reaches
  <2> QED BY <1>8, <2>1, PaysDoes
<1>9. CASE D!GrantRole
  <2> DEFINE name == D!Name("rewards", i.id)
             r == [Here(name) EXCEPT !.stakers = @ \cup {memory[D!Name("strategy", i.id)]}]
             possible == Here(name).owner = "deployer"
  <2>1. todo # <<>> /\ i.op = "grantRole"
    BY <1>9 DEF D!GrantRole, D!Reaches
  <2>2. i.op \in WriteOps /\ i.op # "pay" /\ name = Target(i)
    BY <2>1 DEF WriteOps, WireOps, Target, SettName
  <2>3. D!TransactsBy("deployer", possible, D!Put(name, r))
    BY <1>9 DEF D!GrantRole, D!TransactsBy, D!At, Here
  <2>4. memory[name] \in DOMAIN chain.contracts =>
          DOMAIN r = Fields /\ \A f \in Fields \ Written(i.op) : r[f] = Here(name)[f]
    BY <2>1, HereShaped DEF Fields, Written
  <2> HIDE DEF r, name
  <2>5. possible \in BOOLEAN
    OBVIOUS
  <2> HIDE DEF possible
  <2> QED BY <2>1, <2>2, <2>3, <2>4, <2>5, WritesDoes
<1>10. CASE D!GiveAway /\ i.if /\ Here(i.on).owner # i.by
  <2>1. /\ todo # <<>> /\ i.op = "setOwner" /\ todo' = Tail(todo)
        /\ UNCHANGED <<script, chain, memory, file>>
    BY <1>10 DEF D!GiveAway, D!Reaches, D!At, Here, D!deployVars, D!Goes
  <2>2. memory' = Recalled(i)
    BY <2>1, RecalledFacts DEF CreateOps
  <2> QED BY <2>1, <2>2 DEF Proceeds, Effects, CreateOps
<1>11. CASE D!GiveAway /\ ~(i.if /\ Here(i.on).owner # i.by)
  <2> DEFINE name == i.on
             r == [Here(name) EXCEPT !.owner = i.to]
             possible == Here(name).owner = i.by
  <2>1. todo # <<>> /\ i.op = "setOwner"
    BY <1>11 DEF D!GiveAway, D!Reaches
  <2>2. i.op \in WriteOps /\ i.op # "pay" /\ name = Target(i)
    BY <2>1 DEF WriteOps, WireOps, Target, SettName
  <2>3. D!TransactsBy("deployer", possible, D!Put(name, r))
    BY <1>11 DEF D!GiveAway, D!TransactsBy, D!At, Here
  <2>4. memory[name] \in DOMAIN chain.contracts =>
          DOMAIN r = Fields /\ \A f \in Fields \ Written(i.op) : r[f] = Here(name)[f]
    BY <2>1, HereShaped DEF Fields, Written
  <2> HIDE DEF r, name
  <2>5. possible \in BOOLEAN
    OBVIOUS
  <2> HIDE DEF possible
  <2> QED BY <2>1, <2>2, <2>3, <2>4, <2>5, WritesDoes
<1>12. CASE D!InitializeProxy
  <2> DEFINE name == i.on
             r == [Here(name) EXCEPT !.owner = "seeder", !.strategist = "deployer",
                    !.want = i.want, !.paused = i.on[1] = "sett",
                    !.controller = memory[D!Name("controller", "native")]]
             possible == Here(name).owner = ""
  <2>1. todo # <<>> /\ i.op = "initialize"
    BY <1>12 DEF D!InitializeProxy, D!Reaches
  <2>2. i.op \in WriteOps /\ i.op # "pay" /\ name = Target(i)
    BY <2>1 DEF WriteOps, WireOps, Target, SettName
  <2>3. D!TransactsBy("deployer", possible, D!Put(name, r))
    BY <1>12 DEF D!InitializeProxy, D!TransactsBy, D!At, Here
  <2>4. memory[name] \in DOMAIN chain.contracts =>
          DOMAIN r = Fields /\ \A f \in Fields \ Written(i.op) : r[f] = Here(name)[f]
    BY <2>1, HereShaped DEF Fields, Written
  <2> HIDE DEF r, name
  <2>5. possible \in BOOLEAN
    OBVIOUS
  <2> HIDE DEF possible
  <2> QED BY <2>1, <2>2, <2>3, <2>4, <2>5, WritesDoes
<1>13. CASE D!UnpauseSett
  <2> DEFINE name == D!Name("sett", i.id)
             r == [Here(name) EXCEPT !.paused = FALSE]
             possible == Here(name).owner = i.by /\ Here(name).paused
  <2>1. todo # <<>> /\ i.op = "unpause"
    BY <1>13 DEF D!UnpauseSett, D!Reaches
  <2>2. i.op \in WriteOps /\ i.op # "pay" /\ name = Target(i)
    BY SMTT(30), <2>1 DEF WriteOps, WireOps, Target, SettName
  <2>3. D!TransactsBy("deployer", possible, D!Put(name, r))
    BY <1>13 DEF D!UnpauseSett, D!TransactsBy, D!At, Here
  <2>4. memory[name] \in DOMAIN chain.contracts =>
          DOMAIN r = Fields /\ \A f \in Fields \ Written(i.op) : r[f] = Here(name)[f]
    BY <2>1, HereShaped DEF Fields, Written
  <2> HIDE DEF r, name
  <2>5. possible \in BOOLEAN
    OBVIOUS
  <2> HIDE DEF possible
  <2> QED BY <2>1, <2>2, <2>3, <2>4, <2>5, WritesDoes
<1>14. CASE D!SetLink
  <2> DEFINE name == i.on
             r == [Here(name) EXCEPT !.links = D!Over([f \in {i.field} |-> memory[i.to]], @)]
             possible == Here(name).owner = "deployer"
  <2>1. todo # <<>> /\ i.op = "link"
    BY <1>14 DEF D!SetLink, D!Reaches
  <2>2. i.op \in WriteOps /\ i.op # "pay" /\ name = Target(i)
    BY SMTT(30), <2>1 DEF WriteOps, WireOps, Target, SettName
  <2>3. D!TransactsBy("deployer", possible, D!Put(name, r))
    BY <1>14 DEF D!SetLink, D!TransactsBy, D!At, Here
  <2>4. memory[name] \in DOMAIN chain.contracts =>
          DOMAIN r = Fields /\ \A f \in Fields \ Written(i.op) : r[f] = Here(name)[f]
    BY <2>1, HereShaped DEF Fields, Written
  <2> HIDE DEF r, name
  <2>5. possible \in BOOLEAN
    OBVIOUS
  <2> HIDE DEF possible
  <2> QED BY <2>1, <2>2, <2>3, <2>4, <2>5, WritesDoes
<1>15. CASE D!UpdateAndPush
  <2> DEFINE name == D!Digg("cpiMedianOracle")
             r == [Here(name) EXCEPT !.pushed = chain.time]
             possible == "provider" \in DOMAIN Here(name).links
  <2>1. todo # <<>> /\ i.op = "updateAndPush"
    BY <1>15 DEF D!UpdateAndPush, D!Reaches
  <2>2. i.op \in WriteOps /\ i.op # "pay" /\ name = Target(i)
    BY <2>1 DEF WriteOps, WireOps, Target, SettName
  <2>3. D!TransactsBy("deployer", possible, D!Put(name, r))
    BY <1>15 DEF D!UpdateAndPush, D!TransactsBy, D!At, Here
  <2>4. memory[name] \in DOMAIN chain.contracts =>
          DOMAIN r = Fields /\ \A f \in Fields \ Written(i.op) : r[f] = Here(name)[f]
    BY <2>1, HereShaped DEF Fields, Written
  <2> HIDE DEF r, name
  <2>5. possible \in BOOLEAN
    OBVIOUS
  <2> HIDE DEF possible
  <2> QED BY <2>1, <2>2, <2>3, <2>4, <2>5, WritesDoes
<1>16. CASE D!Sleep
  <2>1. /\ todo # <<>> /\ i.op = "sleep" /\ todo' = Tail(todo)
        /\ UNCHANGED <<script, memory, file>>
        /\ chain' = [chain EXCEPT !.time = @ + ReportDelay]
    BY <1>16 DEF D!Sleep, D!Reaches, D!Goes
  <2>2. memory' = Recalled(i)
    BY <2>1, RecalledFacts DEF CreateOps
  <2>3. /\ chain'.contracts = chain.contracts /\ chain'.purse = chain.purse
        /\ chain'.time = chain.time + ReportDelay /\ DOMAIN chain' = DOMAIN chain
    BY <2>1 DEF Ledger
  <2> QED BY <2>1, <2>2, <2>3 DEF Proceeds, Effects, CreateOps
<1>17. CASE D!CheckThat \/ D!Raise
  <2>1. /\ todo # <<>> /\ i.op \in {"check", "raise"}
        /\ UNCHANGED <<script, chain, file>>
        /\ \/ todo' = Tail(todo) /\ memory' = memory
           \/ todo' = <<>> /\ memory' \in {<<>>, memory}
    BY <1>17 DEF D!CheckThat, D!Raise, D!Reaches, D!Goes, D!deployVars, D!Dies
  <2>2. memory = Recalled(i) /\ i.op \notin {"print"} \cup CreateOps
    BY <2>1, RecalledFacts DEF CreateOps
  <2>3. Effects(i)
    BY <2>1 DEF Effects
  <2>4. Proceeds(i)
    BY <2>1, <2>2 DEF Proceeds
  <2> QED BY <2>1, <2>3, <2>4
<1>18. CASE D!ConnectBadger
  <2>1. /\ todo # <<>> /\ i.op = "connect" /\ memory' = file
        /\ UNCHANGED <<script, chain, file>>
        /\ todo' \in {Tail(todo), <<>>}
    BY <1>18 DEF D!ConnectBadger, D!Reaches, D!Goes
  <2>2. memory' = Recalled(i)
    BY <2>1, RecalledFacts
  <2> QED BY <2>1, <2>2 DEF Proceeds, Effects, CreateOps
<1>19. CASE D!PrintToFile
  <2>1. /\ todo # <<>> /\ i.op = "print" /\ file' = memory /\ todo' = Tail(todo)
        /\ UNCHANGED <<script, chain, memory>>
    BY <1>19 DEF D!PrintToFile, D!Reaches, D!Goes
  <2>2. memory' = Recalled(i)
    BY <2>1, RecalledFacts DEF CreateOps
  <2> QED BY <2>1, <2>2 DEF Proceeds, Effects, CreateOps
<1> QED
  BY <1>1, <1>2, <1>3, <1>4, <1>5, <1>6, <1>7, <1>8, <1>9, <1>10, <1>11, <1>12, <1>13,
     <1>14, <1>15, <1>16, <1>17, <1>18, <1>19 DEF D!Step

-----------------------------------------------------------------------------
(* What the programs consist of                                            *)

LEMMA FlattenIn ==
  ASSUME NEW P, <<>> \in P, Joining(P), NEW seqs \in Seq(P)
  PROVE  D!FlattenSeq(seqs) \in P
<1>1. CASE seqs = <<>>
  BY <1>1 DEF D!FlattenSeq
<1>2. CASE seqs # <<>>
  <2> DEFINE n == Len(seqs)
             f == CHOOSE f : Joins(f, seqs, n)
  <2>1. n \in Nat /\ n \in 1..n /\ \A i \in 1..n : seqs[i] \in P
    BY <1>2
  <2>2. D!FlattenSeq(seqs) = f[n]
    BY <1>2 DEF D!FlattenSeq, Joins
  <2>3. Joins(f, seqs, n)
    BY <2>1, JoinsExist
  <2> HIDE DEF f, n
  <2> QED BY <2>1, <2>2, <2>3, JoinedIn
<1> QED BY <1>1, <1>2

LEMMA BodyEmpty == ASSUME NEW p, NEW k PROVE Body(p, <<>>) /\ Fair(k, <<>>)
BY DEF Body, Linked, Fair

(* The parts that are joined are sequences over one set. *)
LEMMA EachIn ==
  ASSUME NEW T, NEW ids \in Seq(T), NEW g, g = [k \in DOMAIN ids |-> g[k]],
         \A k \in DOMAIN ids : \E S : g[k] \in Seq(S)
  PROVE  \E S : g \in Seq(Seq(S))
<1> DEFINE S == UNION {{g[k][j] : j \in 1..Len(g[k])} : k \in DOMAIN ids}
<1>1. Len(ids) \in Nat /\ DOMAIN ids = 1..Len(ids)
  OBVIOUS
<1>2. ASSUME NEW k \in DOMAIN ids PROVE g[k] \in Seq(S)
  <2> DEFINE s == g[k]
  <2>1. PICK R : s \in Seq(R)
    OBVIOUS
  <2>2. \A j \in 1..Len(s) : s[j] \in S
    OBVIOUS
  <2> HIDE DEF S, s
  <2>3. s \in [1..Len(s) -> S] /\ Len(s) \in Nat
    BY <2>1, <2>2
  <2> QED BY <2>3 DEF s
<1> HIDE DEF S
<1>3. g \in [1..Len(ids) -> Seq(S)]
  BY <1>1, <1>2
<1> QED BY <1>1, <1>3

LEMMA EachBody ==
  ASSUME NEW p, NEW T, NEW ids \in Seq(T), NEW g, g = [k \in DOMAIN ids |-> g[k]],
         \A k \in DOMAIN ids : Body(p, g[k])
  PROVE  Body(p, D!FlattenSeq(g))
<1>1. PICK S : g \in Seq(Seq(S))
  <2>1. \A k \in DOMAIN ids : \E S : g[k] \in Seq(S)
    BY DEF Body
  <2> QED BY <2>1, EachIn
<1> DEFINE P == {t \in Seq(S) : Body(p, t)}
<1>2. Joining(P)
  BY BodyJoin DEF Joining
<1>3. <<>> \in P
  BY BodyEmpty
<1>4. g \in Seq(P)
  <2> DEFINE n == Len(ids)
  <2>1. n \in Nat /\ DOMAIN g = 1..n /\ DOMAIN g = DOMAIN ids
    OBVIOUS
  <2>2. \A k \in DOMAIN g : g[k] \in P
    BY <1>1, <2>1
  <2> HIDE DEF P, n
  <2>3. g \in [1..n -> P]
    BY <2>1, <2>2
  <2> QED BY <2>1, <2>3
<1>5. D!FlattenSeq(g) \in P
  <2> HIDE DEF P
  <2> QED BY <1>2, <1>3, <1>4, FlattenIn
<1> QED BY <1>5

LEMMA EachFair ==
  ASSUME NEW k, NEW T, NEW ids \in Seq(T), NEW g, g = [j \in DOMAIN ids |-> g[j]],
         \A j \in DOMAIN ids : Fair(k, g[j])
  PROVE  Fair(k, D!FlattenSeq(g))
<1>1. PICK S : g \in Seq(Seq(S))
  <2>1. \A j \in DOMAIN ids : \E S : g[j] \in Seq(S)
    BY DEF Fair
  <2> QED BY <2>1, EachIn
<1> DEFINE P == {t \in Seq(S) : Fair(k, t)}
<1>2. Joining(P)
  BY FairJoin DEF Joining
<1>3. <<>> \in P
  BY BodyEmpty
<1>4. g \in Seq(P)
  <2> DEFINE n == Len(ids)
  <2>1. n \in Nat /\ DOMAIN g = 1..n /\ DOMAIN g = DOMAIN ids
    OBVIOUS
  <2>2. \A j \in DOMAIN g : g[j] \in P
    BY <1>1, <2>1
  <2> HIDE DEF P, n
  <2>3. g \in [1..n -> P]
    BY <2>1, <2>2
  <2> QED BY <2>1, <2>3
<1>5. D!FlattenSeq(g) \in P
  <2> HIDE DEF P
  <2> QED BY <1>2, <1>3, <1>4, FlattenIn
<1> QED BY <1>5

LEMMA BodyOne == ASSUME NEW p, NEW i, Building(p, i), Opens(i) PROVE Body(p, <<i>>)
<1>1. <<i>> \in Seq({i}) /\ Len(<<i>>) = 1 /\ <<i>>[1] = i
  OBVIOUS
<1> DEFINE t == <<i>>
<1>2. t \in Seq({i}) /\ Len(t) = 1 /\ t[1] = i
  BY <1>1
<1> HIDE DEF t
<1>3. Body(p, t)
  BY <1>2 DEF Body, Linked
<1> QED BY <1>3 DEF t

LEMMA FairOne == ASSUME NEW k, NEW i, Ok(k, i) PROVE Fair(k, <<i>>)
<1> DEFINE t == <<i>>
<1>2. t \in Seq({i}) /\ Len(t) = 1 /\ t[1] = i
  OBVIOUS
<1> HIDE DEF t
<1>3. Fair(k, t)
  BY <1>2 DEF Fair
<1> QED BY <1>3 DEF t

LEMMA BodyIsFair ==
  ASSUME NEW p, NEW k \in {"mainnet", "digg", "plain"}, NEW t, Body(p, t) PROVE Fair(k, t)
<1>1. \A j \in 1..Len(t) : Ok(k, t[j])
  BY DEF Body, Building, Ok, OnMainnet, Plain, CreateOps, WireOps
<1> QED BY <1>1 DEF Body, Fair

(* The constructors *)

LEMMA KnowBody ==
  ASSUME NEW p, NEW names, \A n \in names : n[1] \in Outside
  PROVE  Body(p, D!Know(names))
<1> DEFINE i == [op |-> "know", names |-> names, fresh |-> FALSE]
<1>1. Building(p, i) /\ Opens(i)
  BY DEF Building, Planned, Opens, Fine, CreateOps, WireOps
<1> HIDE DEF i
<1>2. Body(p, <<i>>)
  BY <1>1, BodyOne
<1> QED BY <1>2 DEF D!Know, i

LEMMA LogicBody == ASSUME NEW p, NEW kinds PROVE Body(p, D!Know(D!Logic(kinds)))
<1>1. \A n \in D!Logic(kinds) : n[1] \in Outside
  BY DEF D!Logic, D!Name, Outside
<1> QED BY <1>1, KnowBody

LEMMA NewBody ==
  ASSUME NEW p, NEW name, NEW needs, NEW owner,
         name[1] \notin Outside \cup {"sett", "strategy"},
         owner \in {"deployer", "devMultisig", "dao"},
         name[1] \in {"admin", "escrow"} => owner = "deployer",
         p /\ name[1] = "controller" =>
           name \in {D!Name("controller", "native"), D!Name("controller", "harvest")}
  PROVE  Body(p, D!New(name, needs, owner))
<1> DEFINE i == [op |-> "deploy", name |-> name, needs |-> needs, owner |-> owner,
                 links |-> <<>>]
<1>1. Building(p, i) /\ Opens(i)
  BY DEF Building, Planned, Opens, Fine, CreateOps, WireOps
<1> HIDE DEF i
<1>2. Body(p, <<i>>)
  BY <1>1, BodyOne
<1> QED BY <1>2 DEF D!New, i

LEMMA NewSettBody ==
  ASSUME NEW p, NEW id, NEW controller, NEW token, NEW owner,
         owner \in {"deployer", "devMultisig"}, p => id \in Range(Setts)
  PROVE  Body(p, D!NewSett(id, controller, token, owner))
<1> DEFINE i == [op |-> "deploySett", id |-> id, controller |-> controller,
                 token |-> token, owner |-> owner]
<1>1. Building(p, i) /\ Opens(i)
  BY DEF Building, Planned, Opens, Fine, CreateOps, WireOps
<1> HIDE DEF i
<1>2. Body(p, <<i>>)
  BY <1>1, BodyOne
<1> QED BY <1>2 DEF D!NewSett, i

LEMMA CheckBody ==
  ASSUME NEW p, NEW that, NEW id, that # "sameWant"
  PROVE  Body(p, D!Check(that, id))
<1> DEFINE i == [op |-> "check", that |-> that, id |-> id]
<1>1. Building(p, i) /\ Opens(i)
  BY DEF Building, Planned, Opens, Fine, CreateOps, WireOps
<1> HIDE DEF i
<1>2. Body(p, <<i>>)
  BY <1>1, BodyOne
<1> QED BY <1>2 DEF D!Check, i

LEMMA UnpauseBody == ASSUME NEW p, NEW id, NEW by PROVE Body(p, D!Unpause(id, by))
<1> DEFINE i == [op |-> "unpause", id |-> id, by |-> by]
<1>1. Building(p, i) /\ Opens(i)
  BY DEF Building, Planned, Opens, Fine, CreateOps, WireOps
<1> HIDE DEF i
<1>2. Body(p, <<i>>)
  BY <1>1, BodyOne
<1> QED BY <1>2 DEF D!Unpause, i

(* A strategy that is not wired, one that is, and one with its Sett *)
Strategy(id, kind, given, want, needs, owner) ==
  [op |-> "deployStrategy", id |-> id, kind |-> kind, want |-> want,
   params |-> D!Config[id].params \cup given,
   needs |-> needs \cup D!Logic({kind}) \cup {D!Admin, D!ControllerOf(id)},
   owner |-> D!GovernedBy(kind, owner)]
Wirings(id, by) ==
  <<SameWant(id), Wiring("setVault", id, by), Wiring("approveStrategy", id, by),
    Wiring("setStrategy", id, by)>>

LEMMA StrategyBuilds ==
  ASSUME NEW p, NEW id, NEW kind, NEW given, NEW want, NEW needs, NEW owner,
         owner \in {"deployer", "devMultisig"},
         p => id \in Range(Setts) /\ (id \in {"badger", "uniBadgerWbtc"} => want = id),
         NEW i, i = Strategy(id, kind, given, want, needs, owner)
  PROVE  Building(p, i) /\ Opens(i)
<1>1. D!GovernedBy(kind, owner) \in {"deployer", "devMultisig"}
  BY DEF D!GovernedBy
<1> QED
  BY <1>1 DEF Building, Planned, Opens, Fine, CreateOps, WireOps, Strategy

LEMMA StrategyBody ==
  ASSUME NEW p, NEW id, NEW kind, NEW given, NEW want, NEW needs, NEW owner,
         owner \in {"deployer", "devMultisig"},
         p => id \in Range(Setts) /\ (id \in {"badger", "uniBadgerWbtc"} => want = id)
  PROVE  Body(p, D!NewStrategy(id, kind, given, want, needs, owner))
<1>1. PICK i : i = Strategy(id, kind, given, want, needs, owner)
  OBVIOUS
<1>2. Building(p, i) /\ Opens(i)
  BY <1>1, StrategyBuilds
<1>3. Body(p, <<i>>)
  BY <1>2, BodyOne
<1> QED BY <1>1, <1>3 DEF D!NewStrategy, Strategy

LEMMA WiringBuilds ==
  ASSUME NEW p, NEW op \in WireOps, NEW id, NEW by
  PROVE  Building(p, Wiring(op, id, by)) /\ Building(p, SameWant(id))
BY DEF Building, Planned, Fine, CreateOps, WireOps, Wiring, SameWant

LEMMA SameSeq ==
  ASSUME NEW S, NEW s \in Seq(S), NEW t \in Seq(S), Len(s) = Len(t),
         \A j \in 1..Len(s) : s[j] = t[j]
  PROVE  s = t
<1> DEFINE n == Len(s)
<1>1. n \in Nat /\ s \in [1..n -> S] /\ t \in [1..n -> S]
  OBVIOUS
<1> HIDE DEF n
<1> QED BY <1>1 DEF n

LEMMA OneMore ==
  ASSUME NEW S, NEW s \in Seq(S), NEW i \in S
  PROVE  /\ s \o <<i>> \in Seq(S) /\ Len(s \o <<i>>) = Len(s) + 1 /\ Len(s) \in Nat
         /\ \A j \in 1..Len(s) : (s \o <<i>>)[j] = s[j]
         /\ (s \o <<i>>)[Len(s) + 1] = i
<1>1. <<i>> \in Seq(S)
  OBVIOUS
<1>2. Len(<<i>>) = 1 /\ <<i>>[1] = i
  OBVIOUS
<1>3. PICK t \in Seq(S) : t = <<i>>
  BY <1>1
<1> DEFINE r == s \o t
<1>4. /\ r \in Seq(S) /\ Len(r) = Len(s) + Len(t) /\ Len(s) \in Nat
      /\ \A j \in 1..Len(s) : r[j] = s[j]
      /\ \A j \in (Len(s) + 1)..(Len(s) + Len(t)) : r[j] = t[j - Len(s)]
  OBVIOUS
<1> HIDE DEF r
<1> DEFINE n == Len(s)
           m == Len(t)
<1>5. n \in Nat /\ m = 1 /\ t[1] = i
  BY <1>2, <1>3, <1>4
<1>6. /\ Len(r) = n + m
      /\ \A j \in (n + 1)..(n + m) : r[j] = t[j - n]
  BY <1>4
<1> HIDE DEF n, m
<1>7. Len(r) = n + 1 /\ r[n + 1] = i
  BY <1>5, <1>6
<1>8. /\ r \in Seq(S) /\ Len(r) = Len(s) + 1 /\ Len(s) \in Nat
      /\ \A j \in 1..Len(s) : r[j] = s[j]
      /\ r[Len(s) + 1] = i
  BY <1>4, <1>7 DEF n
<1> QED BY <1>3, <1>8 DEF r

LEMMA SeqWider ==
  ASSUME NEW S, NEW T, S \subseteq T, NEW s \in Seq(S)
  PROVE  s \in Seq(T)
<1>1. Len(s) \in Nat /\ s \in [1..Len(s) -> T]
  OBVIOUS
<1> QED BY <1>1

LEMMA TwoOn == \A n \in Nat : n + 2 \in Nat /\ (n + 2) - 1 = n + 1 /\ n + 2 > 1
OBVIOUS

LEMMA NotNone == ASSUME NEW t, Len(t) > 1 PROVE t # <<>>
OBVIOUS

Ends(t, h, i) == \E n \in Nat : Len(t) = n + 2 /\ t[n + 2] = i /\ t[n + 1] = h

LEMMA TwoMore ==
  ASSUME NEW S, NEW b \in Seq(S), NEW h \in S, NEW i \in S
  PROVE  Ends((b \o <<h>>) \o <<i>>, h, i)
<1>1. PICK s : s = b \o <<h>>
  OBVIOUS
<1>2. s \in Seq(S) /\ Len(s) = Len(b) + 1 /\ s[Len(b) + 1] = h /\ Len(b) \in Nat
  BY <1>1, OneMore
<1>3. s \in Seq(S)
  BY <1>2
<1>4. PICK t : t = s \o <<i>>
  OBVIOUS
<1>5. Len(t) = Len(s) + 1 /\ t[Len(s) + 1] = i /\ \A j \in 1..Len(s) : t[j] = s[j]
  <2>1. /\ Len(s \o <<i>>) = Len(s) + 1 /\ (s \o <<i>>)[Len(s) + 1] = i
        /\ \A j \in 1..Len(s) : (s \o <<i>>)[j] = s[j]
    BY <1>3, OneMore
  <2> QED BY <1>4, <2>1
<1> DEFINE n == Len(b)
           m == Len(s)
<1>6. n \in Nat /\ m = n + 1 /\ s[n + 1] = h
  BY <1>2
<1>7. Len(t) = m + 1 /\ t[m + 1] = i /\ \A j \in 1..m : t[j] = s[j]
  BY <1>5
<1> HIDE DEF n, m
<1>8. n \in Nat /\ Len(t) = n + 2 /\ t[n + 2] = i /\ t[n + 1] = h
  BY <1>6, <1>7
<1>9. Ends(t, h, i)
  BY <1>8 DEF Ends
<1> QED BY <1>1, <1>4, <1>9

LEMMA FourInARow ==
  ASSUME NEW a, NEW b, NEW c, NEW d
  PROVE  ((<<a>> \o <<b>>) \o <<c>>) \o <<d>> = <<a, b, c, d>>
<1> DEFINE S == {a, b, c, d}
           o == <<a>>
           p == o \o <<b>>
           q == p \o <<c>>
           r == q \o <<d>>
           t == <<a, b, c, d>>
<1>1. t \in Seq(S) /\ Len(t) = 4 /\ t[1] = a /\ t[2] = b /\ t[3] = c /\ t[4] = d
  OBVIOUS
<1>3. a \in S /\ b \in S /\ c \in S /\ d \in S
  OBVIOUS
<1>4t. o \in Seq(S)
  OBVIOUS
<1>4. Len(o) = 1 /\ o[1] = a
  OBVIOUS
<1> HIDE DEF o, p, q, r, t, S
<1>5a. /\ p \in Seq(S) /\ Len(p) = Len(o) + 1
       /\ \A j \in 1..Len(o) : p[j] = o[j]
       /\ p[Len(o) + 1] = b
  BY <1>4t, <1>3, OneMore DEF p
<1>5t. p \in Seq(S)
  BY <1>5a
<1>5. Len(p) = 2 /\ p[1] = a /\ p[2] = b
  BY <1>4, <1>5a
<1>6a. /\ q \in Seq(S) /\ Len(q) = Len(p) + 1
       /\ \A j \in 1..Len(p) : q[j] = p[j]
       /\ q[Len(p) + 1] = c
  BY <1>5t, <1>3, OneMore DEF q
<1>6t. q \in Seq(S)
  BY <1>6a
<1>6. Len(q) = 3 /\ q[1] = a /\ q[2] = b /\ q[3] = c
  BY <1>5, <1>6a
<1>7a. /\ r \in Seq(S) /\ Len(r) = Len(q) + 1
       /\ \A j \in 1..Len(q) : r[j] = q[j]
       /\ r[Len(q) + 1] = d
  BY <1>6t, <1>3, OneMore DEF r
<1>7t. r \in Seq(S)
  BY <1>7a
<1>7. Len(r) = 4 /\ r[1] = a /\ r[2] = b /\ r[3] = c /\ r[4] = d
  BY <1>6, <1>7a
<1>8. \A j \in 1..Len(r) : r[j] = t[j]
  <2>1. \A j \in 1..4 : j = 1 \/ j = 2 \/ j = 3 \/ j = 4
    OBVIOUS
  <2> QED BY <1>1, <1>7, <2>1
<1>9. r = t
  BY <1>1, <1>7t, <1>7, <1>8, SameSeq
<1> QED BY <1>9 DEF r, q, p, o, t

LEMMA WireUpIs ==
  ASSUME NEW id
  PROVE  /\ D!WireUpSett(id) = Wirings(id, "deployer")
         /\ D!WireUpSettMultisig(id) = Wirings(id, "devMultisig")
BY FourInARow DEF D!WireUpSett, D!WireUpSettMultisig, Wirings, D!Check, D!Wire, SameWant, Wiring

LEMMA WiringFields ==
  ASSUME NEW op, NEW id, NEW by
  PROVE  /\ Wiring(op, id, by).op = op /\ Wiring(op, id, by).id = id
         /\ Wiring(op, id, by).by = by /\ Wiring(op, id, by).want = ""
BY DEF Wiring

LEMMA SameWantFields ==
  ASSUME NEW id
  PROVE  SameWant(id).op = "check" /\ SameWant(id).that = "sameWant" /\ SameWant(id).id = id
BY DEF SameWant

(* What is wired is what the program has just deployed, ... *)
LEMMA WireAfter ==
  ASSUME NEW p, NEW s, Body(p, s), s # <<>>, NEW id, NEW by, NEW n, n = Len(s),
         s[n].op = "deployStrategy", s[n].id = id,
         SettName(id) \in s[n].needs \/ (n > 1 /\ s[n-1].op = "deploySett" /\ s[n-1].id = id)
  PROVE  Body(p, s \o Wirings(id, by))
<1>1. PICK w1, w2, w3, w4 :
        /\ w1 = SameWant(id) /\ w2 = Wiring("setVault", id, by)
        /\ w3 = Wiring("approveStrategy", id, by) /\ w4 = Wiring("setStrategy", id, by)
  OBVIOUS
<1>3. /\ w1.op = "check" /\ w1.that = "sameWant" /\ w1.id = id
      /\ w2.op = "setVault" /\ w2.id = id
      /\ w3.op = "approveStrategy" /\ w3.id = id /\ w3.by = by
      /\ w4.op = "setStrategy" /\ w4.id = id /\ w4.by = by
  BY <1>1 DEF SameWant, Wiring
<1>2. Building(p, w1) /\ Building(p, w2) /\ Building(p, w3) /\ Building(p, w4)
  BY <1>1, WiringBuilds DEF WireOps
<1> DEFINE w == <<w1, w2, w3, w4>>
           R == {w1, w2, w3, w4}
<1>0. w \in Seq(R) /\ Len(w) = 4
  OBVIOUS
<1>0a. w[1] = w1 /\ w[2] = w2 /\ w[3] = w3 /\ w[4] = w4
  OBVIOUS
<1>0b. Wirings(id, by) = w
  BY <1>1 DEF Wirings
<1> HIDE DEF w, R
<1>4. PICK S : s \in Seq(S)
  BY DEF Body
<1> DEFINE r == s \o w
           m == Len(w)
<1>5. /\ r \in Seq(S \cup R) /\ Len(r) = n + m /\ n \in Nat /\ m \in Nat /\ n > 0
      /\ \A j \in 1..n : r[j] = s[j]
      /\ \A j \in (n + 1)..(n + m) : r[j] = w[j - n]
  <2>1. w \in Seq(R)
    BY <1>0
  <2> QED BY <1>4, <2>1, Joined
<1>6. m = 4
  BY <1>0
<1> HIDE DEF r, m
<1>7. r[n+1] = w1 /\ r[n+2] = w2 /\ r[n+3] = w3 /\ r[n+4] = w4
  <2>1. \A k \in 1..4 : n + k \in (n + 1)..(n + 4) /\ (n + k) - n = k
    BY <1>5
  <2>2. \A k \in 1..4 : r[n + k] = w[k]
    BY <1>5, <1>6, <2>1
  <2> QED BY <1>0a, <2>2
<1>7a. /\ \A j \in 1..Len(r) : j \in 1..n \/ j = n+1 \/ j = n+2 \/ j = n+3 \/ j = n+4
       /\ r[n] = s[n] /\ (n > 1 => r[n-1] = s[n-1]) /\ Len(r) = n + 4
  BY <1>5, <1>6
<1>8. ASSUME NEW j \in 1..Len(r) PROVE Building(p, r[j])
  <2>1. \A k \in 1..n : Building(p, s[k])
    BY DEF Body
  <2> QED BY <1>2, <1>5, <1>7, <1>7a, <2>1
<1>9. r # <<>> /\ Opens(r[1])
  <2>1. Opens(s[1])
    BY DEF Body
  <2>2. r[1] = s[1]
    BY <1>5
  <2> QED BY <1>5, <1>7, <1>7a, <2>1, <2>2
<1>10. ASSUME NEW j \in 2..Len(r) PROVE Follows(r[j-1], r[j]) /\ Settles(r, j)
  <2>1. CASE j \in 1..n
    <3>1. j \in 2..n /\ r[j] = s[j] /\ r[j-1] = s[j-1] /\ (j > 2 => r[j-2] = s[j-2])
      BY <1>5, <2>1
    <3>2. Follows(s[j-1], s[j]) /\ Settles(s, j)
      BY <3>1 DEF Body, Linked
    <3> QED BY <3>1, <3>2 DEF Settles
  <2>2. CASE j = n + 1
    <3>1. r[j-1] = s[n] /\ r[j] = w1 /\ (n > 1 => j > 2 /\ r[j-2] = s[n-1])
      BY <1>5, <1>7, <1>7a, <2>2
    <3> QED BY <1>1, <1>3, <3>1 DEF Follows, Settles
  <2>3. CASE j = n + 2
    <3>1. r[j-1] = w1 /\ r[j] = w2
      BY <1>5, <1>7, <1>7a, <2>3
    <3> QED BY <1>1, <1>3, <3>1 DEF Follows, Settles
  <2>4. CASE j = n + 3
    <3>1. r[j-1] = w2 /\ r[j] = w3
      BY <1>5, <1>7, <1>7a, <2>4
    <3> QED BY <1>1, <1>3, <3>1 DEF Follows, Settles
  <2>5. CASE j = n + 4
    <3>1. r[j-1] = w3 /\ r[j] = w4
      BY <1>5, <1>7, <1>7a, <2>5
    <3> QED BY <1>1, <1>3, <3>1 DEF Follows, Settles
  <2> QED BY <1>5, <1>7, <1>7a, <2>1, <2>2, <2>3, <2>4, <2>5
<1>11. Body(p, r)
  BY <1>5, <1>8, <1>9, <1>10 DEF Body, Linked
<1> QED BY <1>0b, <1>11 DEF r

LEMMA BlockBody ==
  ASSUME NEW p, NEW id, NEW kind, NEW given, NEW want, NEW needs, NEW owner,
         owner \in {"deployer", "devMultisig"},
         p => id \in Range(Setts) /\ (id \in {"badger", "uniBadgerWbtc"} => want = id),
         SettName(id) \in needs
  PROVE  /\ Body(p, D!NewStrategy(id, kind, given, want, needs, owner) \o D!WireUpSett(id))
         /\ Body(p, D!NewStrategy(id, kind, given, want, needs, owner)
                   \o D!WireUpSettMultisig(id))
<1>1. PICK i : i = Strategy(id, kind, given, want, needs, owner)
  OBVIOUS
<1>2a. Building(p, i) /\ Opens(i)
  BY <1>1, StrategyBuilds
<1>2. i.op = "deployStrategy" /\ i.id = id /\ SettName(id) \in i.needs
  BY <1>1 DEF Strategy
<1>3. PICK s : s = <<i>>
  OBVIOUS
<1>4. Body(p, s) /\ Len(s) = 1 /\ s[1] = i /\ s # <<>>
  BY <1>2a, <1>3, BodyOne
<1>5. Body(p, s \o Wirings(id, "deployer")) /\ Body(p, s \o Wirings(id, "devMultisig"))
  BY <1>2, <1>4, WireAfter
<1>6. D!NewStrategy(id, kind, given, want, needs, owner) = s
  BY <1>1, <1>3 DEF D!NewStrategy, Strategy
<1> QED BY <1>5, <1>6, WireUpIs

(* ... perhaps with its Sett. *)
LEMMA SettBlock ==
  ASSUME NEW p, NEW b, Body(p, b), NEW id, NEW controller, NEW token, NEW kind, NEW given,
         NEW want, NEW needs, NEW owner,
         owner \in {"deployer", "devMultisig"},
         p => id \in Range(Setts) /\ (id \in {"badger", "uniBadgerWbtc"} => want = id)
  PROVE  Body(p, ((b \o D!NewSett(id, controller, token, owner))
                 \o D!NewStrategy(id, kind, given, want, needs, owner)) \o D!WireUpSett(id))
<1>1. PICK i : i = Strategy(id, kind, given, want, needs, owner)
  OBVIOUS
<1>2a. Building(p, i) /\ Opens(i)
  BY <1>1, StrategyBuilds
<1>2. i.op = "deployStrategy" /\ i.id = id
  BY <1>1 DEF Strategy
<1>3. PICK h : h = [op |-> "deploySett", id |-> id, controller |-> controller,
                    token |-> token, owner |-> owner]
  OBVIOUS
<1>4. h.op = "deploySett" /\ h.id = id
  BY <1>3
<1>5. PICK s : s = b \o <<h>>
  OBVIOUS
<1>6. PICK t : t = s \o <<i>>
  OBVIOUS
<1>7. Body(p, s) /\ Body(p, t)
  <2>1. Body(p, <<h>>)
    <3>1. Building(p, h) /\ Opens(h)
      BY <1>3 DEF Building, Planned, Opens, Fine, CreateOps, WireOps
    <3> QED BY <3>1, BodyOne
  <2>2. Body(p, s)
    BY <1>5, <2>1, BodyJoin
  <2>3. Body(p, <<i>>)
    BY <1>2a, BodyOne
  <2> QED BY <1>6, <2>2, <2>3, BodyJoin
<1>8. PICK n \in Nat : Len(t) = n + 2 /\ t[n + 2] = i /\ t[n + 1] = h
  <2>1. PICK S : b \in Seq(S)
    BY DEF Body
  <2>2. PICK T : S \subseteq T /\ h \in T /\ i \in T
    <3>1. S \subseteq S \cup {h, i} /\ h \in S \cup {h, i} /\ i \in S \cup {h, i}
      OBVIOUS
    <3> QED BY <3>1
  <2>3. b \in Seq(T)
    BY <2>1, <2>2, SeqWider
  <2>4. Ends((b \o <<h>>) \o <<i>>, h, i)
    BY <2>2, <2>3, TwoMore
  <2>5. Ends(t, h, i)
    BY <1>5, <1>6, <2>4
  <2> QED BY <2>5 DEF Ends
<1>9. Body(p, t \o Wirings(id, "deployer"))
  <2>0. n + 2 \in Nat /\ (n + 2) - 1 = n + 1 /\ n + 2 > 1
    <3>1. n \in Nat
      BY <1>8
    <3> QED BY <3>1, TwoOn
  <2>1. PICK m \in Nat : m = n + 2 /\ m - 1 = n + 1 /\ m > 1
    BY <2>0
  <2>2. Len(t) = m /\ t[m] = i /\ t[m - 1] = h
    BY <1>8, <2>1
  <2>3. t # <<>>
    BY <2>1, <2>2, NotNone
  <2> QED BY <1>2, <1>4, <1>7, <2>1, <2>2, <2>3, WireAfter
<1>10. /\ D!NewStrategy(id, kind, given, want, needs, owner) = <<i>>
       /\ D!NewSett(id, controller, token, owner) = <<h>>
  BY <1>1, <1>3 DEF D!NewStrategy, Strategy, D!NewSett
<1> QED BY <1>5, <1>6, <1>9, <1>10, WireUpIs

LEMMA StrategyOfBody ==
  ASSUME NEW p, NEW id \in D!Launchable, p => id \in Range(Setts)
  PROVE  Body(p, D!DeployStrategyOf(id))
<1>0. "deployer" \in {"deployer", "devMultisig"}
  OBVIOUS
<1>1. CASE id = "badger"
  <2>1. Body(p, D!DeployStrategyNativeBadger)
    BY <1>0, <1>1, BlockBody DEF D!DeployStrategyNativeBadger, SettName
  <2> QED BY <1>1, <2>1 DEF D!DeployStrategyOf
<1>2. CASE id = "renCrv"
  <2>1. Body(p, D!DeployStrategyNativeRencrv)
    BY <1>0, <1>2, BlockBody DEF D!DeployStrategyNativeRencrv, SettName
  <2> QED BY <1>2, <2>1 DEF D!DeployStrategyOf
<1>3. CASE id = "sbtcCrv"
  <2>1. Body(p, D!DeployStrategyNativeSbtccrv)
    BY <1>0, <1>3, BlockBody DEF D!DeployStrategyNativeSbtccrv, SettName
  <2> QED BY <1>3, <2>1 DEF D!DeployStrategyOf
<1>4. CASE id = "tbtcCrv"
  <2>1. Body(p, D!DeployStrategyNativeTbtccrv)
    BY <1>0, <1>4, BlockBody DEF D!DeployStrategyNativeTbtccrv, SettName
  <2> QED BY <1>4, <2>1 DEF D!DeployStrategyOf
<1>5. CASE id = "uniBadgerWbtc"
  <2>1. Body(p, D!DeployStrategyNativeUniBadgerWbtc)
    BY <1>0, <1>5, BlockBody DEF D!DeployStrategyNativeUniBadgerWbtc, SettName
  <2> QED BY <1>5, <2>1 DEF D!DeployStrategyOf
<1>6. CASE id = "harvest"
  <2>1. Body(p, D!DeployStrategyHarvestRencrv)
    BY <1>0, <1>6, BlockBody DEF D!DeployStrategyHarvestRencrv, SettName
  <2> QED BY <1>6, <2>1 DEF D!DeployStrategyOf
<1> QED
  BY <1>1, <1>2, <1>3, <1>4, <1>5, <1>6 DEF D!Launchable

LEMMA CoreLogicBody ==
  ASSUME NEW p PROVE Body(p, D!DeployCoreLogic) /\ Body(p, D!DeploySettCoreLogic)
<1>1. PICK i : i = [op |-> "know", fresh |-> TRUE,
             names |-> D!Logic({"SmartVesting", "SmartTimelock", "RewardsEscrow", "BadgerGeyser",
                      "BadgerTree", "BadgerHunt", "SimpleTimelock"})]
  OBVIOUS
<1>2. \A n \in i.names : n[1] \in Outside
  BY <1>1 DEF D!Logic, D!Name, Outside
<1>3. i.op = "know"
  BY <1>1
<1>4. Building(p, i) /\ Opens(i)
  BY <1>2, <1>3 DEF Building, Planned, Opens, Fine, CreateOps, WireOps
<1>5. Body(p, <<i>>)
  BY <1>4, BodyOne
<1> QED BY <1>1, <1>5, LogicBody DEF D!DeployCoreLogic, D!DeploySettCoreLogic

LEMMA KnowsBody ==
  ASSUME NEW p
  PROVE
  /\ Body(p, D!ConnectDao) /\ Body(p, D!ConnectMultisig) /\ Body(p, D!ConnectPair)
  /\ \A kind : Body(p, D!DeploySettStrategyLogicFor(kind)) /\ Body(p, D!DeployLogic(kind))
<1>1. \A part \in Outside : D!The(part)[1] \in Outside
  BY DEF D!The
<1>2. Body(p, D!ConnectDao)
  <2>1. \A n \in {D!The("token"), D!The("dao")} : n[1] \in Outside
    BY <1>1 DEF Outside
  <2> QED BY <2>1, KnowBody DEF D!ConnectDao
<1>3. Body(p, D!ConnectMultisig)
  <2>1. \A n \in {D!The("devMultisig")} : n[1] \in Outside
    BY <1>1 DEF Outside
  <2> QED BY <2>1, KnowBody DEF D!ConnectMultisig
<1>4. Body(p, D!ConnectPair)
  <2>1. \A n \in {D!The("pair")} : n[1] \in Outside
    BY <1>1 DEF Outside
  <2> QED BY <2>1, KnowBody DEF D!ConnectPair
<1> QED
  BY <1>2, <1>3, <1>4, LogicBody DEF D!DeploySettStrategyLogicFor, D!DeployLogic

LEMMA ProxiesBody ==
  ASSUME NEW p
  PROVE
  /\ Body(p, D!NewSystem) /\ Body(p, D!DeployRewardsEscrow) /\ Body(p, D!DeployBadgerTree)
  /\ Body(p, D!DeployBadgerHunt) /\ Body(p, D!DeployDaoBadgerTimelock)
  /\ Body(p, D!DeployTeamVesting)
  /\ \A id : Body(p, D!DeployGeyser(id)) /\ (id \in {"native", "harvest"} => Body(p, D!AddController(id)))
  /\ \A id, staking : Body(p, D!DeploySettStakingRewards(id, staking))
<1> DEFINE Owners == {"deployer", "devMultisig", "dao"}
           Kinds == {"escrow", "tree", "hunt", "timelock", "vesting"}
<1>1. ASSUME NEW part \in Kinds \cup {"rewards", "geyser"}, NEW id, NEW needs,
             NEW owner \in Owners, part = "escrow" => owner = "deployer"
      PROVE  Body(p, D!New(D!Name(part, id), needs, owner))
  <2>1. D!Name(part, id)[1] = part
    BY DEF D!Name
  <2>2. part \notin Outside \cup {"sett", "strategy", "controller", "admin"}
    BY DEF Outside
  <2>3. PICK name : name = D!Name(part, id)
    OBVIOUS
  <2>4. Body(p, D!New(name, needs, owner))
    BY <1>1, <2>1, <2>2, <2>3, NewBody
  <2> QED BY <2>3, <2>4
<1>2. Body(p, D!NewSystem)
  <2>1. ASSUME NEW id PROVE Body(p, D!New(D!Name("admin", id), {}, "deployer"))
    <3>1. PICK name : name = D!Name("admin", id)
      OBVIOUS
    <3>2. name[1] = "admin" /\ "admin" \notin Outside \cup {"sett", "strategy", "controller"}
      BY <3>1 DEF D!Name, Outside
    <3>3. Body(p, D!New(name, {}, "deployer"))
      BY <3>2, NewBody
    <3> QED BY <3>1, <3>3
  <2> QED BY <2>1, BodyJoin DEF D!NewSystem
<1>3. /\ Body(p, D!DeployRewardsEscrow) /\ Body(p, D!DeployBadgerTree)
      /\ Body(p, D!DeployBadgerHunt)
  BY <1>1 DEF D!DeployRewardsEscrow, D!DeployBadgerTree, D!DeployBadgerHunt, D!The, D!Name
<1>4. Body(p, D!DeployDaoBadgerTimelock) /\ Body(p, D!DeployTeamVesting)
  BY <1>1 DEF D!DeployDaoBadgerTimelock, D!DeployTeamVesting, D!The, D!Name
<1>5. ASSUME NEW id PROVE Body(p, D!DeployGeyser(id))
  BY <1>1 DEF D!DeployGeyser
<1>6. ASSUME NEW id, NEW staking PROVE Body(p, D!DeploySettStakingRewards(id, staking))
  BY <1>1 DEF D!DeploySettStakingRewards
<1>7. ASSUME NEW id \in {"native", "harvest"} PROVE Body(p, D!AddController(id))
  <2>1. PICK name : name = D!Name("controller", id)
    OBVIOUS
  <2>2. name[1] = "controller" /\ "controller" \notin Outside \cup {"sett", "strategy", "admin", "escrow"}
    BY <2>1 DEF D!Name, Outside
  <2>3. name \in {D!Name("controller", "native"), D!Name("controller", "harvest")}
    BY <2>1
  <2>4. PICK needs : needs = D!Logic({"Controller"}) \cup {D!Admin}
    OBVIOUS
  <2>5. Body(p, D!New(name, needs, "deployer"))
    BY <2>2, <2>3, NewBody
  <2> QED BY <2>1, <2>4, <2>5 DEF D!AddController
<1> QED BY <1>2, <1>3, <1>4, <1>5, <1>6, <1>7

(* What comes before the file is printed *)
Founded ==
  D!NewSystem \o D!ConnectDao \o D!ConnectMultisig \o D!ConnectPair
    \o D!DeployCoreLogic \o D!DeploySettCoreLogic \o D!DeployLogic("StakingRewards")
    \o D!Each(Setts, LAMBDA id : D!DeploySettStrategyLogicFor(D!KindOf(id)))
    \o D!DeployRewardsEscrow \o D!DeployBadgerTree \o D!DeployDaoBadgerTimelock
    \o D!DeployTeamVesting \o D!DeployBadgerHunt
    \o D!AddController("native") \o D!AddController("harvest")
    \o D!Each(Setts, LAMBDA id : D!NewSett(id, D!ControllerOf(id), D!TokenOf(id), "deployer"))
    \o D!DeploySettStakingRewards("badger", D!The("token"))
    \o D!DeploySettStakingRewards("uniBadgerWbtc", D!The("pair"))
    \o D!Each(Setts, D!DeployStrategyOf)
    \o D!Each(Setts, D!DeployGeyser)

LEMMA FoundedBody == ASSUME NEW p PROVE Body(p, Founded)
<1>0. /\ Setts \in Seq(D!Launchable)
      /\ \A k \in DOMAIN Setts : Setts[k] \in D!Launchable /\ Setts[k] \in Range(Setts)
  BY DeploymentAssumption DEF Range
<1>1. Body(p, D!Each(Setts, LAMBDA id : D!DeploySettStrategyLogicFor(D!KindOf(id))))
  <2> DEFINE g == [k \in DOMAIN Setts |-> D!DeploySettStrategyLogicFor(D!KindOf(Setts[k]))]
  <2>1. g = [k \in DOMAIN Setts |-> g[k]] /\ \A k \in DOMAIN Setts : Body(p, g[k])
    BY KnowsBody
  <2> HIDE DEF g
  <2>2. Body(p, D!FlattenSeq(g))
    BY <1>0, <2>1, EachBody
  <2> QED BY <2>2 DEF D!Each, g
<1>2. Body(p, D!Each(Setts, LAMBDA id : D!NewSett(id, D!ControllerOf(id), D!TokenOf(id), "deployer")))
  <2> DEFINE g == [k \in DOMAIN Setts |->
                     D!NewSett(Setts[k], D!ControllerOf(Setts[k]), D!TokenOf(Setts[k]), "deployer")]
  <2>1. g = [k \in DOMAIN Setts |-> g[k]] /\ \A k \in DOMAIN Setts : Body(p, g[k])
    BY <1>0, NewSettBody
  <2> HIDE DEF g
  <2>2. Body(p, D!FlattenSeq(g))
    BY <1>0, <2>1, EachBody
  <2> QED BY <2>2 DEF D!Each, g
<1>3. Body(p, D!Each(Setts, D!DeployStrategyOf))
  <2> DEFINE g == [k \in DOMAIN Setts |-> D!DeployStrategyOf(Setts[k])]
  <2>1. g = [k \in DOMAIN Setts |-> g[k]] /\ \A k \in DOMAIN Setts : Body(p, g[k])
    BY <1>0, StrategyOfBody
  <2> HIDE DEF g
  <2>2. Body(p, D!FlattenSeq(g))
    BY <1>0, <2>1, EachBody
  <2> QED BY <2>2 DEF D!Each, g
<1>4. Body(p, D!Each(Setts, D!DeployGeyser))
  <2> DEFINE g == [k \in DOMAIN Setts |-> D!DeployGeyser(Setts[k])]
  <2>1. g = [k \in DOMAIN Setts |-> g[k]] /\ \A k \in DOMAIN Setts : Body(p, g[k])
    BY ProxiesBody
  <2> HIDE DEF g
  <2>2. Body(p, D!FlattenSeq(g))
    BY <1>0, <2>1, EachBody
  <2> QED BY <2>2 DEF D!Each, g
<1> DEFINE
  e1 == D!Each(Setts, LAMBDA id : D!DeploySettStrategyLogicFor(D!KindOf(id)))
  e2 == D!Each(Setts, LAMBDA id : D!NewSett(id, D!ControllerOf(id), D!TokenOf(id), "deployer"))
  e3 == D!Each(Setts, D!DeployStrategyOf)
  e4 == D!Each(Setts, D!DeployGeyser)
  a == D!NewSystem \o D!ConnectDao \o D!ConnectMultisig \o D!ConnectPair
         \o D!DeployCoreLogic \o D!DeploySettCoreLogic \o D!DeployLogic("StakingRewards")
  b == a \o e1 \o D!DeployRewardsEscrow \o D!DeployBadgerTree \o D!DeployDaoBadgerTimelock
         \o D!DeployTeamVesting \o D!DeployBadgerHunt
  c == b \o D!AddController("native") \o D!AddController("harvest")
         \o e2 \o D!DeploySettStakingRewards("badger", D!The("token"))
         \o D!DeploySettStakingRewards("uniBadgerWbtc", D!The("pair"))
<1>5. Body(p, a)
  BY KnowsBody, ProxiesBody, CoreLogicBody, BodyJoin
<1> HIDE DEF a
<1>6. Body(p, b)
  BY <1>1, <1>5, ProxiesBody, BodyJoin
<1> HIDE DEF b
<1>7. Body(p, c)
  BY <1>2, <1>6, ProxiesBody, BodyJoin
<1> HIDE DEF c
<1>8. Body(p, (c \o e3) \o e4)
  BY <1>3, <1>4, <1>7, BodyJoin
<1> QED BY <1>8, Zenon DEF Founded, a, b, c

-----------------------------------------------------------------------------
(* The programs                                                            *)

IsSeq(t) == \E S : t \in Seq(S)

Associates(a, b, c) == (a \o b) \o c = a \o (b \o c)

LEMMA Reassociate ==
  ASSUME NEW a, IsSeq(a), NEW b, IsSeq(b), NEW c, IsSeq(c)
  PROVE  Associates(a, b, c) /\ IsSeq(a \o b)
<1>1. PICK S, T, U : a \in Seq(S) /\ b \in Seq(T) /\ c \in Seq(U)
  BY DEF IsSeq
<1>2. PICK V : V = (S \cup T) \cup U
  OBVIOUS
<1>3. a \in Seq(V) /\ b \in Seq(V) /\ c \in Seq(V)
  <2>1. S \subseteq V /\ T \subseteq V /\ U \subseteq V
    BY <1>2
  <2> QED BY <1>1, <2>1, SeqWider
<1> HIDE <1>1, <1>2
<1>4. a \o b \in Seq(V)
  BY <1>3
<1>5. (a \o b) \o c = a \o (b \o c)
  BY <1>3
<1> QED BY <1>4, <1>5 DEF IsSeq, Associates

LEMMA FairIsSeq ==
  /\ \A k, t : Fair(k, t) => IsSeq(t)
  /\ \A p, t : Body(p, t) => IsSeq(t)
BY DEF Fair, Body, IsSeq

LEMMA GoIsFair ==
  /\ \A k \in {"mainnet", "bsc", "digg"} : Fair(k, D!Go("connect"))
  /\ \A k \in {"mainnet", "digg"}, op \in {"print", "raise", "sleep", "updateAndPush"} :
       Fair(k, D!Go(op))
<1>1. ASSUME NEW op \in {"connect", "print", "raise", "sleep", "updateAndPush"},
             NEW k \in {"mainnet", "bsc", "digg"}, k = "bsc" => op = "connect"
      PROVE  Fair(k, D!Go(op))
  <2>1. PICK i : i = [op |-> op]
    OBVIOUS
  <2>2. Ok(k, i)
    BY <1>1, <2>1 DEF Ok, Fine, OnMainnet, OnBsc, CreateOps, WireOps
  <2>3. Fair(k, <<i>>)
    BY <2>2, FairOne
  <2> QED BY <2>1, <2>3 DEF D!Go
<1> QED BY <1>1

LEMMA PayFair ==
  ASSUME NEW k \in {"mainnet", "digg"}, NEW to, NEW amount \in Nat
  PROVE  Fair(k, D!Pay(to, amount))
<1>1. PICK i : i = [op |-> "pay", to |-> to, amount |-> amount]
  OBVIOUS
<1>2. Ok(k, i)
  BY <1>1 DEF Ok, Fine, OnMainnet, CreateOps
<1>3. Fair(k, <<i>>)
  BY <1>2, FairOne
<1> QED BY <1>1, <1>3 DEF D!Pay

LEMMA GrantFair == ASSUME NEW k \in {"mainnet", "digg"}, NEW id PROVE Fair(k, D!Grant(id))
<1>1. PICK i : i = [op |-> "grantRole", id |-> id]
  OBVIOUS
<1>2. Ok(k, i)
  BY <1>1 DEF Ok, Fine, OnMainnet, CreateOps
<1>3. Fair(k, <<i>>)
  BY <1>2, FairOne
<1> QED BY <1>1, <1>3 DEF D!Grant

LEMMA CheckFair == ASSUME NEW k, NEW that, NEW id PROVE Fair(k, D!Check(that, id))
<1>1. PICK i : i = [op |-> "check", that |-> that, id |-> id]
  OBVIOUS
<1>2. Ok(k, i)
  BY <1>1 DEF Ok, Fine, OnMainnet, OnBsc, Plain, CreateOps
<1>3. Fair(k, <<i>>)
  BY <1>2, FairOne
<1> QED BY <1>1, <1>3 DEF D!Check

LEMMA UnpauseFair == ASSUME NEW k, NEW id, NEW by PROVE Fair(k, D!Unpause(id, by))
<1>1. PICK i : i = [op |-> "unpause", id |-> id, by |-> by]
  OBVIOUS
<1>2. Ok(k, i)
  BY <1>1 DEF Ok, Fine, OnMainnet, OnBsc, Plain, CreateOps
<1>3. Fair(k, <<i>>)
  BY <1>2, FairOne
<1> QED BY <1>1, <1>3 DEF D!Unpause

LEMMA WireFair ==
  ASSUME NEW k, NEW op \in WireOps, NEW id, NEW by, NEW want
  PROVE  Fair(k, D!Wire(op, id, by, want))
<1>1. PICK i : i = [op |-> op, id |-> id, by |-> by, want |-> want]
  OBVIOUS
<1>2. Ok(k, i)
  BY <1>1 DEF Ok, Fine, OnMainnet, OnBsc, Plain, CreateOps, WireOps
<1>3. Fair(k, <<i>>)
  BY <1>2, FairOne
<1> QED BY <1>1, <1>3 DEF D!Wire

LEMMA InitializeFair ==
  ASSUME NEW on, NEW want
  PROVE  Fair("bsc", D!Initialize(on, want))
<1>1. PICK i : i = [op |-> "initialize", on |-> on, want |-> want]
  OBVIOUS
<1>2. Ok("bsc", i)
  BY <1>1 DEF Ok, Fine, OnBsc, CreateOps
<1>3. Fair("bsc", <<i>>)
  BY <1>2, FairOne
<1> QED BY <1>1, <1>3 DEF D!Initialize

LEMMA GiveFair ==
  /\ \A on : Fair("mainnet", D!GiveTo(on, "deployer", "devMultisig"))
  /\ \A k \in {"digg", "plain"} : \A on : Fair(k, D!GiveTo(on, "deployer", "dao"))
  /\ \A on : Fair("bsc", D!GiveTo(on, "seeder", "opsMultisig"))
  /\ \A on : Fair("bsc", D!GiveIfHeld(on, "seeder", "opsMultisig"))
<1>1. ASSUME NEW k \in {"mainnet", "digg", "bsc", "plain"}, NEW on, NEW by, NEW to, NEW asked \in BOOLEAN,
             k # "bsc" => by = "deployer" /\ ~asked, k = "bsc" => by = "seeder",
             k = "mainnet" => to = "devMultisig", k = "bsc" => to = "opsMultisig",
             k \in {"digg", "plain"} => to = "dao"
      PROVE  Fair(k, <<[op |-> "setOwner", on |-> on, by |-> by, to |-> to, if |-> asked]>>)
  <2>1. PICK i : i = [op |-> "setOwner", on |-> on, by |-> by, to |-> to, if |-> asked]
    OBVIOUS
  <2>2. Ok(k, i)
    BY <1>1, <2>1 DEF Ok, Fine, OnMainnet, OnBsc, Plain, CreateOps
  <2>3. Fair(k, <<i>>)
    BY <2>2, FairOne
  <2> QED BY <2>1, <2>3
<1> QED BY <1>1 DEF D!GiveTo, D!GiveIfHeld

(* What is paid at the launch *)
LEMMA Amounts ==
  /\ D!HuntAmount = 8400 /\ D!SupplyForWeek1Rewards = 1668 /\ D!ToEscrow = 31492
  /\ D!BadgerLockAmount = 29400 /\ D!FounderRewardsAmount = 8400
  /\ D!UnlockSchedules["badger"] = 180 /\ D!UnlockSchedules["uniBadgerWbtc"] = 260
  /\ D!UnlockSchedules.badger = 180 /\ D!UnlockSchedules.uniBadgerWbtc = 260
  /\ D!BadgerTotalSupply = 84000
<1>1. /\ D!UnlockSchedules.badger = 180 /\ D!UnlockSchedules.uniBadgerWbtc = 260
      /\ D!UnlockSchedules.bRenCrv = 307 /\ D!UnlockSchedules.bSbtcCrv = 307
      /\ D!UnlockSchedules.bTbtcCrv = 307 /\ D!UnlockSchedules.bSuperRenCrvHarvest = 307
  BY DEF D!UnlockSchedules
<1>2. D!SupplyForWeek1Rewards = 1668
  BY <1>1 DEF D!SupplyForWeek1Rewards
<1> QED
  BY <1>1, <1>2 DEF D!HuntAmount, D!ToEscrow, D!BadgerLockAmount, D!FounderRewardsAmount,
                    D!BadgerTotalSupply, D!RewardsEscrowBadgerAmount

After == D!PostDeployConfig \o D!StartStakingRewards
Later == D!Go("print") \o After

LEMMA AfterFair ==
  /\ Fair("mainnet", D!PostDeployConfig) /\ Fair("mainnet", D!StartStakingRewards)
  /\ Fair("mainnet", After) /\ Fair("mainnet", Later)
<1> DEFINE k == "mainnet"
<1>0. k \in {"mainnet", "digg"}
  OBVIOUS
<1> HIDE DEF k
<1>1. ASSUME NEW id, NEW amount \in Nat PROVE Fair(k, D!DistributeStakingRewards(id, amount))
  BY <1>0, CheckFair, PayFair, FairJoin DEF D!DistributeStakingRewards
<1>2. /\ Fair(k, D!DistributeStakingRewards("badger", D!UnlockSchedules.badger))
      /\ Fair(k, D!DistributeStakingRewards("uniBadgerWbtc", D!UnlockSchedules.uniBadgerWbtc))
  BY <1>1, Amounts
<1>3. \A id : Fair(k, D!Grant(id))
  BY <1>0, GrantFair
<1>4. /\ Fair(k, D!HuntPayment) /\ Fair(k, D!Pay(D!The("tree"), D!SupplyForWeek1Rewards))
      /\ Fair(k, D!Pay(D!The("escrow"), D!ToEscrow))
      /\ Fair(k, D!Pay(D!The("timelock"), D!BadgerLockAmount))
      /\ Fair(k, D!Pay(D!The("vesting"), D!FounderRewardsAmount))
  BY <1>0, Amounts, PayFair DEF D!HuntPayment
<1>5. Fair(k, D!GiveTo(D!The("escrow"), "deployer", "devMultisig"))
  BY GiveFair DEF k
<1>6. Fair(k, D!PostDeployConfig)
  BY <1>2, <1>3, <1>4, <1>5, CheckFair, FairJoin DEF D!PostDeployConfig
<1>7. Fair(k, D!StartStakingRewards)
  BY CheckFair, GoIsFair, FairJoin DEF D!StartStakingRewards, k
<1>8. Fair(k, After)
  BY <1>6, <1>7, FairJoin DEF After
<1>9. Fair(k, Later)
  BY <1>8, GoIsFair, FairJoin DEF Later, k
<1> QED BY <1>6, <1>7, <1>8, <1>9 DEF k

LEMMA LaunchShape ==
  D!DeployFlow = Founded \o Later /\ D!Launch = D!Go("connect") \o After
<1> DEFINE a == Founded
           b == D!Go("print")
           c == D!PostDeployConfig
           d == D!StartStakingRewards
           e == D!Go("connect")
<1>1. IsSeq(a) /\ IsSeq(b) /\ IsSeq(c) /\ IsSeq(d) /\ IsSeq(e)
  BY FoundedBody, GoIsFair, AfterFair, FairIsSeq
<1>2. D!DeployFlow = ((a \o b) \o c) \o d /\ D!Launch = (e \o c) \o d
  BY Zenon DEF D!DeployFlow, Founded, D!Launch
<1> HIDE DEF a, b, c, d, e
<1>3. Associates(a, b, c) /\ IsSeq(b \o c)
  BY <1>1, Reassociate
<1>4. Associates(a, b \o c, d) /\ Associates(b, c, d) /\ Associates(e, c, d)
  BY <1>1, <1>3, Reassociate
<1>5. /\ ((a \o b) \o c) \o d = a \o (b \o (c \o d))
      /\ (e \o c) \o d = e \o (c \o d)
  BY <1>3, <1>4, Zenon DEF Associates
<1> QED BY <1>2, <1>5, Zenon DEF a, b, c, d, e, Later, After

(* What a script does after it connected *)
Connects(t) == \E b : Body(FALSE, b) /\ t = D!Go("connect") \o b

LEMMA ConnectsMore ==
  ASSUME NEW t, Connects(t), NEW c, Body(FALSE, c)
  PROVE  Connects(t \o c)
<1> DEFINE g == D!Go("connect")
<1>1. PICK b : Body(FALSE, b) /\ t = g \o b
  BY DEF Connects
<1>2. IsSeq(g) /\ IsSeq(b) /\ IsSeq(c)
  BY <1>1, FairIsSeq, GoIsFair
<1> HIDE DEF g
<1>3. Associates(g, b, c)
  BY <1>2, Reassociate
<1>4. t \o c = g \o (b \o c)
  BY <1>1, <1>3, Zenon DEF Associates
<1>5. Body(FALSE, b \o c)
  BY <1>1, BodyJoin
<1> QED BY <1>4, <1>5 DEF Connects, g

LEMMA ConnectsOne == ASSUME NEW b, Body(FALSE, b) PROVE Connects(D!Go("connect") \o b)
BY DEF Connects

LEMMA WiringIsSeq ==
  ASSUME NEW id PROVE IsSeq(D!WireUpSett(id)) /\ IsSeq(D!WireUpSettMultisig(id))
<1>1. ASSUME NEW by PROVE IsSeq(Wirings(id, by))
  <2>1. PICK w1, w2, w3, w4 :
          /\ w1 = SameWant(id) /\ w2 = Wiring("setVault", id, by)
          /\ w3 = Wiring("approveStrategy", id, by) /\ w4 = Wiring("setStrategy", id, by)
    OBVIOUS
  <2>2. <<w1, w2, w3, w4>> \in Seq({w1, w2, w3, w4})
    OBVIOUS
  <2> QED BY <2>1, <2>2 DEF Wirings, IsSeq
<1> QED BY <1>1, WireUpIs

LEMMA AddingConnects ==
  /\ Connects(D!NewStrat("renCrv")) /\ Connects(D!NewStrat("badger"))
  /\ Connects(D!Rewire("renCrv")) /\ Connects(D!ConvexDeploy) /\ Connects(D!DeployIbbtc)
<1> DEFINE g == D!Go("connect")
<1>0. "deployer" \in {"deployer", "devMultisig"} /\ "devMultisig" \in {"deployer", "devMultisig"}
  OBVIOUS
<1>1. ASSUME NEW id
      PROVE  /\ Connects(D!NewStrat(id)) /\ Connects(D!Rewire(id))
  <2> DEFINE n == D!NewStrategy(id, D!KindOf(id), {}, D!Config[id].want, {SettName(id)}, "deployer")
             w == D!WireUpSett(id)
             m == D!WireUpSettMultisig(id)
  <2>1. Body(FALSE, n \o w) /\ Body(FALSE, n \o m) /\ Body(FALSE, n)
    BY <1>0, BlockBody, StrategyBody
  <2>2. Connects(g \o (n \o w)) /\ Connects(g \o (n \o m))
    <3> HIDE DEF n, w, m
    <3> QED BY <2>1, ConnectsOne
  <2>3. IsSeq(g) /\ IsSeq(n) /\ IsSeq(m)
    <3>1. IsSeq(m) /\ IsSeq(g)
      BY WiringIsSeq, GoIsFair, FairIsSeq
    <3> HIDE DEF n, m, g
    <3> QED BY <2>1, <3>1, FairIsSeq
  <2>4. D!NewStrat(id) = g \o (n \o w) /\ D!Rewire(id) = (g \o n) \o m
    BY Zenon DEF D!NewStrat, D!DeployNewStrat, D!Rewire, SettName
  <2> HIDE DEF g, n, w, m
  <2>5. Associates(g, n, m)
    BY <2>3, Reassociate
  <2>6. D!Rewire(id) = g \o (n \o m)
    BY <2>4, <2>5, Zenon DEF Associates
  <2> QED BY <2>2, <2>4, <2>6
<1>2. Connects(D!ConvexDeploy)
  <2> DEFINE id == "convexTriCryptoDos"
             a == D!NewSett(id, D!ControllerOf(id), D!TokenOf(id), "devMultisig")
             b == D!Check("paused", id)
             c == D!DeploySettStrategyLogicFor(D!KindOf(id))
             d == D!NewStrategy(id, D!KindOf(id), {"badgerTree"}, D!TokenOf(id), {D!The("tree")},
                                "devMultisig")
  <2>1. Body(FALSE, a) /\ Body(FALSE, b) /\ Body(FALSE, c) /\ Body(FALSE, d)
    BY <1>0, NewSettBody, CheckBody, KnowsBody, StrategyBody
  <2>2. D!ConvexDeploy = (((g \o a) \o b) \o c) \o d
    BY Zenon DEF D!ConvexDeploy
  <2> HIDE DEF a, b, c, d, id
  <2>3. Connects((((g \o a) \o b) \o c) \o d)
    BY <2>1, ConnectsOne, ConnectsMore
  <2> QED BY <2>2, <2>3, Zenon
<1>3. Connects(D!DeployIbbtc)
  <2> DEFINE id == "sushiWbtcIbBtc"
             a == D!DeploySettStrategyLogicFor(D!KindOf(id))
             b == D!NewSett(id, D!ControllerOf(id), D!TokenOf(id), "devMultisig")
             c == D!NewStrategy(id, D!KindOf(id), {"want", "badgerTree"}, D!TokenOf(id),
                                {D!The("tree")}, "devMultisig")
             d == D!WireUpSett(id)
             e == D!Check("paused", id)
  <2>1. /\ Body(FALSE, a) /\ Body(FALSE, b) /\ Body(FALSE, c) /\ Body(FALSE, e)
        /\ Body(FALSE, ((a \o b) \o c) \o d)
    BY <1>0, NewSettBody, CheckBody, KnowsBody, StrategyBody, SettBlock
  <2>2. D!DeployIbbtc = ((((g \o a) \o b) \o c) \o d) \o e
    BY Zenon DEF D!DeployIbbtc
  <2>3. IsSeq(d)
    BY WiringIsSeq
  <2> HIDE DEF a, b, c, d, e, id
  <2>4. IsSeq(g) /\ IsSeq(a) /\ IsSeq(b) /\ IsSeq(c) /\ Body(FALSE, a \o b) /\ Body(FALSE, (a \o b) \o c)
    BY <2>1, FairIsSeq, GoIsFair, BodyJoin
  <2>5. IsSeq(a \o b) /\ IsSeq((a \o b) \o c)
    BY <2>4, FairIsSeq
  <2> HIDE DEF g
  <2>6. Associates(g, a, b) /\ Associates(g, a \o b, c) /\ Associates(g, (a \o b) \o c, d)
    BY <2>3, <2>4, <2>5, Reassociate
  <2>7. (((g \o a) \o b) \o c) \o d = g \o (((a \o b) \o c) \o d)
    BY <2>6, Zenon DEF Associates
  <2>8. Connects(g \o (((a \o b) \o c) \o d))
    BY <2>1, ConnectsOne DEF g
  <2>9. Connects((g \o (((a \o b) \o c) \o d)) \o e)
    BY <2>1, <2>8, ConnectsMore
  <2> QED BY <2>2, <2>7, <2>9, Zenon
<1> QED BY <1>1, <1>2, <1>3

LEMMA MiniBody == ASSUME NEW id PROVE Body(FALSE, D!MiniDeploy(id))
<1>0. "deployer" \in {"deployer", "devMultisig"}
  OBVIOUS
<1> DEFINE
  m == D!DeployBadgerMinimal
  b == m \o D!ConnectDao \o D!ConnectMultisig \o D!AddController("native")
         \o D!DeployCoreLogic \o D!DeploySettCoreLogic
         \o D!DeploySettStrategyLogicFor(D!KindOf(id)) \o D!AddController("native")
  c == (b \o D!NewSett(id, D!Name("controller", "native"), D!TokenOf(id), "deployer"))
         \o D!NewStrategy(id, D!KindOf(id), D!Fetched, D!TokenOf(id), {}, "deployer")
         \o D!WireUpSett(id)
  d == (c \o D!Check("paused", id)) \o D!Unpause(id, "deployer")
<1>1. Body(FALSE, m)
  BY KnowsBody, CoreLogicBody, ProxiesBody, BodyJoin DEF D!DeployBadgerMinimal
<1>2. D!MiniDeploy(id) = d
  BY Zenon DEF D!MiniDeploy
<1> HIDE DEF m
<1>3. Body(FALSE, b)
  BY <1>1, KnowsBody, CoreLogicBody, ProxiesBody, BodyJoin
<1> HIDE DEF b
<1>4. Body(FALSE, c)
  BY <1>0, <1>3, SettBlock
<1> HIDE DEF c
<1>5. Body(FALSE, D!Check("paused", id)) /\ Body(FALSE, D!Unpause(id, "deployer"))
  BY CheckBody, UnpauseBody
<1>6. Body(FALSE, d)
  BY <1>4, <1>5, BodyJoin
<1> QED BY <1>2, <1>6

(* What is handed over *)
Handing ==
  D!Each(Setts, LAMBDA id : D!GiveTo(SettName(id), "deployer", "devMultisig"))
    \o D!Each(Setts, LAMBDA id : D!GiveTo(StrategyName(id), "deployer", "devMultisig"))
    \o D!Each(<<"native", "harvest">>,
              LAMBDA id : D!GiveTo(D!Name("controller", id), "deployer", "devMultisig"))
    \o D!GiveTo(D!Admin, "deployer", "devMultisig")

LEMMA GivesFair ==
  ASSUME NEW T, NEW ids \in Seq(T), NEW part
  PROVE  Fair("mainnet", D!Each(ids, LAMBDA id : D!GiveTo(D!Name(part, id), "deployer", "devMultisig")))
<1> DEFINE k == "mainnet"
           g == [j \in DOMAIN ids |-> D!GiveTo(D!Name(part, ids[j]), "deployer", "devMultisig")]
<1>1. g = [j \in DOMAIN ids |-> g[j]] /\ \A j \in DOMAIN ids : Fair(k, g[j])
  BY GiveFair
<1> HIDE DEF g, k
<1>2. Fair(k, D!FlattenSeq(g))
  BY <1>1, EachFair
<1> QED BY <1>2 DEF D!Each, g, k

LEMMA TransferShape ==
  Fair("mainnet", Handing) /\ D!TransferRights = D!Go("connect") \o Handing
<1> DEFINE
  g == D!Go("connect")
  a == D!Each(Setts, LAMBDA id : D!GiveTo(SettName(id), "deployer", "devMultisig"))
  b == D!Each(Setts, LAMBDA id : D!GiveTo(StrategyName(id), "deployer", "devMultisig"))
  c == D!Each(<<"native", "harvest">>,
              LAMBDA id : D!GiveTo(D!Name("controller", id), "deployer", "devMultisig"))
  d == D!GiveTo(D!Admin, "deployer", "devMultisig")
  k == "mainnet"
<1>1. Fair(k, a) /\ Fair(k, b) /\ Fair(k, c) /\ Fair(k, d)
  <2>1. Setts \in Seq(D!Launchable) /\ <<"native", "harvest">> \in Seq({"native", "harvest"})
    BY DeploymentAssumption
  <2>2. Fair(k, d)
    BY GiveFair
  <2>3. Fair(k, a)
    BY <2>1, GivesFair DEF SettName, D!Each
  <2>4. Fair(k, b)
    BY <2>1, GivesFair DEF StrategyName, D!Each
  <2>5. Fair(k, c)
    BY <2>1, GivesFair DEF D!Each
  <2> HIDE DEF a, b, c, d
  <2> QED BY <2>2, <2>3, <2>4, <2>5
<1>2. /\ D!TransferRights = (((g \o a) \o b) \o c) \o d
      /\ Handing = ((a \o b) \o c) \o d
  BY Zenon DEF D!TransferRights, Handing, SettName, StrategyName
<1>0. IsSeq(g)
  <2>1. "mainnet" \in {"mainnet", "bsc", "digg"}
    OBVIOUS
  <2>2. Fair("mainnet", D!Go("connect"))
    BY <2>1, GoIsFair
  <2> QED BY <2>2, FairIsSeq
<1> HIDE DEF g, a, b, c, d
<1>3. IsSeq(g) /\ Fair(k, Handing)
  BY <1>0, <1>1, <1>2, FairJoin
<1>4. /\ IsSeq(a) /\ IsSeq(b) /\ IsSeq(c) /\ IsSeq(d) /\ IsSeq(a \o b) /\ IsSeq((a \o b) \o c)
  BY <1>1, FairIsSeq, FairJoin
<1>5. Associates(g, a, b) /\ Associates(g, a \o b, c) /\ Associates(g, (a \o b) \o c, d)
  BY <1>3, <1>4, Reassociate
<1>6. (((g \o a) \o b) \o c) \o d = g \o (((a \o b) \o c) \o d)
  BY <1>5, Zenon DEF Associates
<1> QED BY <1>2, <1>3, <1>6, Zenon DEF g

(* The other chain *)
LEMMA BscIds == BscSetts \in Seq(STRING \ {"pickle", "harvest"})
BY DeploymentAssumption

LEMMA BscParts ==
  /\ \A id : Fair("bsc", D!InitializeSett(id)) /\ Fair("bsc", D!InitializeStrategy(id))
  /\ \A on, want : Fair("bsc", D!Initialize(on, want))
<1>1. /\ "setVault" \in WireOps /\ "approveStrategy" \in WireOps /\ "setStrategy" \in WireOps
  BY DEF WireOps
<1>2. ASSUME NEW id PROVE Fair("bsc", D!InitializeSett(id))
  BY <1>1, InitializeFair, WireFair, FairJoin DEF D!InitializeSett
<1>3. ASSUME NEW id PROVE Fair("bsc", D!InitializeStrategy(id))
  BY <1>1, InitializeFair, WireFair, CheckFair, FairJoin DEF D!InitializeStrategy
<1> QED BY <1>2, <1>3, InitializeFair

LEMMA BscEach ==
  ASSUME NEW g, g = [j \in DOMAIN BscSetts |-> g[j]],
         \A j \in DOMAIN BscSetts : Fair("bsc", g[j])
  PROVE  Fair("bsc", D!FlattenSeq(g))
BY BscIds, EachFair

LEMMA BscFair ==
  /\ Fair("bsc", D!SetupBadger) /\ Fair("bsc", D!OpenVaults)
  /\ Fair("bsc", D!TestUpgrades) /\ Fair("bsc", D!SetGovernance)
<1> DEFINE k == "bsc"
<1>0. Fair(k, D!Go("connect"))
  BY GoIsFair
<1>1. Fair(k, D!Each(BscSetts, D!InitializeSett))
  <2> DEFINE g == [j \in DOMAIN BscSetts |-> D!InitializeSett(BscSetts[j])]
  <2>1. g = [j \in DOMAIN BscSetts |-> g[j]] /\ \A j \in DOMAIN BscSetts : Fair("bsc", g[j])
    BY BscParts
  <2> HIDE DEF g
  <2>2. Fair("bsc", D!FlattenSeq(g))
    BY <2>1, BscEach
  <2> QED BY <2>2 DEF D!Each, g
<1>2. Fair(k, D!Each(BscSetts, D!InitializeStrategy))
  <2> DEFINE g == [j \in DOMAIN BscSetts |-> D!InitializeStrategy(BscSetts[j])]
  <2>1. g = [j \in DOMAIN BscSetts |-> g[j]] /\ \A j \in DOMAIN BscSetts : Fair("bsc", g[j])
    BY BscParts
  <2> HIDE DEF g
  <2>2. Fair("bsc", D!FlattenSeq(g))
    BY <2>1, BscEach
  <2> QED BY <2>2 DEF D!Each, g
<1>3. Fair(k, D!Each(BscSetts, LAMBDA id : D!Unpause(id, "seeder")))
  <2> DEFINE g == [j \in DOMAIN BscSetts |-> D!Unpause(BscSetts[j], "seeder")]
  <2>1. g = [j \in DOMAIN BscSetts |-> g[j]] /\ \A j \in DOMAIN BscSetts : Fair("bsc", g[j])
    BY UnpauseFair
  <2> HIDE DEF g
  <2>2. Fair("bsc", D!FlattenSeq(g))
    BY <2>1, BscEach
  <2> QED BY <2>2 DEF D!Each, g
<1>4. Fair(k, D!Each(BscSetts, LAMBDA id : D!Check("open", id)))
  <2> DEFINE g == [j \in DOMAIN BscSetts |-> D!Check("open", BscSetts[j])]
  <2>1. g = [j \in DOMAIN BscSetts |-> g[j]] /\ \A j \in DOMAIN BscSetts : Fair("bsc", g[j])
    BY CheckFair
  <2> HIDE DEF g
  <2>2. Fair("bsc", D!FlattenSeq(g))
    BY <2>1, BscEach
  <2> QED BY <2>2 DEF D!Each, g
<1>5. Fair(k, D!Each(BscSetts, LAMBDA id : D!GiveTo(D!Name("strategy", id), "seeder", "opsMultisig")))
  <2> DEFINE g == [j \in DOMAIN BscSetts |->
                     D!GiveTo(D!Name("strategy", BscSetts[j]), "seeder", "opsMultisig")]
  <2>1. g = [j \in DOMAIN BscSetts |-> g[j]] /\ \A j \in DOMAIN BscSetts : Fair("bsc", g[j])
    BY GiveFair
  <2> HIDE DEF g
  <2>2. Fair("bsc", D!FlattenSeq(g))
    BY <2>1, BscEach
  <2> QED BY <2>2 DEF D!Each, g
<1>6. ASSUME NEW part
      PROVE  Fair(k, D!Each(BscSetts, LAMBDA id : D!GiveIfHeld(D!Name(part, id), "seeder", "opsMultisig")))
  <2> DEFINE g == [j \in DOMAIN BscSetts |->
                     D!GiveIfHeld(D!Name(part, BscSetts[j]), "seeder", "opsMultisig")]
  <2>1. g = [j \in DOMAIN BscSetts |-> g[j]] /\ \A j \in DOMAIN BscSetts : Fair("bsc", g[j])
    BY GiveFair
  <2> HIDE DEF g
  <2>2. Fair("bsc", D!FlattenSeq(g))
    BY <2>1, BscEach
  <2> QED BY <2>2 DEF D!Each, g
<1>7. Fair(k, D!SetupBadger)
  BY <1>0, <1>1, <1>2, BscParts, FairJoin DEF D!SetupBadger
<1>8. Fair(k, D!OpenVaults)
  <2> DEFINE e == D!Each(BscSetts, LAMBDA id : D!Unpause(id, "seeder"))
  <2>1. Fair(k, e)
    BY <1>3
  <2> HIDE DEF e
  <2>2. Fair(k, D!Go("connect") \o e)
    BY <1>0, <2>1, FairJoin
  <2> QED BY <2>2, Zenon DEF D!OpenVaults, e
<1>9. Fair(k, D!TestUpgrades)
  <2> DEFINE e == D!Each(BscSetts, LAMBDA id : D!Check("open", id))
             f == D!Each(BscSetts, LAMBDA id : D!GiveTo(D!Name("strategy", id), "seeder", "opsMultisig"))
  <2>1. Fair(k, e) /\ Fair(k, f)
    BY <1>4, <1>5
  <2> HIDE DEF e, f
  <2>2. Fair(k, (D!Go("connect") \o e) \o f)
    BY <1>0, <2>1, FairJoin
  <2> QED BY <2>2, Zenon DEF D!TestUpgrades, e, f
<1>10. Fair(k, D!SetGovernance)
  <2> DEFINE e == D!Each(BscSetts, LAMBDA id : D!GiveIfHeld(D!Name("sett", id), "seeder", "opsMultisig"))
             f == D!Each(BscSetts, LAMBDA id : D!GiveIfHeld(D!Name("strategy", id), "seeder", "opsMultisig"))
             c == D!GiveIfHeld(D!Name("controller", "native"), "seeder", "opsMultisig")
  <2>1. Fair(k, e) /\ Fair(k, f) /\ Fair(k, c)
    <3>1. Fair(k, e)
      BY <1>6 DEF D!Each
    <3>2. Fair(k, f)
      BY <1>6 DEF D!Each
    <3>3. Fair(k, c)
      BY GiveFair
    <3> HIDE DEF c, e, f
    <3> QED BY <3>1, <3>2, <3>3
  <2> HIDE DEF c, e, f
  <2>2. Fair(k, ((D!Go("connect") \o e) \o f) \o c)
    BY <1>0, <2>1, FairJoin
  <2> QED BY <2>2, Zenon DEF D!SetGovernance, c, e, f
<1> QED BY <1>7, <1>8, <1>9, <1>10

(* DiggSystem *)
LEMMA LinkFair == ASSUME NEW on, NEW field, NEW to PROVE Fair("digg", D!Link(on, field, to))
<1>1. PICK i : i = [op |-> "link", on |-> on, field |-> field, to |-> to]
  OBVIOUS
<1>2. Ok("digg", i)
  BY <1>1 DEF Ok, Fine, CreateOps
<1>3. Fair("digg", <<i>>)
  BY <1>2, FairOne
<1> QED BY <1>1, <1>3 DEF D!Link

LEMMA DiggNewFair ==
  ASSUME NEW name, NEW needs, NEW owner \in {"deployer", "dao"}, NEW links,
         NEW k \in {"digg", "plain"}, k = "plain" => links = <<>>
  PROVE  Fair(k, <<[op |-> "deploy", name |-> D!Digg(name), needs |-> needs,
                         owner |-> owner, links |-> links]>>)
<1>1. PICK i : i = [op |-> "deploy", name |-> D!Digg(name), needs |-> needs,
                    owner |-> owner, links |-> links]
  OBVIOUS
<1>2. i.op = "deploy" /\ i.name[1] = "digg" /\ i.owner = owner
  BY <1>1 DEF D!Digg, D!Name
<1>3. "digg" \notin Outside \cup {"sett", "strategy", "admin", "escrow"}
  BY DEF Outside
<1>4. Ok(k, i)
  BY <1>1, <1>2, <1>3 DEF Ok, Fine, Plain, CreateOps
<1>5. Fair(k, <<i>>)
  BY <1>4, FairOne
<1> QED BY <1>1, <1>5

LEMMA DiggFair == Fair("digg", D!DeployDigg)
<1>1. /\ Fair("digg", D!NewSystem) /\ Fair("digg", D!DeployLogic("RewardsEscrow"))
      /\ Fair("digg", D!DeployRewardsEscrow)
  BY KnowsBody, ProxiesBody, BodyIsFair
<1> DEFINE
  minimal == D!DeployDiggToken \o D!DeployDiggPolicy \o D!DeployOrchestrator
    \o D!DeployMarketMedianOracle \o D!DeployCpiMedianOracle \o D!DeployConstantOracle
    \o D!DeployDaoDiggTimelock \o D!DeployDiggTeamVesting
<1>2. /\ Fair("digg", D!DeployDiggToken) /\ Fair("digg", D!DeployDiggPolicy)
      /\ Fair("digg", D!DeployOrchestrator) /\ Fair("digg", D!DeployMarketMedianOracle)
      /\ Fair("digg", D!DeployCpiMedianOracle) /\ Fair("digg", D!DeployConstantOracle)
  BY DiggNewFair
     DEF D!DeployDiggToken, D!DeployDiggPolicy, D!DeployOrchestrator,
         D!DeployMarketMedianOracle, D!DeployCpiMedianOracle, D!DeployConstantOracle,
         D!New, D!NewLinked
<1>3. /\ Fair("digg", D!DeployDaoDiggTimelock) /\ Fair("digg", D!DeployDiggTeamVesting)
      /\ Fair("digg", D!DeployAirdropDistributor)
  BY DiggNewFair
     DEF D!DeployDaoDiggTimelock, D!DeployDiggTeamVesting, D!DeployAirdropDistributor, D!New
<1>4. Fair("digg", minimal)
  BY <1>2, <1>3, FairJoin
<1> HIDE DEF minimal
<1>5. /\ Fair("digg", D!Go("updateAndPush")) /\ Fair("digg", D!SleepReportDelay)
  BY GoIsFair DEF D!SleepReportDelay
<1>6. Fair("digg", D!DeployDiggMinimal)
  BY <1>4, <1>5, LinkFair, FairJoin DEF D!DeployDiggMinimal, minimal
<1>7. Fair("digg", D!TransferOwnership)
  <2> DEFINE ids == <<"uFragments", "uFragmentsPolicy", "orchestrator", "marketMedianOracle",
                      "cpiMedianOracle">>
             g == [j \in DOMAIN ids |-> D!GiveTo(D!Digg(ids[j]), "deployer", "dao")]
  <2>1. ids \in Seq({"uFragments", "uFragmentsPolicy", "orchestrator", "marketMedianOracle",
                     "cpiMedianOracle"})
    OBVIOUS
  <2>2. g = [j \in DOMAIN ids |-> g[j]] /\ \A j \in DOMAIN ids : Fair("digg", g[j])
    BY GiveFair
  <2> HIDE DEF g, ids
  <2>3. Fair("digg", D!FlattenSeq(g))
    BY <2>1, <2>2, EachFair
  <2> QED BY <2>3 DEF D!TransferOwnership, D!Each, g, ids
<1> QED BY <1>1, <1>3, <1>6, <1>7, FairJoin DEF D!DeployDigg

Sort(s) == IF s = "digg" THEN "digg" ELSE IF s \in D!Bsc THEN "bsc" ELSE "mainnet"

LEMMA ProgramsAre ==
  /\ D!Programs["deploy"] = D!DeployFlow /\ D!Programs["launch"] = D!Launch
  /\ D!Programs["newRenCrv"] = D!NewStrat("renCrv")
  /\ D!Programs["newBadger"] = D!NewStrat("badger")
  /\ D!Programs["rewireRenCrv"] = D!Rewire("renCrv")
  /\ D!Programs["convex"] = D!ConvexDeploy /\ D!Programs["ibbtc"] = D!DeployIbbtc
  /\ D!Programs["transferRights"] = D!TransferRights
  /\ D!Programs["setup"] = D!SetupBadger /\ D!Programs["open"] = D!OpenVaults
  /\ D!Programs["upgrade"] = D!TestUpgrades /\ D!Programs["handover"] = D!SetGovernance
  /\ D!Programs["digg"] = D!DeployDigg
  /\ \A s \in MiniSetts \ (D!Mainnet \cup D!Bsc \cup {"digg"}) :
       D!Programs[s] = D!MiniDeploy(s)
BY DEF D!Programs, D!Over, D!Mainnet, D!Bsc

LEMMA ProgramsFair ==
  ASSUME NEW s \in D!Mainnet \cup D!Bsc \cup MiniSetts \cup {"digg"}
  PROVE  Fair(Sort(s), D!Programs[s])
<1>0. "mainnet" \in {"mainnet", "digg"}
  OBVIOUS
<1>1. ASSUME NEW b, Connects(b) PROVE Fair("mainnet", b)
  BY <1>1, <1>0, BodyIsFair, GoIsFair, FairJoin DEF Connects
<1>2. CASE s \in D!Mainnet
  <2>1. Sort(s) = "mainnet"
    BY <1>2 DEF Sort, D!Mainnet, D!Bsc
  <2>2. /\ Fair("mainnet", D!DeployFlow) /\ Fair("mainnet", D!Launch)
    BY <1>0, LaunchShape, FoundedBody, BodyIsFair, AfterFair, GoIsFair, FairJoin
  <2>3. Fair("mainnet", D!TransferRights)
    BY TransferShape, GoIsFair, FairJoin
  <2> QED
    BY <1>1, <1>2, <2>1, <2>2, <2>3, AddingConnects, ProgramsAre DEF D!Mainnet
<1>3. CASE s \in D!Bsc
  BY <1>3, BscFair, ProgramsAre DEF Sort, D!Bsc
<1>4. CASE s = "digg"
  BY <1>4, DiggFair, ProgramsAre DEF Sort
<1>5. CASE s \in MiniSetts \ (D!Mainnet \cup D!Bsc \cup {"digg"})
  BY <1>0, <1>5, MiniBody, BodyIsFair, ProgramsAre DEF Sort
<1> QED BY <1>2, <1>3, <1>4, <1>5

-----------------------------------------------------------------------------
(* What every script keeps: a name of the memory or of the file is that of *)
(* one contract, and no two names are of the same                          *)

Addresses(M, C) ==
  \A n \in DOMAIN M : M[n] \in 0..Len(C) /\ (M[n] = 0 <=> n[1] \in Outside)
Apart(M, N) == \A n \in DOMAIN M, m \in DOMAIN N : M[n] = N[m] /\ M[n] # 0 => n = m

DeskInv ==
  /\ Ledger(chain)
  /\ Addresses(memory, chain.contracts) /\ Addresses(file, chain.contracts)
  /\ Apart(memory, memory) /\ Apart(file, file) /\ Apart(memory, file)
  /\ Fair(Sort(script), todo)

(* Heads and tails *)
LEMMA FairHead ==
  ASSUME NEW k, NEW t, Fair(k, t), t # <<>>
  PROVE  Ok(k, Head(t)) /\ Fair(k, Tail(t))
<1>1. PICK S : t \in Seq(S)
  BY DEF Fair
<1>2. \A j \in 1..Len(t) : Ok(k, t[j])
  BY DEF Fair
<1>3. /\ Head(t) = t[1] /\ 1 \in 1..Len(t) /\ Tail(t) \in Seq(S)
      /\ Len(Tail(t)) = Len(t) - 1
      /\ \A j \in 1..Len(Tail(t)) : Tail(t)[j] = t[j + 1]
  BY <1>1
<1>4. ASSUME NEW j \in 1..Len(Tail(t)) PROVE Ok(k, Tail(t)[j])
  <2>1. j + 1 \in 1..Len(t)
    BY <1>1, <1>3
  <2> QED BY <1>2, <1>3, <2>1
<1> QED BY <1>2, <1>3, <1>4 DEF Fair

LEMMA AddsFacts ==
  ASSUME NEW C, Shaped(C), NEW E, NEW i, Adds(C, E, i)
  PROVE  /\ Shaped(E) /\ Len(E) = Len(C) + 1 /\ \A j \in DOMAIN C : E[j] = C[j]
         /\ DOMAIN E = DOMAIN C \cup {Len(C) + 1}
         /\ E[Len(C) + 1].owner = i.owner /\ E[Len(C) + 1].vaults = <<>>
         /\ E[Len(C) + 1].strategies = <<>> /\ E[Len(C) + 1].holds = 0
         /\ E[Len(C) + 1].approved = {} /\ E[Len(C) + 1].pushed = 0
         /\ (i.op = "deploy" /\ i.links # <<>>) \/ DOMAIN E[Len(C) + 1].links = {}
<1>1. PICK r : /\ E = Append(C, r) /\ DOMAIN r = Fields
               /\ r.owner = i.owner /\ r.vaults = <<>> /\ r.strategies = <<>> /\ r.holds = 0
               /\ r.approved = {} /\ r.pushed = 0
               /\ (i.op = "deploy" /\ i.links # <<>>) \/ DOMAIN r.links = {}
  BY DEF Adds
<1>2. /\ Shaped(E) /\ Len(E) = Len(C) + 1 /\ \A k \in DOMAIN C : E[k] = C[k]
      /\ E[Len(C) + 1] = r /\ DOMAIN E = DOMAIN C \cup {Len(C) + 1}
  BY <1>1, AppendShaped
<1> QED BY <1>1, <1>2

LEMMA WritesFacts ==
  ASSUME NEW C, Shaped(C), NEW E, Shaped(E), NEW a, NEW F, Writes(C, E, a, F)
  PROVE  Len(E) = Len(C)
<1>1. DOMAIN E = DOMAIN C
  BY DEF Writes
<1>2. Len(C) \in Nat /\ DOMAIN C = 1..Len(C) /\ Len(E) \in Nat /\ DOMAIN E = 1..Len(E)
  BY ShapedFacts
<1> QED BY <1>1, <1>2

LEMMA LedgerStays ==
  ASSUME NEW i, Fine(i), Ledger(chain), Effects(i)
  PROVE  /\ Ledger(chain') /\ Len(chain'.contracts) \in {Len(chain.contracts), Len(chain.contracts) + 1}
         /\ Len(chain.contracts) \in Nat /\ chain'.time >= chain.time
<1> DEFINE C == chain.contracts
           E == chain'.contracts
<1>0. Shaped(C) /\ chain.purse \in Nat /\ chain.time \in Nat /\ Len(C) \in Nat
  BY ShapedFacts DEF Ledger
<1>1. CASE chain' = chain
  BY <1>0, <1>1
<1>1a. Adds(C, E, i) => Shaped(E) /\ Len(E) = Len(C) + 1
  <2> HIDE DEF C, E
  <2> QED BY <1>0, AddsFacts
<1>2. CASE i.op \in CreateOps /\ Adds(C, E, i) /\ chain' = [chain EXCEPT !.contracts = E]
  <2>1. Shaped(E) /\ Len(E) = Len(C) + 1
    BY <1>1a, <1>2
  <2>3. PICK e : e = E
    OBVIOUS
  <2>4. chain' = [chain EXCEPT !.contracts = e]
    BY <1>2, <2>3
  <2>2. DOMAIN chain' = DOMAIN chain /\ chain'.purse = chain.purse /\ chain'.time = chain.time
    BY <2>4 DEF Ledger
  <2> QED BY <1>0, <2>1, <2>2 DEF Ledger
<1>3. CASE /\ i.op \in WriteOps /\ Shaped(E) /\ Writes(C, E, memory[Target(i)], Written(i.op))
           /\ IF i.op = "pay"
              THEN chain.purse >= i.amount /\ chain'.purse = chain.purse - i.amount
              ELSE chain'.purse = chain.purse
           /\ chain'.time = chain.time /\ DOMAIN chain' = DOMAIN chain
  <2>1. Len(E) = Len(C)
    BY <1>0, <1>3, WritesFacts
  <2>2. chain'.purse \in Nat
    <3>1. CASE i.op = "pay"
      <4>1. PICK a \in Nat : a = i.amount
        BY <3>1 DEF Fine
      <4>2. chain.purse >= a /\ chain'.purse = chain.purse - a
        BY <1>3, <3>1, <4>1
      <4> QED BY <1>0, <4>2
    <3> QED BY <1>0, <1>3, <3>1
  <2> QED BY <1>0, <1>3, <2>1, <2>2 DEF Ledger
<1>4. CASE /\ i.op = "sleep" /\ E = C /\ chain'.purse = chain.purse
           /\ chain'.time = chain.time + ReportDelay /\ DOMAIN chain' = DOMAIN chain
  <2>1. ReportDelay \in Nat
    BY DeploymentAssumption
  <2> QED BY <1>0, <1>4, <2>1 DEF Ledger
<1> QED BY <1>1, <1>2, <1>3, <1>4 DEF Effects

LEMMA OverFacts ==
  ASSUME NEW f, NEW g
  PROVE  /\ DOMAIN D!Over(f, g) = DOMAIN f \cup DOMAIN g
         /\ \A x \in DOMAIN f : D!Over(f, g)[x] = f[x]
         /\ \A x \in DOMAIN g \ DOMAIN f : D!Over(f, g)[x] = g[x]
BY DEF D!Over

(* A name that is added is of the contract that was just created. *)
LEMMA CreatedApart ==
  ASSUME NEW M, NEW C, NEW n, Len(C) \in Nat, Addresses(M, C), n[1] \notin Outside,
         NEW M2, M2 = D!Over([m \in {n} |-> Len(C) + 1], M),
         NEW E, Len(E) = Len(C) + 1,
         NEW F, Addresses(F, C), Apart(M, M), Apart(M, F)
  PROVE  Addresses(M2, E) /\ Apart(M2, M2) /\ Apart(M2, F)
<1>1. /\ DOMAIN M2 = {n} \cup DOMAIN M /\ M2[n] = Len(C) + 1
      /\ \A m \in DOMAIN M \ {n} : M2[m] = M[m]
  <2>1. PICK f : f = [m \in {n} |-> Len(C) + 1]
    OBVIOUS
  <2>2. M2 = D!Over(f, M) /\ DOMAIN f = {n} /\ f[n] = Len(C) + 1
    BY <2>1
  <2>3. /\ DOMAIN D!Over(f, M) = DOMAIN f \cup DOMAIN M
        /\ \A x \in DOMAIN f : D!Over(f, M)[x] = f[x]
        /\ \A x \in DOMAIN M \ DOMAIN f : D!Over(f, M)[x] = M[x]
    BY OverFacts
  <2> QED BY <2>2, <2>3
<1>2. ASSUME NEW m \in DOMAIN M PROVE M[m] \in 0..Len(C)
  BY DEF Addresses
<1>3. ASSUME NEW m \in DOMAIN F PROVE F[m] \in 0..Len(C)
  BY DEF Addresses
<1>4. \A x \in 0..Len(C) : x # Len(C) + 1 /\ x \in 0..Len(E)
  OBVIOUS
<1>5. Len(C) + 1 \in 0..Len(E) /\ Len(C) + 1 # 0
  OBVIOUS
<1>6. Addresses(M2, E)
  BY <1>1, <1>2, <1>4, <1>5 DEF Addresses
<1>7. Apart(M2, M2)
  BY <1>1, <1>2, <1>4 DEF Apart
<1>8. Apart(M2, F)
  BY <1>1, <1>2, <1>3, <1>4 DEF Apart
<1> QED BY <1>6, <1>7, <1>8

LEMMA KnownApart ==
  ASSUME NEW M, NEW C, NEW names, \A n \in names : n[1] \in Outside, Addresses(M, C),
         NEW M2, M2 = D!Over([n \in names |-> 0], M),
         NEW F, Apart(M, M), Apart(M, F), Len(C) \in Nat
  PROVE  Addresses(M2, C) /\ Apart(M2, M2) /\ Apart(M2, F)
<1>1. /\ DOMAIN M2 = names \cup DOMAIN M /\ \A n \in names : M2[n] = 0
      /\ \A m \in DOMAIN M \ names : M2[m] = M[m]
  <2>1. PICK f : f = [n \in names |-> 0]
    OBVIOUS
  <2>2. M2 = D!Over(f, M) /\ DOMAIN f = names /\ \A n \in names : f[n] = 0
    BY <2>1
  <2>3. /\ DOMAIN D!Over(f, M) = DOMAIN f \cup DOMAIN M
        /\ \A x \in DOMAIN f : D!Over(f, M)[x] = f[x]
        /\ \A x \in DOMAIN M \ DOMAIN f : D!Over(f, M)[x] = M[x]
    BY OverFacts
  <2> QED BY <2>2, <2>3
<1>2. Addresses(M2, C)
  BY <1>1 DEF Addresses
<1>3. Apart(M2, M2) /\ Apart(M2, F)
  BY <1>1 DEF Apart
<1> QED BY <1>2, <1>3

LEMMA PartApart ==
  ASSUME NEW M, NEW C, NEW F, Addresses(M, C), Apart(M, M), Apart(M, F), NEW names,
         names \subseteq DOMAIN M, NEW M2, M2 = [n \in names |-> M[n]]
  PROVE  Addresses(M2, C) /\ Apart(M2, M2) /\ Apart(M2, F)
BY DEF Addresses, Apart

LEMMA Widened ==
  ASSUME NEW M, NEW C, NEW E, Len(C) \in Nat, Len(E) \in {Len(C), Len(C) + 1}, Addresses(M, C)
  PROVE  Addresses(M, E)
BY DEF Addresses

LEMMA RecalledApart ==
  ASSUME DeskInv, NEW i, i = Head(todo), todo # <<>>,
         memory' = Recalled(i), i.op \in CreateOps => Adds(chain.contracts, chain'.contracts, i),
         Effects(i)
  PROVE  /\ Addresses(memory', chain'.contracts) /\ Apart(memory', memory') /\ Apart(memory', file)
<1> DEFINE C == chain.contracts
           E == chain'.contracts
           M == memory'
<1>1. Ok(Sort(script), i) /\ Fine(i)
  BY FairHead DEF DeskInv, Ok
<1>2. /\ Ledger(chain) /\ Len(C) \in Nat /\ Len(E) \in {Len(C), Len(C) + 1} /\ Shaped(C)
      /\ Addresses(memory, C) /\ Addresses(file, C)
      /\ Apart(memory, memory) /\ Apart(file, file) /\ Apart(memory, file)
  BY <1>1, LedgerStays DEF DeskInv, Ledger
<1>3. CASE i.op = "connect"
  <2>1. M = file
    BY <1>3, RecalledFacts
  <2> QED BY <1>2, <2>1, Widened
<1>4. CASE i.op \in CreateOps
  <2>1. M = D!Over([m \in {NameOf(i)} |-> Len(C) + 1], memory)
    BY <1>4, RecalledFacts
  <2>2. NameOf(i)[1] \notin Outside
    BY <1>1, <1>4 DEF Fine, NameOf, CreateOps, SettName, StrategyName, D!Name, Outside
  <2>3. Len(E) = Len(C) + 1
    BY <1>2, <1>4, AddsFacts
  <2> HIDE DEF C, E, M
  <2> QED BY <1>2, <2>1, <2>2, <2>3, CreatedApart DEF C, E, M
<1>5. CASE i.op = "know"
  <2>1. M = D!Over([m \in i.names |-> 0], Forgotten(i))
    BY <1>5, RecalledFacts
  <2>2. \A n \in i.names : n[1] \in Outside
    BY <1>1, <1>5 DEF Fine
  <2>3. Addresses(Forgotten(i), C) /\ Apart(Forgotten(i), Forgotten(i)) /\ Apart(Forgotten(i), file)
    <3>1. CASE i.fresh
      <4>1. PICK names : names = {m \in DOMAIN memory : m[1] # "logic"}
        OBVIOUS
      <4>2. Forgotten(i) = [n \in names |-> memory[n]] /\ names \subseteq DOMAIN memory
        BY <3>1, <4>1 DEF Forgotten
      <4> QED BY <1>2, <4>2, PartApart
    <3>2. CASE ~i.fresh
      BY <1>2, <3>2 DEF Forgotten
    <3> QED BY <3>1, <3>2
  <2>4. Addresses(M, C) /\ Apart(M, M) /\ Apart(M, file)
    BY <1>2, <2>1, <2>2, <2>3, KnownApart
  <2> QED BY <1>2, <2>4, Widened
<1>6. CASE i.op \notin {"connect", "know"} \cup CreateOps
  <2>1. M = memory
    BY <1>6, RecalledFacts
  <2> QED BY <1>2, <2>1, Widened
<1> QED BY <1>3, <1>4, <1>5, <1>6

LEMMA DeskSteps ==
  ASSUME DeskInv, Deploys, D!Step, ~D!Begin
  PROVE  DeskInv'
<1> DEFINE i == Head(todo)
<1>1. todo # <<>> /\ Proceeds(i) /\ Effects(i)
  BY StepDoes DEF DeskInv
<1> DEFINE C == chain.contracts
           E == chain'.contracts
<1>2. Ok(Sort(script), i) /\ Fine(i) /\ Fair(Sort(script), Tail(todo))
  BY <1>1, FairHead DEF DeskInv, Ok
<1> HIDE DEF i
<1>3. /\ Ledger(chain) /\ Len(C) \in Nat /\ Len(E) \in {Len(C), Len(C) + 1} /\ Ledger(chain')
  BY <1>1, <1>2, LedgerStays DEF DeskInv
<1>4. script' = script /\ file' \in {memory, file} /\ (i.op = "print" => file' = memory)
      /\ (i.op # "print" => file' = file)
  BY <1>1 DEF Proceeds
<1>5. Fair(Sort(script'), todo')
  BY <1>1, <1>2, <1>4, BodyEmpty DEF Proceeds
<1>6. /\ Addresses(memory, E) /\ Addresses(file, E) /\ Addresses(<<>>, E)
      /\ Apart(memory, memory) /\ Apart(file, file) /\ Apart(memory, file) /\ Apart(file, memory)
      /\ Apart(<<>>, <<>>) /\ Apart(<<>>, memory) /\ Apart(<<>>, file)
  <2>1. Addresses(memory, E) /\ Addresses(file, E)
    BY <1>3, Widened DEF DeskInv
  <2>2. Apart(file, memory)
    BY DEF DeskInv, Apart
  <2>3. Addresses(<<>>, E) /\ Apart(<<>>, <<>>) /\ Apart(<<>>, memory) /\ Apart(<<>>, file)
    BY DEF Addresses, Apart
  <2> QED BY <2>1, <2>2, <2>3 DEF DeskInv
<1>7. /\ Addresses(memory', E) /\ Apart(memory', memory') /\ Apart(memory', file')
  <2>1. CASE todo' = <<>> /\ memory' \in {<<>>, memory, file}
    BY <1>4, <1>6, <2>1
  <2>2. CASE /\ todo' = Tail(todo) /\ memory' = Recalled(i)
             /\ i.op \in CreateOps => Adds(C, E, i)
    <3>1. Addresses(memory', E) /\ Apart(memory', memory') /\ Apart(memory', file)
      BY <1>1, <2>2, RecalledApart DEF i
    <3>2. i.op = "print" => memory' = memory
      BY <2>2, RecalledFacts DEF CreateOps
    <3> QED BY <1>4, <1>6, <3>1, <3>2
  <2> QED BY <1>1, <2>1, <2>2 DEF Proceeds
<1>8. Addresses(file', E) /\ Apart(file', file')
  BY <1>4, <1>6
<1> QED BY <1>3, <1>5, <1>7, <1>8 DEF DeskInv, Ledger, Shaped, Addresses, Apart, Fair, Sort

BscSettNames == [i \in DOMAIN BscSetts |-> SettName(BscSetts[i])]
BscStrategyNames == [i \in DOMAIN BscSetts |-> StrategyName(BscSetts[i])]

LEMMA BscNamesFacts ==
  /\ Len(D!BscNames) \in Nat /\ DOMAIN D!BscNames = 1..Len(D!BscNames)
  /\ \A i \in DOMAIN D!BscNames : D!BscNames[i][1] \notin Outside
  /\ D!BscNames[2] = D!Name("controller", "native") /\ 2 \in DOMAIN D!BscNames
  /\ \A i \in DOMAIN D!BscNames :
       \/ D!BscNames[i] \in {D!Admin, D!Name("controller", "native")}
       \/ \E k \in DOMAIN BscSetts : D!BscNames[i] \in {SettName(BscSetts[k]), StrategyName(BscSetts[k])}
  /\ \A k \in DOMAIN BscSetts :
       /\ \E i \in DOMAIN D!BscNames : D!BscNames[i] = SettName(BscSetts[k])
       /\ \E i \in DOMAIN D!BscNames : D!BscNames[i] = StrategyName(BscSetts[k])
<1> DEFINE S == {SettName(BscSetts[k]) : k \in DOMAIN BscSetts}
           T == {StrategyName(BscSetts[k]) : k \in DOMAIN BscSetts}
           U == {D!Admin, D!Name("controller", "native")}
           a == <<D!Admin, D!Name("controller", "native")>>
           b == BscSettNames
           c == BscStrategyNames
           n == Len(BscSetts)
<1>1. n \in Nat /\ DOMAIN BscSetts = 1..n
  BY BscIds
<1>2. /\ b \in Seq(S) /\ c \in Seq(T) /\ Len(b) = n /\ Len(c) = n
      /\ \A k \in 1..n : b[k] = SettName(BscSetts[k]) /\ c[k] = StrategyName(BscSetts[k])
  <2>1. b \in [1..n -> S] /\ c \in [1..n -> T]
    BY <1>1 DEF BscSettNames, BscStrategyNames
  <2>2. \A k \in 1..n : b[k] = SettName(BscSetts[k]) /\ c[k] = StrategyName(BscSetts[k])
    BY <1>1 DEF BscSettNames, BscStrategyNames
  <2> HIDE DEF b, c, S, T, n
  <2> QED BY <1>1, <2>1, <2>2
<1>3. a \in Seq(U) /\ Len(a) = 2 /\ a[1] = D!Admin /\ a[2] = D!Name("controller", "native")
  OBVIOUS
<1>4. D!BscNames = (a \o b) \o c
  BY Zenon DEF D!BscNames, BscSettNames, BscStrategyNames, SettName, StrategyName
<1>5. /\ \A x \in S \cup T : x[1] \notin Outside
      /\ \A x \in U : x[1] \notin Outside
  BY DEF SettName, StrategyName, D!Name, D!Admin, Outside
<1>6. \A x \in S \cup T : \E k \in DOMAIN BscSetts : x \in {SettName(BscSetts[k]), StrategyName(BscSetts[k])}
  OBVIOUS
<1>2a. a \in Seq(U) /\ b \in Seq(S) /\ c \in Seq(T)
  BY <1>2, <1>3
<1> HIDE DEF S, T, U, a, b, c, n
<1> DEFINE s == a \o b
           t == s \o c
           V == U \cup S
           la == Len(a)
           lb == Len(b)
           lc == Len(c)
           ls == Len(s)
<1>7. /\ s \in Seq(V) /\ ls = la + lb /\ la \in Nat /\ lb \in Nat
      /\ \A j \in 1..la : s[j] = a[j]
      /\ \A j \in (la + 1)..(la + lb) : s[j] = b[j - la]
  BY <1>2a, Joined
<1>7s. s \in Seq(V)
  BY <1>7
<1> HIDE DEF s, V
<1>8. /\ t \in Seq(V \cup T) /\ Len(t) = ls + lc /\ ls \in Nat /\ lc \in Nat
      /\ \A j \in 1..ls : t[j] = s[j]
      /\ \A j \in (ls + 1)..(ls + lc) : t[j] = c[j - ls]
  BY <1>2a, <1>7s, Joined
<1>9. la = 2 /\ lb = n /\ lc = n
  BY <1>2, <1>3
<1> HIDE DEF t, la, lb, lc, ls
<1>10. /\ ls = 2 + n /\ Len(t) = (2 + n) + n
  BY <1>1, <1>7, <1>8, <1>9
<1>11. /\ t[1] = D!Admin /\ t[2] = D!Name("controller", "native")
       /\ \A k \in 1..n : t[2 + k] = b[k] /\ t[(2 + n) + k] = c[k]
  <2>1. t[1] = s[1] /\ t[2] = s[2] /\ s[1] = a[1] /\ s[2] = a[2]
    BY <1>1, <1>7, <1>8, <1>9, <1>10
  <2>2. ASSUME NEW k \in 1..n PROVE t[2 + k] = b[k] /\ t[(2 + n) + k] = c[k]
    <3>1. 2 + k \in (2 + 1)..(2 + n) /\ (2 + k) - 2 = k /\ 2 + k \in 1..(2 + n)
      BY <1>1
    <3>2. (2 + n) + k \in ((2 + n) + 1)..((2 + n) + n) /\ ((2 + n) + k) - (2 + n) = k
      BY <1>1
    <3> QED BY <1>7, <1>8, <1>9, <1>10, <3>1, <3>2
  <2> QED BY <1>3, <2>1, <2>2
<1>12. \A i \in 1..Len(t) : t[i] \in (U \cup S) \cup T
  BY <1>8 DEF V
<1>13. 2 \in 1..Len(t) /\ \A k \in 1..n : 2 + k \in 1..Len(t) /\ (2 + n) + k \in 1..Len(t)
  BY <1>1, <1>10
<1>14. Len(t) \in Nat /\ DOMAIN t = 1..Len(t)
  BY <1>8
<1>15. D!BscNames = t
  BY <1>4 DEF t, s
<1> HIDE <1>10
<1> QED BY ZenonT(30), <1>1, <1>2, <1>5, <1>6, <1>11, <1>12, <1>13, <1>14, <1>15 DEF U

LEMMA FileInitially ==
  ASSUME OperatorInit, script \in D!Bsc
  PROVE  /\ chain.contracts = [i \in 1..Len(D!BscNames) |-> D!Blank]
         /\ DOMAIN file = Range(D!BscNames)
         /\ \A n \in DOMAIN file : file[n] \in DOMAIN D!BscNames /\ D!BscNames[file[n]] = n
<1>1. /\ chain.contracts = [i \in DOMAIN D!BscNames |-> D!Blank]
      /\ file = [n \in Range(D!BscNames) |-> CHOOSE i \in DOMAIN D!BscNames : D!BscNames[i] = n]
  BY DEF OperatorInit, D!DeployInit, D!Range, Range
<1>2. ASSUME NEW n \in Range(D!BscNames)
      PROVE  \E i \in DOMAIN D!BscNames : D!BscNames[i] = n
  BY DEF Range
<1> QED BY <1>1, <1>2, BscNamesFacts

LEMMA DeskInitially == OperatorInit => DeskInv
<1> SUFFICES ASSUME OperatorInit PROVE DeskInv
  OBVIOUS
<1>1. Ledger(chain)
  <2>1. chain.contracts \in Seq({D!Blank})
    <3>1. CASE script \in D!Bsc
      <4>1. Len(D!BscNames) \in Nat /\ chain.contracts = [i \in 1..Len(D!BscNames) |-> D!Blank]
        BY <3>1, BscNamesFacts, FileInitially
      <4> QED BY <4>1
    <3>2. CASE script \notin D!Bsc
      BY <3>2 DEF OperatorInit, D!DeployInit
    <3> QED BY <3>1, <3>2
  <2>2. Shaped(chain.contracts)
    <3>1. \A k \in DOMAIN chain.contracts : DOMAIN chain.contracts[k] = Fields
      BY <2>1, BlankFields
    <3> QED BY <2>1, <3>1 DEF Shaped
  <2>3. DOMAIN chain = {"contracts", "purse", "time"} /\ chain.purse = 84000 /\ chain.time = 1
    BY Amounts DEF OperatorInit, D!DeployInit
  <2> QED BY <2>2, <2>3 DEF Ledger
<1>2. memory = <<>> /\ todo = <<>>
  BY DEF OperatorInit, D!DeployInit, Init, ScriptInit
<1>3. Addresses(file, chain.contracts) /\ Apart(file, file)
  <2>1. CASE script \in D!Bsc
    <3>1. Len(chain.contracts) = Len(D!BscNames)
      <4>1. Len(D!BscNames) \in Nat /\ chain.contracts = [i \in 1..Len(D!BscNames) |-> D!Blank]
        BY <2>1, BscNamesFacts, FileInitially
      <4> QED BY <4>1
    <3>2. Addresses(file, chain.contracts)
      BY <2>1, <3>1, FileInitially, BscNamesFacts DEF Addresses
    <3>3. Apart(file, file)
      BY <2>1, FileInitially DEF Apart
    <3> QED BY <3>2, <3>3
  <2>2. CASE script \notin D!Bsc
    <3>1. file = <<>>
      BY <2>2 DEF OperatorInit, D!DeployInit
    <3> QED BY <3>1 DEF Addresses, Apart
  <2> QED BY <2>1, <2>2
<1>4. Addresses(memory, chain.contracts) /\ Apart(memory, memory) /\ Apart(memory, file)
  BY <1>2 DEF Addresses, Apart
<1>5. Fair(Sort(script), todo)
  BY <1>2, BodyEmpty
<1> QED BY <1>1, <1>3, <1>4, <1>5 DEF DeskInv

LEMMA BeginFacts ==
  ASSUME Deploys, D!Begin
  PROVE  /\ script' \in D!Campaign /\ todo = <<>> /\ todo' = D!Programs[script']
         /\ memory' = <<>> /\ chain' = chain /\ file' = file
         /\ script' \in D!Mainnet \cup D!Bsc \cup MiniSetts \cup {"digg"}
         /\ Sort(script') = Sort(script)
         /\ (script' \in D!Mainnet <=> script \in D!Mainnet)
<1>1. /\ script' \in D!Campaign /\ todo = <<>> /\ todo' = D!Programs[script']
      /\ memory' = <<>> /\ chain' = chain /\ file' = file
  BY DEF D!Begin, D!Starts
<1>2. "digg" \notin D!Mainnet \cup D!Bsc /\ D!Mainnet \cap D!Bsc = {}
  BY DEF D!Mainnet, D!Bsc
<1>3. CASE script \in D!Mainnet
  BY <1>1, <1>2, <1>3 DEF D!Campaign, Sort
<1>4. CASE script \in D!Bsc
  BY <1>1, <1>2, <1>4 DEF D!Campaign, Sort
<1>5. CASE script \notin D!Mainnet \cup D!Bsc
  BY <1>1, <1>2, <1>5 DEF D!Campaign, Sort
<1> QED BY <1>3, <1>4, <1>5

LEMMA DeskBegins == ASSUME DeskInv, Deploys, D!Begin PROVE DeskInv'
<1>1. Fair(Sort(script'), todo')
  BY BeginFacts, ProgramsFair
<1>2. memory' = <<>> /\ chain' = chain /\ file' = file
  BY BeginFacts
<1>3. /\ Addresses(memory', chain'.contracts) /\ Apart(memory', memory') /\ Apart(memory', file')
      /\ Addresses(file', chain'.contracts) /\ Apart(file', file') /\ Ledger(chain')
  BY <1>2 DEF DeskInv, Addresses, Apart
<1> QED BY <1>1, <1>3 DEF DeskInv, Ledger, Shaped, Addresses, Apart, Fair, Sort

(* What is kept by the scripts that deploy is kept: the others have none of it. *)
Idle == chain.contracts = <<>> /\ file = <<>> /\ memory = <<>>

LEMMA IdleInitially == OperatorInit => (Deploys \/ Idle)
BY DEF OperatorInit, D!DeployInit, Deploys, Idle

LEMMA NextScript == ASSUME Next PROVE script' = script
<1>1. CASE \/ Begin \/ PrintState \/ ApproveRecipient \/ SendTokens \/ SignalTokenLocks
           \/ GrantRole \/ SetUnlockSchedules \/ Allow
  BY <1>1 DEF Begin, Starts, PrintState, ApproveRecipient, SendTokens, SignalTokenLocks,
              GrantRole, SetUnlockSchedules, Allow
<1>2. CASE \/ CheckTime \/ AddBonusToken \/ TopUpPool \/ ModifyDuration \/ Notify
           \/ VerifyPool \/ PoolStep
           \/ \E r \in Others \cup Range(GeyserKeys) \cup {"pool"} : RevokeRecipient(r)
  BY <1>2 DEF CheckTime, AddBonusToken, TopUpPool, ModifyDuration, Notify, VerifyPool,
              PoolStep, RevokeRecipient, emissionVars, scriptVars
<1> QED BY <1>1, <1>2 DEF Next, ScriptStep

LEMMA IdleStays ==
  ASSUME ~Deploys, Idle, [OperatorNext]_operatorVars
  PROVE  Idle' /\ ~Deploys'
<1>1. CASE ~Deploys /\ Next /\ UNCHANGED <<chain, memory, file>>
  <2>1. script' = script
    BY <1>1, NextScript
  <2> QED BY <1>1, <2>1 DEF Idle, Deploys
<1>2. CASE UNCHANGED operatorVars
  BY SMTT(30), <1>2 DEF operatorVars, allVars, emissionVars, scriptVars, Idle, Deploys
<1> QED BY <1>1, <1>2 DEF OperatorNext

-----------------------------------------------------------------------------
(* DIGG: as soon as a policy may rebase, it has all it needs               *)

LEMMA ActionOf ==
  ASSUME D!Step, ~D!Begin, NEW i, i = Head(todo)
  PROVE  /\ i.op = "deploy" => D!DeployProxy
         /\ i.op = "deploySett" => D!DeploySett
         /\ i.op = "deployStrategy" => D!DeployStrategy
         /\ i.op = "link" => D!SetLink
         /\ i.op = "updateAndPush" => D!UpdateAndPush
         /\ i.op = "sleep" => D!Sleep
         /\ i.op = "setOwner" => D!GiveAway
         /\ i.op = "initialize" => D!InitializeProxy
         /\ i.op = "pay" => D!PayBadger
         /\ i.op = "grantRole" => D!GrantRole
         /\ i.op = "check" => D!CheckThat
         /\ i.op = "setVault" => D!SetVault
         /\ i.op = "approveStrategy" => D!ApproveStrategy
         /\ i.op = "setStrategy" => D!SetStrategy
         /\ i.op = "connect" => D!ConnectBadger
BY ZenonT(30) DEF D!Step, D!Instruction, D!Reaches, D!KnowElsewhere, D!DeployProxy, D!DeploySett,
       D!DeployStrategy, D!SetVault, D!ApproveStrategy, D!SetStrategy, D!PayBadger, D!GrantRole,
       D!GiveAway, D!InitializeProxy, D!UnpauseSett, D!SetLink, D!UpdateAndPush, D!Sleep,
       D!CheckThat, D!Raise, D!ConnectBadger, D!PrintToFile

(* The outcomes of a transaction *)
Outcome(after, known) ==
  /\ chain' = chain \/ chain' = after
  /\ todo' = <<>> \/ (todo' = Tail(todo) /\ memory' = known /\ chain' = after)

LEMMA TransactsOutcome ==
  ASSUME NEW possible \in BOOLEAN, NEW after, NEW known, D!Transacts(possible, after, known)
  PROVE  Outcome(after, known) /\ (chain' = chain \/ possible)
BY TransactsDoes DEF Outcome

LEMMA LinkDoes ==
  ASSUME D!Step, ~D!Begin, NEW i, i = Head(todo), i.op = "link", Ledger(chain),
         NEW a, a = memory[i.on], a \in DOMAIN chain.contracts
  PROVE  LET C == chain.contracts
             E == chain'.contracts
         IN  \/ todo' = <<>> /\ chain' = chain
             \/ /\ todo' = <<>> \/ (todo' = Tail(todo) /\ memory' = memory)
                /\ Shaped(E) /\ DOMAIN E = DOMAIN C /\ chain'.time = chain.time
                /\ \A k \in DOMAIN C \ {a} : E[k] = C[k]
                /\ \A f \in Fields \ {"links"} : E[a][f] = C[a][f]
                /\ DOMAIN E[a].links = DOMAIN C[a].links \cup {i.field}
                /\ E[a].links[i.field] = memory[i.to]
                /\ \A f \in DOMAIN C[a].links \ {i.field} : E[a].links[f] = C[a].links[f]
<1> DEFINE r == [Here(i.on) EXCEPT !.links = D!Over([f \in {i.field} |-> memory[i.to]], @)]
           put == D!Put(i.on, r)
           possible == Here(i.on).owner = "deployer"
<1>1. D!Transacts(possible, put, memory)
  BY ActionOf DEF D!SetLink, D!Instruction, D!At, Here
<1>2. i.op \in WriteOps /\ i.on = Target(i) /\ Written(i.op) = {"links"}
  BY DEF WriteOps, WireOps, Target, Written
<1>3. DOMAIN Here(i.on) = Fields /\ Here(i.on) = chain.contracts[a]
  BY HereShaped DEF Here
<1>4. \A f \in Fields \ Written(i.op) : r[f] = Here(i.on)[f]
  BY <1>2, <1>3 DEF Fields
<1>4g. PICK g : g = [f \in {i.field} |-> memory[i.to]]
  BY ZenonT(30)
<1>4a. DOMAIN r = Fields /\ r.links = D!Over(g, chain.contracts[a].links)
  BY <1>3, <1>4g DEF Fields
<1> HIDE DEF r
<1>4b. LET h == chain.contracts[a].links
           m == r.links
       IN  /\ DOMAIN m = DOMAIN h \cup {i.field} /\ m[i.field] = memory[i.to]
           /\ \A f \in DOMAIN h \ {i.field} : m[f] = h[f]
  <2>2. DOMAIN g = {i.field} /\ g[i.field] = memory[i.to]
    BY <1>4g
  <2>3. PICK h, m : h = chain.contracts[a].links /\ m = r.links
    OBVIOUS
  <2>4. m = D!Over(g, h)
    BY <1>4a, <2>3
  <2>5. /\ DOMAIN m = DOMAIN g \cup DOMAIN h
        /\ \A f \in DOMAIN g : m[f] = g[f]
        /\ \A x \in DOMAIN h \ DOMAIN g : m[x] = h[x]
    <3>1. /\ DOMAIN D!Over(g, h) = DOMAIN g \cup DOMAIN h
          /\ \A x \in DOMAIN g : D!Over(g, h)[x] = g[x]
          /\ \A x \in DOMAIN h \ DOMAIN g : D!Over(g, h)[x] = h[x]
      BY OverFacts
    <3> QED BY <2>4, <3>1
  <2> QED BY ZenonT(30), <2>2, <2>3, <2>5
<1>5. /\ Shaped(put.contracts)
      /\ Writes(chain.contracts, put.contracts, a, Written(i.op))
      /\ put.time = chain.time /\ put.contracts[a] = r
  BY <1>2, <1>4, <1>4a, PutDoes
<1> HIDE DEF put
<1>6. possible \in BOOLEAN
  OBVIOUS
<1> HIDE DEF possible
<1>7. Outcome(put, memory)
  BY <1>1, <1>6, TransactsOutcome
<1>8. CASE chain' = chain /\ todo' = <<>>
  BY SMTT(30), <1>8
<1>9. CASE chain' = put
  BY <1>2, <1>4, <1>4b, <1>5, <1>7, <1>9 DEF Outcome, Writes
<1> QED BY ZenonT(30), <1>7, <1>8, <1>9 DEF Outcome

LEMMA PushDoes ==
  ASSUME D!Step, ~D!Begin, NEW i, i = Head(todo), i.op = "updateAndPush", Ledger(chain),
         NEW a, a = memory[D!Digg("cpiMedianOracle")], a \in DOMAIN chain.contracts
  PROVE  LET C == chain.contracts
             E == chain'.contracts
         IN  \/ todo' = <<>> /\ chain' = chain
             \/ /\ todo' = <<>> \/ (todo' = Tail(todo) /\ memory' = memory)
                /\ Shaped(E) /\ DOMAIN E = DOMAIN C /\ chain'.time = chain.time
                /\ \A k \in DOMAIN C \ {a} : E[k] = C[k]
                /\ \A f \in Fields \ {"pushed"} : E[a][f] = C[a][f]
                /\ E[a].pushed = chain.time
<1> DEFINE name == D!Digg("cpiMedianOracle")
           r == [Here(name) EXCEPT !.pushed = chain.time]
           put == D!Put(name, r)
           possible == "provider" \in DOMAIN Here(name).links
<1>1. D!Transacts(possible, put, memory)
  BY ActionOf DEF D!UpdateAndPush, D!Instruction, D!At, Here
<1>2. i.op \in WriteOps /\ name = Target(i) /\ Written(i.op) = {"pushed"}
  BY DEF WriteOps, WireOps, Target, Written
<1> HIDE DEF name
<1>3. DOMAIN Here(name) = Fields /\ Here(name) = chain.contracts[a]
  BY HereShaped DEF Here, name
<1>4. /\ DOMAIN r = Fields /\ \A f \in Fields \ Written(i.op) : r[f] = Here(name)[f]
      /\ r.pushed = chain.time
  BY <1>2, <1>3 DEF Fields
<1> HIDE DEF r
<1>5. /\ Shaped(put.contracts)
      /\ Writes(chain.contracts, put.contracts, a, Written(i.op))
      /\ put.time = chain.time /\ put.contracts[a] = r
  BY <1>2, <1>4, PutDoes DEF name
<1> HIDE DEF put
<1>6. possible \in BOOLEAN
  OBVIOUS
<1> HIDE DEF possible
<1>7. Outcome(put, memory)
  BY <1>1, <1>6, TransactsOutcome
<1>8. CASE chain' = chain /\ todo' = <<>>
  BY <1>8
<1>9. CASE chain' = put
  BY <1>2, <1>3, <1>4, <1>5, <1>7, <1>9 DEF Outcome, Writes
<1> QED BY <1>7, <1>8, <1>9 DEF Outcome

LEMMA DeployDoes ==
  ASSUME D!Step, ~D!Begin, NEW i, i = Head(todo), i.op = "deploy", Ledger(chain)
  PROVE  LET C == chain.contracts
             E == chain'.contracts
         IN  \/ todo' = <<>> /\ chain' = chain
             \/ /\ \/ todo' = <<>>
                   \/ /\ todo' = Tail(todo)
                      /\ DOMAIN memory' = DOMAIN memory \cup {i.name}
                      /\ memory'[i.name] = Len(C) + 1
                      /\ \A n \in DOMAIN memory \ {i.name} : memory'[n] = memory[n]
                /\ Shaped(E) /\ DOMAIN E = DOMAIN C \cup {Len(C) + 1} /\ Len(E) = Len(C) + 1
                /\ chain'.time = chain.time
                /\ \A k \in DOMAIN C : E[k] = C[k]
                /\ DOMAIN E[Len(C) + 1].links = DOMAIN i.links
                /\ \A f \in DOMAIN i.links : E[Len(C) + 1].links[f] = memory[i.links[f]]
                /\ E[Len(C) + 1].owner = i.owner
<1> DEFINE r == [D!Blank EXCEPT !.owner = i.owner, !.strategist = i.owner,
                                !.links = [f \in DOMAIN i.links |-> memory[i.links[f]]]]
           after == D!Created(r)
           known == D!Remember({i.name}, Len(chain.contracts) + 1)
<1>1. \/ D!Transacts(TRUE, after, known)
      \/ D!Transacts(FALSE, chain, memory)
  BY ActionOf DEF D!DeployProxy, D!Instruction, D!Creates
<1>2. /\ DOMAIN r = Fields /\ r.owner = i.owner
      /\ DOMAIN r.links = DOMAIN i.links
      /\ \A f \in DOMAIN i.links : r.links[f] = memory[i.links[f]]
  BY DEF D!Blank, Fields
<1> HIDE DEF r
<1>3. after.contracts = Append(chain.contracts, r) /\ after.time = chain.time
  BY DEF D!Created, Ledger
<1> HIDE DEF after
<1>4. /\ DOMAIN known = DOMAIN memory \cup {i.name} /\ known[i.name] = Len(chain.contracts) + 1
      /\ \A n \in DOMAIN memory \ {i.name} : known[n] = memory[n]
  <2>1. PICK g : g = [n \in {i.name} |-> Len(chain.contracts) + 1]
    OBVIOUS
  <2>2. DOMAIN g = {i.name} /\ g[i.name] = Len(chain.contracts) + 1
    BY <2>1
  <2>3. PICK k : k = known
    OBVIOUS
  <2>4. k = D!Over(g, memory)
    BY <2>1, <2>3 DEF D!Remember
  <2>5. /\ DOMAIN k = DOMAIN g \cup DOMAIN memory
        /\ \A n \in DOMAIN g : k[n] = g[n]
        /\ \A x \in DOMAIN memory \ DOMAIN g : k[x] = memory[x]
    <3>1. /\ DOMAIN D!Over(g, memory) = DOMAIN g \cup DOMAIN memory
          /\ \A x \in DOMAIN g : D!Over(g, memory)[x] = g[x]
          /\ \A x \in DOMAIN memory \ DOMAIN g : D!Over(g, memory)[x] = memory[x]
      BY OverFacts
    <3> QED BY <2>4, <3>1
  <2> QED BY <2>2, <2>3, <2>5
<1> HIDE DEF known
<1>5. Shaped(chain.contracts)
  BY DEF Ledger
<1>6. CASE D!Transacts(FALSE, chain, memory)
  <2>1. todo' = <<>> /\ chain' = chain
    BY <1>6, TransactsDoes
  <2> QED BY <2>1
<1>7. CASE D!Transacts(TRUE, after, known)
  <2>1. Outcome(after, known)
    BY <1>7, TransactsOutcome
  <2>2. CASE chain' = chain /\ todo' = <<>>
    BY <2>2
  <2>3. CASE chain' = after
    <3>0. PICK C : C = chain.contracts
      OBVIOUS
    <3>1. /\ Shaped(Append(chain.contracts, r))
          /\ Len(Append(chain.contracts, r)) = Len(chain.contracts) + 1
          /\ \A k \in DOMAIN chain.contracts : Append(chain.contracts, r)[k] = chain.contracts[k]
          /\ Append(chain.contracts, r)[Len(chain.contracts) + 1] = r
          /\ DOMAIN Append(chain.contracts, r) = DOMAIN chain.contracts \cup {Len(chain.contracts) + 1}
      BY <1>2, <1>5, AppendShaped
    <3>2. /\ \A k \in DOMAIN chain.contracts : chain'.contracts[k] = chain.contracts[k]
          /\ chain'.contracts[Len(chain.contracts) + 1] = r
          /\ Shaped(chain'.contracts) /\ Len(chain'.contracts) = Len(chain.contracts) + 1
          /\ DOMAIN chain'.contracts = DOMAIN chain.contracts \cup {Len(chain.contracts) + 1}
          /\ chain'.time = chain.time
      BY <1>3, <2>3, <3>1
    <3> QED BY <1>2, <1>4, <2>1, <3>2 DEF Outcome
  <2> QED BY <2>1, <2>2, <2>3 DEF Outcome
<1> QED BY <1>1, <1>6, <1>7

(* Nothing has a link where no script sets one. *)
NoLinks(C) == \A c \in DOMAIN C : DOMAIN C[c].links = {}

LEMMA NoLinksStay ==
  ASSUME DeskInv, Deploys, D!Step, ~D!Begin, script # "digg", NoLinks(chain.contracts)
  PROVE  NoLinks(chain'.contracts)
<1> DEFINE i == Head(todo)
           C == chain.contracts
           E == chain'.contracts
<1>1. todo # <<>> /\ Effects(i) /\ Ok(Sort(script), i) /\ Shaped(C)
  BY StepDoes, FairHead DEF DeskInv, Ledger
<1>2. i.op # "link" /\ (i.op = "deploy" => i.links = <<>>)
  <2>1. Sort(script) \in {"bsc", "mainnet"}
    BY DEF Sort
  <2> QED BY <1>1, <2>1 DEF Ok, OnMainnet, OnBsc, WireOps
<1> HIDE DEF i
<1>3. CASE E = C
  BY <1>3 DEF NoLinks
<1>4. CASE Adds(C, E, i)
  <2> HIDE DEF C, E
  <2>1. /\ \A j \in DOMAIN C : E[j] = C[j]
        /\ DOMAIN E = DOMAIN C \cup {Len(C) + 1}
        /\ (i.op = "deploy" /\ i.links # <<>>) \/ DOMAIN E[Len(C) + 1].links = {}
    <3>0. PICK r : /\ E = Append(C, r) /\ DOMAIN r = Fields
                   /\ (i.op = "deploy" /\ i.links # <<>>) \/ DOMAIN r.links = {}
      BY <1>4 DEF Adds
    <3>1. /\ \A j \in DOMAIN C : E[j] = C[j]
          /\ DOMAIN E = DOMAIN C \cup {Len(C) + 1} /\ E[Len(C) + 1] = r
      BY <1>1, <3>0, AppendShaped
    <3> QED BY <3>0, <3>1
  <2>2. DOMAIN E[Len(C) + 1].links = {}
    BY <1>2, <2>1
  <2> QED BY <2>1, <2>2 DEF NoLinks, C, E
<1>5. CASE Writes(C, E, memory[Target(i)], Written(i.op))
  <2>1. "links" \in Fields \ Written(i.op)
    BY <1>2 DEF Fields, Written
  <2> QED BY <1>5, <2>1 DEF Writes, NoLinks
<1> QED BY <1>1, <1>3, <1>4, <1>5 DEF Effects

LEMMA ConsSeq == ASSUME NEW e, NEW t, IsSeq(t) PROVE IsSeq(<<e>> \o t)
<1>0. PICK S : t \in Seq(S)
  BY DEF IsSeq
<1>1. <<e>> \in Seq({e})
  OBVIOUS
<1>2. IsSeq(<<e>>)
  BY <1>1 DEF IsSeq
<1> QED BY <1>2, Reassociate

LEMMA ConsParts ==
  ASSUME NEW e, NEW t, IsSeq(t)
  PROVE  Head(<<e>> \o t) = e /\ Tail(<<e>> \o t) = t
<1>0. PICK S : t \in Seq(S)
  BY DEF IsSeq
<1>1. <<e>> \in Seq(S \cup {e}) /\ t \in Seq(S \cup {e})
  <2>1. S \subseteq S \cup {e}
    OBVIOUS
  <2>2. t \in Seq(S \cup {e})
    BY <1>0, <2>1, SeqWider
  <2> QED BY <2>2
<1>2. Head(<<e>> \o t) = e /\ Tail(<<e>> \o t) = t
  BY <1>1, ConsFacts
<1> QED BY <1>2

LEMMA ConsSome ==
  ASSUME NEW e, NEW t, IsSeq(t)
  PROVE  <<e>> \o t # <<>>
<1>0. PICK S : t \in Seq(S)
  BY DEF IsSeq
<1>1. <<e>> \in Seq(S \cup {e}) /\ t \in Seq(S \cup {e})
  <2>1. S \subseteq S \cup {e}
    OBVIOUS
  <2>2. t \in Seq(S \cup {e})
    BY <1>0, <2>1, SeqWider
  <2> QED BY <2>2
<1>2. <<e>> \o t # <<>>
  BY <1>1, ConsFacts
<1> QED BY <1>2

-----------------------------------------------------------------------------
(* The script of DIGG from the token on                                    *)

Tok == D!Digg("uFragments")
Pol == D!Digg("uFragmentsPolicy")
Orc == D!Digg("orchestrator")
Mkt == D!Digg("marketMedianOracle")
Cpi == D!Digg("cpiMedianOracle")
Cst == D!Digg("constantOracle")

DiggPrefix == D!NewSystem \o D!DeployLogic("RewardsEscrow") \o D!DeployRewardsEscrow
DiggTail == D!DeployAirdropDistributor \o D!TransferOwnership

Rest16 == D!Link(Tok, "monetaryPolicy", Pol) \o DiggTail
Rest15 == D!Link(Pol, "orchestrator", Orc) \o Rest16
Rest14 == D!Link(Pol, "orchestrator", Orc) \o Rest15
Rest13 == D!Link(Pol, "marketOracle", Mkt) \o Rest14
Rest12 == D!Link(Pol, "cpiOracle", Cpi) \o Rest13
Rest11 == D!Go("sleep") \o Rest12
Rest10 == D!Go("updateAndPush") \o Rest11
Rest9 == D!Link(Cpi, "provider", Cst) \o Rest10
Rest8 == D!DeployDiggTeamVesting \o Rest9
Rest7 == D!DeployDaoDiggTimelock \o Rest8
Rest6 == D!DeployConstantOracle \o Rest7
Rest5 == D!DeployCpiMedianOracle \o Rest6
Rest4 == D!DeployMarketMedianOracle \o Rest5
Rest3 == D!DeployOrchestrator \o Rest4
Rest2 == D!DeployDiggPolicy \o Rest3
Rest1 == D!DeployDiggToken \o Rest2

LEMMA DiggParts ==
  /\ IsSeq(DiggPrefix) /\ IsSeq(DiggTail)
  /\ IsSeq(D!DeployAirdropDistributor) /\ IsSeq(D!TransferOwnership)
  /\ Body(FALSE, DiggPrefix)
<1>1. Body(FALSE, DiggPrefix)
  BY KnowsBody, ProxiesBody, BodyJoin DEF DiggPrefix
<1>2. IsSeq(D!DeployAirdropDistributor)
  BY DiggNewFair, FairIsSeq DEF D!DeployAirdropDistributor, D!New
<1>3. IsSeq(D!TransferOwnership)
  <2> DEFINE ids == <<"uFragments", "uFragmentsPolicy", "orchestrator", "marketMedianOracle",
                      "cpiMedianOracle">>
             g == [j \in DOMAIN ids |-> D!GiveTo(D!Digg(ids[j]), "deployer", "dao")]
  <2>1. ids \in Seq({"uFragments", "uFragmentsPolicy", "orchestrator", "marketMedianOracle",
                     "cpiMedianOracle"})
    OBVIOUS
  <2>2. g = [j \in DOMAIN ids |-> g[j]] /\ \A j \in DOMAIN ids : Fair("digg", g[j])
    BY GiveFair
  <2> HIDE DEF g, ids
  <2>3. Fair("digg", D!FlattenSeq(g))
    BY <2>1, <2>2, EachFair
  <2> QED BY <2>3, FairIsSeq DEF D!TransferOwnership, D!Each, g, ids
<1>4. IsSeq(DiggTail)
  BY <1>2, <1>3, Reassociate DEF DiggTail
<1> QED BY <1>1, <1>2, <1>3, <1>4, FairIsSeq

LEMMA RestsAreSeqs ==
  /\ IsSeq(Rest1) /\ IsSeq(Rest2) /\ IsSeq(Rest3) /\ IsSeq(Rest4) /\ IsSeq(Rest5)
  /\ IsSeq(Rest6) /\ IsSeq(Rest7) /\ IsSeq(Rest8) /\ IsSeq(Rest9) /\ IsSeq(Rest10)
  /\ IsSeq(Rest11) /\ IsSeq(Rest12) /\ IsSeq(Rest13) /\ IsSeq(Rest14) /\ IsSeq(Rest15)
  /\ IsSeq(Rest16)
<1>1. /\ IsSeq(Rest16) /\ (IsSeq(Rest16) => IsSeq(Rest15)) /\ (IsSeq(Rest15) => IsSeq(Rest14))
      /\ (IsSeq(Rest14) => IsSeq(Rest13)) /\ (IsSeq(Rest13) => IsSeq(Rest12))
  BY DiggParts, ConsSeq DEF Rest16, Rest15, Rest14, Rest13, Rest12, D!Link
<1>2. /\ IsSeq(Rest12) => IsSeq(Rest11)
      /\ IsSeq(Rest11) => IsSeq(Rest10)
      /\ IsSeq(Rest10) => IsSeq(Rest9)
  BY ConsSeq DEF Rest11, Rest10, Rest9, D!Link, D!Go
<1>3. /\ IsSeq(Rest9) => IsSeq(Rest8)
      /\ IsSeq(Rest8) => IsSeq(Rest7)
      /\ IsSeq(Rest7) => IsSeq(Rest6)
      /\ IsSeq(Rest6) => IsSeq(Rest5)
  BY ConsSeq
     DEF Rest8, Rest7, Rest6, Rest5, D!DeployDiggTeamVesting, D!DeployDaoDiggTimelock,
         D!DeployConstantOracle, D!DeployCpiMedianOracle, D!New, D!NewLinked
<1>4. /\ IsSeq(Rest5) => IsSeq(Rest4)
      /\ IsSeq(Rest4) => IsSeq(Rest3)
      /\ IsSeq(Rest3) => IsSeq(Rest2)
      /\ IsSeq(Rest2) => IsSeq(Rest1)
  BY ConsSeq
     DEF Rest4, Rest3, Rest2, Rest1, D!DeployMarketMedianOracle, D!DeployOrchestrator,
         D!DeployDiggPolicy, D!DeployDiggToken, D!New, D!NewLinked
<1> HIDE DEF Rest1
<1> QED BY <1>1, <1>2, <1>3, <1>4

(* ... and up to a place in it *)
Upto2 == D!DeployDiggToken \o D!DeployDiggPolicy
Upto3 == Upto2 \o D!DeployOrchestrator
Upto4 == Upto3 \o D!DeployMarketMedianOracle
Upto5 == Upto4 \o D!DeployCpiMedianOracle
Upto6 == Upto5 \o D!DeployConstantOracle
Upto7 == Upto6 \o D!DeployDaoDiggTimelock
Upto8 == Upto7 \o D!DeployDiggTeamVesting
Upto9 == Upto8 \o D!Link(Cpi, "provider", Cst)
Upto10 == Upto9 \o D!Go("updateAndPush")
Upto11 == Upto10 \o D!Go("sleep")
Upto12 == Upto11 \o D!Link(Pol, "cpiOracle", Cpi)
Upto13 == Upto12 \o D!Link(Pol, "marketOracle", Mkt)
Upto14 == Upto13 \o D!Link(Pol, "orchestrator", Orc)
Upto15 == Upto14 \o D!Link(Pol, "orchestrator", Orc)
Upto16 == Upto15 \o D!Link(Tok, "monetaryPolicy", Pol)

LEMMA LinksAreSeqs ==
  /\ \A on, field, to : IsSeq(D!Link(on, field, to))
  /\ \A op : IsSeq(D!Go(op))
  /\ IsSeq(D!DeployDiggToken) /\ IsSeq(D!DeployDiggPolicy) /\ IsSeq(D!DeployOrchestrator)
  /\ IsSeq(D!DeployMarketMedianOracle) /\ IsSeq(D!DeployCpiMedianOracle)
  /\ IsSeq(D!DeployConstantOracle) /\ IsSeq(D!DeployDaoDiggTimelock)
  /\ IsSeq(D!DeployDiggTeamVesting)
<1>1. ASSUME NEW e PROVE IsSeq(<<e>>)
  <2>1. <<e>> \in Seq({e})
    OBVIOUS
  <2> QED BY <2>1 DEF IsSeq
<1>2. /\ \A on, field, to : IsSeq(D!Link(on, field, to))
      /\ \A op : IsSeq(D!Go(op))
  BY <1>1 DEF D!Link, D!Go
<1>3. /\ IsSeq(D!DeployDiggToken) /\ IsSeq(D!DeployDiggPolicy) /\ IsSeq(D!DeployOrchestrator)
      /\ IsSeq(D!DeployMarketMedianOracle) /\ IsSeq(D!DeployCpiMedianOracle)
      /\ IsSeq(D!DeployConstantOracle) /\ IsSeq(D!DeployDaoDiggTimelock)
      /\ IsSeq(D!DeployDiggTeamVesting)
  BY <1>1
     DEF D!New, D!NewLinked, D!DeployDiggToken, D!DeployDiggPolicy, D!DeployOrchestrator,
         D!DeployMarketMedianOracle, D!DeployCpiMedianOracle, D!DeployConstantOracle,
         D!DeployDaoDiggTimelock, D!DeployDiggTeamVesting
<1> QED BY <1>2, <1>3

LEMMA UptosAreSeqs ==
  /\ IsSeq(Upto2) /\ IsSeq(Upto3) /\ IsSeq(Upto4) /\ IsSeq(Upto5) /\ IsSeq(Upto6)
  /\ IsSeq(Upto7) /\ IsSeq(Upto8) /\ IsSeq(Upto9) /\ IsSeq(Upto10) /\ IsSeq(Upto11)
  /\ IsSeq(Upto12) /\ IsSeq(Upto13) /\ IsSeq(Upto14) /\ IsSeq(Upto15) /\ IsSeq(Upto16)
<1>2. IsSeq(Upto2)
  BY LinksAreSeqs, Reassociate DEF Upto2
<1>3. IsSeq(Upto3)
  BY <1>2, LinksAreSeqs, Reassociate DEF Upto3
<1>4. IsSeq(Upto4)
  BY <1>3, LinksAreSeqs, Reassociate DEF Upto4
<1>5. IsSeq(Upto5)
  BY <1>4, LinksAreSeqs, Reassociate DEF Upto5
<1>6. IsSeq(Upto6)
  BY <1>5, LinksAreSeqs, Reassociate DEF Upto6
<1>7. IsSeq(Upto7)
  BY <1>6, LinksAreSeqs, Reassociate DEF Upto7
<1>8. IsSeq(Upto8)
  BY <1>7, LinksAreSeqs, Reassociate DEF Upto8
<1>9. IsSeq(Upto9)
  BY <1>8, LinksAreSeqs, Reassociate DEF Upto9
<1>10. IsSeq(Upto10)
  BY <1>9, LinksAreSeqs, Reassociate DEF Upto10
<1>11. IsSeq(Upto11)
  BY <1>10, LinksAreSeqs, Reassociate DEF Upto11
<1>12. IsSeq(Upto12)
  BY <1>11, LinksAreSeqs, Reassociate DEF Upto12
<1>13. IsSeq(Upto13)
  BY <1>12, LinksAreSeqs, Reassociate DEF Upto13
<1>14. IsSeq(Upto14)
  BY <1>13, LinksAreSeqs, Reassociate DEF Upto14
<1>15. IsSeq(Upto15)
  BY <1>14, LinksAreSeqs, Reassociate DEF Upto15
<1>16. IsSeq(Upto16)
  BY <1>15, LinksAreSeqs, Reassociate DEF Upto16
<1> QED BY <1>2, <1>3, <1>4, <1>5, <1>6, <1>7, <1>8, <1>9, <1>10, <1>11, <1>12, <1>13, <1>14, <1>15, <1>16

LEMMA DiggShape == D!DeployDigg = DiggPrefix \o Rest1
<1>16. Upto16 \o DiggTail = Upto15 \o Rest16
  <2>1. Associates(Upto15, D!Link(Tok, "monetaryPolicy", Pol), DiggTail)
    BY LinksAreSeqs, UptosAreSeqs, RestsAreSeqs, DiggParts, Reassociate
  <2> QED BY <2>1, Zenon DEF Associates, Upto16, Rest16
<1>15. Upto15 \o Rest16 = Upto14 \o Rest15
  <2>1. Associates(Upto14, D!Link(Pol, "orchestrator", Orc), Rest16)
    BY LinksAreSeqs, UptosAreSeqs, RestsAreSeqs, DiggParts, Reassociate
  <2> QED BY <2>1, Zenon DEF Associates, Upto15, Rest15
<1>14. Upto14 \o Rest15 = Upto13 \o Rest14
  <2>1. Associates(Upto13, D!Link(Pol, "orchestrator", Orc), Rest15)
    BY LinksAreSeqs, UptosAreSeqs, RestsAreSeqs, DiggParts, Reassociate
  <2> QED BY <2>1, Zenon DEF Associates, Upto14, Rest14
<1>13. Upto13 \o Rest14 = Upto12 \o Rest13
  <2>1. Associates(Upto12, D!Link(Pol, "marketOracle", Mkt), Rest14)
    BY LinksAreSeqs, UptosAreSeqs, RestsAreSeqs, DiggParts, Reassociate
  <2> QED BY <2>1, Zenon DEF Associates, Upto13, Rest13
<1>12. Upto12 \o Rest13 = Upto11 \o Rest12
  <2>1. Associates(Upto11, D!Link(Pol, "cpiOracle", Cpi), Rest13)
    BY LinksAreSeqs, UptosAreSeqs, RestsAreSeqs, DiggParts, Reassociate
  <2> QED BY <2>1, Zenon DEF Associates, Upto12, Rest12
<1>11. Upto11 \o Rest12 = Upto10 \o Rest11
  <2>1. Associates(Upto10, D!Go("sleep"), Rest12)
    BY LinksAreSeqs, UptosAreSeqs, RestsAreSeqs, DiggParts, Reassociate
  <2> QED BY <2>1, Zenon DEF Associates, Upto11, Rest11
<1>10. Upto10 \o Rest11 = Upto9 \o Rest10
  <2>1. Associates(Upto9, D!Go("updateAndPush"), Rest11)
    BY LinksAreSeqs, UptosAreSeqs, RestsAreSeqs, DiggParts, Reassociate
  <2> QED BY <2>1, Zenon DEF Associates, Upto10, Rest10
<1>9. Upto9 \o Rest10 = Upto8 \o Rest9
  <2>1. Associates(Upto8, D!Link(Cpi, "provider", Cst), Rest10)
    BY LinksAreSeqs, UptosAreSeqs, RestsAreSeqs, DiggParts, Reassociate
  <2> QED BY <2>1, Zenon DEF Associates, Upto9, Rest9
<1>8. Upto8 \o Rest9 = Upto7 \o Rest8
  <2>1. Associates(Upto7, D!DeployDiggTeamVesting, Rest9)
    BY LinksAreSeqs, UptosAreSeqs, RestsAreSeqs, DiggParts, Reassociate
  <2> QED BY <2>1, Zenon DEF Associates, Upto8, Rest8
<1>7. Upto7 \o Rest8 = Upto6 \o Rest7
  <2>1. Associates(Upto6, D!DeployDaoDiggTimelock, Rest8)
    BY LinksAreSeqs, UptosAreSeqs, RestsAreSeqs, DiggParts, Reassociate
  <2> QED BY <2>1, Zenon DEF Associates, Upto7, Rest7
<1>6. Upto6 \o Rest7 = Upto5 \o Rest6
  <2>1. Associates(Upto5, D!DeployConstantOracle, Rest7)
    BY LinksAreSeqs, UptosAreSeqs, RestsAreSeqs, DiggParts, Reassociate
  <2> QED BY <2>1, Zenon DEF Associates, Upto6, Rest6
<1>5. Upto5 \o Rest6 = Upto4 \o Rest5
  <2>1. Associates(Upto4, D!DeployCpiMedianOracle, Rest6)
    BY LinksAreSeqs, UptosAreSeqs, RestsAreSeqs, DiggParts, Reassociate
  <2> QED BY <2>1, Zenon DEF Associates, Upto5, Rest5
<1>4. Upto4 \o Rest5 = Upto3 \o Rest4
  <2>1. Associates(Upto3, D!DeployMarketMedianOracle, Rest5)
    BY LinksAreSeqs, UptosAreSeqs, RestsAreSeqs, DiggParts, Reassociate
  <2> QED BY <2>1, Zenon DEF Associates, Upto4, Rest4
<1>3. Upto3 \o Rest4 = Upto2 \o Rest3
  <2>1. Associates(Upto2, D!DeployOrchestrator, Rest4)
    BY LinksAreSeqs, UptosAreSeqs, RestsAreSeqs, DiggParts, Reassociate
  <2> QED BY <2>1, Zenon DEF Associates, Upto3, Rest3
<1>2. Upto2 \o Rest3 = D!DeployDiggToken \o Rest2
  <2>1. Associates(D!DeployDiggToken, D!DeployDiggPolicy, Rest3)
    BY LinksAreSeqs, UptosAreSeqs, RestsAreSeqs, DiggParts, Reassociate
  <2> QED BY <2>1, Zenon DEF Associates, Upto2, Rest2
<1>17. Upto16 \o DiggTail = Rest1
  BY <1>2, <1>3, <1>4, <1>5, <1>6, <1>7, <1>8, <1>9, <1>10, <1>11, <1>12, <1>13, <1>14, <1>15, <1>16, Zenon DEF Rest1
<1>18. D!DeployDigg = ((DiggPrefix \o Upto16) \o D!DeployAirdropDistributor) \o D!TransferOwnership
  BY Zenon
     DEF D!DeployDigg, DiggPrefix, D!DeployDiggMinimal, D!SleepReportDelay, Tok, Pol, Orc, Mkt,
         Cpi, Cst, Upto2, Upto3, Upto4, Upto5, Upto6, Upto7, Upto8, Upto9, Upto10, Upto11, Upto12, Upto13, Upto14, Upto15, Upto16
<1>19. /\ Associates(DiggPrefix \o Upto16, D!DeployAirdropDistributor, D!TransferOwnership)
       /\ Associates(DiggPrefix, Upto16, DiggTail)
  BY UptosAreSeqs, DiggParts, Reassociate
<1>20. D!DeployDigg = (DiggPrefix \o Upto16) \o DiggTail
  BY <1>18, <1>19, Zenon DEF Associates, DiggTail
<1>21. D!DeployDigg = DiggPrefix \o (Upto16 \o DiggTail)
  BY <1>19, <1>20, Zenon DEF Associates
<1> QED BY <1>17, <1>21, Zenon

-----------------------------------------------------------------------------
(* A policy that may rebase                                                *)

Governed(C, u) == "monetaryPolicy" \in DOMAIN C[u].links
PolicyOf(C, u) == C[u].links.monetaryPolicy
OrchestratorOf(C, u) == C[PolicyOf(C, u)].links.orchestrator
CpiOf(C, u) == C[PolicyOf(C, u)].links.cpiOracle

(* All that it depends on *)
Feet(C, u) == {u, PolicyOf(C, u), OrchestratorOf(C, u), CpiOf(C, u)}

ReadyAt(C, t, u) ==
  /\ Feet(C, u) \subseteq DOMAIN C
  /\ {"cpiOracle", "marketOracle", "orchestrator"} \subseteq DOMAIN C[PolicyOf(C, u)].links
  /\ C[OrchestratorOf(C, u)].links.policy = PolicyOf(C, u)
  /\ C[PolicyOf(C, u)].links.token = u
  /\ C[CpiOf(C, u)].pushed \in Nat \ {0}
  /\ C[CpiOf(C, u)].pushed + ReportDelay <= t

AllReady(C, t) == \A u \in DOMAIN C : Governed(C, u) => ReadyAt(C, t, u)

(* What the process knows is not what an earlier one made ready. *)
Clear(M, C) == \A u \in DOMAIN C : Governed(C, u) => \A n \in DOMAIN M : M[n] \notin Feet(C, u)

LEMMA AllReadyIs == ASSUME AllReady(chain.contracts, chain.time) PROVE RebaseReady
<1> DEFINE C == chain.contracts
<1>1. ASSUME NEW u \in DOMAIN C, "monetaryPolicy" \in DOMAIN C[u].links
      PROVE  LET policy == C[C[u].links.monetaryPolicy]
             IN  /\ {"cpiOracle", "marketOracle", "orchestrator"} \subseteq DOMAIN policy.links
                 /\ C[policy.links.orchestrator].links.policy = C[u].links.monetaryPolicy
                 /\ policy.links.token = u
                 /\ LET cpi == C[policy.links.cpiOracle]
                    IN  cpi.pushed > 0 /\ cpi.pushed + ReportDelay <= chain.time
  <2>1. ReadyAt(C, chain.time, u)
    BY <1>1 DEF AllReady, Governed
  <2>2. C[CpiOf(C, u)].pushed > 0
    BY <2>1 DEF ReadyAt
  <2> QED BY ZenonT(30), <2>1, <2>2 DEF ReadyAt, PolicyOf, OrchestratorOf, CpiOf
<1> QED BY ZenonT(30), <1>1 DEF RebaseReady, D!RebaseReady

(* E is C but for the links and the reports of A, and of what is new. *)
Alike(C, E, A) ==
  /\ DOMAIN C \subseteq DOMAIN E
  /\ \A k \in DOMAIN C \ A : E[k].links = C[k].links /\ E[k].pushed = C[k].pushed
Same(C, E, A) ==
  /\ Alike(C, E, A)
  /\ \A k \in DOMAIN E : k \in A \/ k \notin DOMAIN C => ~Governed(E, k)
Spares(C, A) == \A u \in DOMAIN C : Governed(C, u) => Feet(C, u) \cap A = {}

LEMMA ReadySame ==
  ASSUME NEW C, NEW E, NEW A, Alike(C, E, A), NEW u \in DOMAIN C, Governed(C, u),
         Feet(C, u) \cap A = {}, NEW t \in Nat, ReadyAt(C, t, u), NEW T \in Nat, T >= t
  PROVE  Governed(E, u) /\ Feet(E, u) = Feet(C, u) /\ ReadyAt(E, T, u)
<1> DEFINE p == PolicyOf(C, u)
           o == OrchestratorOf(C, u)
           c == CpiOf(C, u)
<1>1. {u, p, o, c} \subseteq DOMAIN C \ A /\ DOMAIN C \subseteq DOMAIN E
  BY DEF ReadyAt, Feet, Alike
<1>2. /\ E[u].links = C[u].links /\ E[p].links = C[p].links /\ E[o].links = C[o].links
      /\ E[c].pushed = C[c].pushed
  <2> HIDE DEF p, o, c
  <2> QED BY <1>1 DEF Alike
<1>3. PolicyOf(E, u) = p
  BY <1>2 DEF PolicyOf
<1>4. OrchestratorOf(E, u) = o /\ CpiOf(E, u) = c
  <2>1. OrchestratorOf(C, u) = C[p].links.orchestrator /\ CpiOf(C, u) = C[p].links.cpiOracle
    BY DEF OrchestratorOf, CpiOf
  <2>2. OrchestratorOf(E, u) = E[p].links.orchestrator /\ CpiOf(E, u) = E[p].links.cpiOracle
    BY <1>3 DEF OrchestratorOf, CpiOf
  <2> QED BY <1>2, <2>1, <2>2
<1>5. Feet(E, u) = Feet(C, u)
  BY <1>3, <1>4 DEF Feet
<1>6. Governed(E, u)
  BY <1>2 DEF Governed
<1>7. /\ {"cpiOracle", "marketOracle", "orchestrator"} \subseteq DOMAIN C[p].links
      /\ C[o].links.policy = p /\ C[p].links.token = u
      /\ C[c].pushed \in Nat \ {0} /\ C[c].pushed + ReportDelay <= t
  BY DEF ReadyAt
<1>8. ReportDelay \in Nat
  BY DeploymentAssumption
<1> HIDE DEF p, o, c
<1>9. E[c].pushed + ReportDelay <= T
  BY <1>2, <1>7, <1>8
<1>10. Feet(E, u) \subseteq DOMAIN E
  BY <1>1, <1>3, <1>4 DEF Feet
<1>11. ReadyAt(E, T, u)
  BY <1>2, <1>3, <1>4, <1>7, <1>9, <1>10 DEF ReadyAt
<1> QED BY <1>5, <1>6, <1>11

LEMMA StillReady ==
  ASSUME NEW C, NEW E, NEW A, Same(C, E, A), Spares(C, A),
         NEW t \in Nat, AllReady(C, t), NEW T \in Nat, T >= t
  PROVE  /\ AllReady(E, T)
         /\ \A u \in DOMAIN E : Governed(E, u) =>
              u \in DOMAIN C /\ Governed(C, u) /\ Feet(E, u) = Feet(C, u) /\ Feet(C, u) \subseteq DOMAIN C
<1>1. ASSUME NEW u \in DOMAIN E, Governed(E, u)
      PROVE  /\ u \in DOMAIN C /\ Governed(C, u) /\ Feet(E, u) = Feet(C, u)
             /\ Feet(C, u) \subseteq DOMAIN C /\ ReadyAt(E, T, u)
  <2>1. u \in DOMAIN C \ A
    BY <1>1 DEF Same, Alike
  <2>2. Governed(C, u)
    BY <1>1, <2>1 DEF Same, Alike, Governed
  <2>3. ReadyAt(C, t, u) /\ Feet(C, u) \cap A = {}
    BY <2>1, <2>2 DEF AllReady, Spares
  <2>4. Feet(E, u) = Feet(C, u) /\ ReadyAt(E, T, u)
    BY <2>1, <2>2, <2>3, ReadySame DEF Same
  <2>5. Feet(C, u) \subseteq DOMAIN C
    BY <2>3 DEF ReadyAt
  <2> QED BY <2>1, <2>2, <2>4, <2>5
<1> QED BY <1>1 DEF AllReady

LEMMA ClearStays ==
  ASSUME NEW C, NEW E, NEW M, Clear(M, C), NEW N,
         \A u \in DOMAIN E : Governed(E, u) =>
           u \in DOMAIN C /\ Governed(C, u) /\ Feet(E, u) = Feet(C, u) /\ Feet(C, u) \subseteq DOMAIN C,
         \A n \in DOMAIN N : (n \in DOMAIN M /\ N[n] = M[n]) \/ N[n] \notin DOMAIN C
  PROVE  Clear(N, E)
BY DEF Clear

LEMMA SparesKnown ==
  ASSUME Clear(memory, chain.contracts), NEW n \in DOMAIN memory
  PROVE  Spares(chain.contracts, {memory[n]})
BY DEF Clear, Spares

LEMMA SparesNone == \A C : Spares(C, {})
BY DEF Spares

LEMMA KnownUngoverned ==
  ASSUME Clear(memory, chain.contracts), NEW n \in DOMAIN memory,
         memory[n] \in DOMAIN chain.contracts
  PROVE  ~Governed(chain.contracts, memory[n])
BY DEF Clear, Feet

(* The names of DIGG are of contracts. *)
LEMMA DiggNames ==
  /\ Tok[1] = "digg" /\ Pol[1] = "digg" /\ Orc[1] = "digg" /\ Mkt[1] = "digg" /\ Cpi[1] = "digg"
  /\ Cst[1] = "digg" /\ "digg" \notin Outside
  /\ Tok # Pol /\ Tok # Orc /\ Tok # Cpi /\ Pol # Orc /\ Pol # Cpi /\ Orc # Cpi
  /\ Mkt \notin {Tok, Pol, Orc, Cpi} /\ Cst \notin {Tok, Pol, Orc, Cpi}
BY DEF Tok, Pol, Orc, Mkt, Cpi, Cst, D!Digg, D!Name, Outside

LEMMA KnownDigg ==
  ASSUME DeskInv, NEW n \in DOMAIN memory, n[1] = "digg"
  PROVE  memory[n] \in DOMAIN chain.contracts
<1>1. memory[n] \in 0..Len(chain.contracts) /\ memory[n] # 0
  BY DiggNames DEF DeskInv, Addresses
<1>2. Len(chain.contracts) \in Nat /\ DOMAIN chain.contracts = 1..Len(chain.contracts)
  BY ShapedFacts DEF DeskInv, Ledger
<1> QED BY <1>1, <1>2

(* One step of the script of DIGG *)

LEMMA UnchangedReady ==
  ASSUME DeskInv, AllReady(chain.contracts, chain.time), chain' = chain
  PROVE  AllReady(chain'.contracts, chain'.time)
BY SMTT(30)

LEMMA DeployStage ==
  ASSUME DeskInv, D!Step, ~D!Begin, NEW i, i = Head(todo), i.op = "deploy",
         "monetaryPolicy" \notin DOMAIN i.links,
         AllReady(chain.contracts, chain.time), Clear(memory, chain.contracts)
  PROVE  /\ AllReady(chain'.contracts, chain'.time)
         /\ \/ todo' = <<>>
            \/ /\ todo' = Tail(todo) /\ Clear(memory', chain'.contracts) /\ chain'.time = chain.time
               /\ DOMAIN memory' = DOMAIN memory \cup {i.name}
               /\ \A n \in DOMAIN memory \ {i.name} : memory'[n] = memory[n]
               /\ DOMAIN chain'.contracts[memory'[i.name]].links = DOMAIN i.links
               /\ \A f \in DOMAIN i.links :
                    chain'.contracts[memory'[i.name]].links[f] = memory[i.links[f]]
               /\ \A k \in DOMAIN chain.contracts : chain'.contracts[k] = chain.contracts[k]
<1> DEFINE C == chain.contracts
           E == chain'.contracts
           a == Len(C) + 1
           Recalls == /\ DOMAIN memory' = DOMAIN memory \cup {i.name} /\ memory'[i.name] = a
                      /\ \A n \in DOMAIN memory \ {i.name} : memory'[n] = memory[n]
<1>0. Ledger(chain)
  BY DEF DeskInv
<1>1. \/ todo' = <<>> /\ chain' = chain
      \/ /\ \/ todo' = <<>>
            \/ todo' = Tail(todo) /\ Recalls
         /\ DOMAIN E = DOMAIN C \cup {a} /\ chain'.time = chain.time
         /\ \A k \in DOMAIN C : E[k] = C[k]
         /\ DOMAIN E[a].links = DOMAIN i.links
         /\ \A f \in DOMAIN i.links : E[a].links[f] = memory[i.links[f]]
  BY <1>0, DeployDoes
<1>2. CASE todo' = <<>> /\ chain' = chain
  BY <1>2, UnchangedReady
<1>3. CASE /\ \/ todo' = <<>>
              \/ todo' = Tail(todo) /\ Recalls
           /\ DOMAIN E = DOMAIN C \cup {a} /\ chain'.time = chain.time
           /\ \A k \in DOMAIN C : E[k] = C[k]
           /\ DOMAIN E[a].links = DOMAIN i.links
         /\ \A f \in DOMAIN i.links : E[a].links[f] = memory[i.links[f]]
  <2>1. a \notin DOMAIN C /\ chain.time \in Nat
    <3>1. Shaped(C) /\ chain.time \in Nat
      BY <1>0 DEF Ledger
    <3>2. Len(C) \in Nat /\ DOMAIN C = 1..Len(C)
      BY <3>1, ShapedFacts
    <3> QED BY <3>1, <3>2
  <2>2. Same(C, E, {})
    <3>1. ~Governed(E, a)
      BY <1>3 DEF Governed
    <3> HIDE DEF C, E, a
    <3> QED BY <1>3, <3>1 DEF Same, Alike
  <2>3. Spares(C, {})
    BY SparesNone
  <2>4. /\ AllReady(E, chain'.time)
        /\ \A u \in DOMAIN E : Governed(E, u) =>
             u \in DOMAIN C /\ Governed(C, u) /\ Feet(E, u) = Feet(C, u) /\ Feet(C, u) \subseteq DOMAIN C
    <3> HIDE DEF E
    <3> QED BY <1>3, <2>1, <2>2, <2>3, StillReady
  <2>5. CASE todo' = Tail(todo) /\ Recalls
    <3>4. \A n \in DOMAIN memory' :
            (n \in DOMAIN memory /\ memory'[n] = memory[n]) \/ memory'[n] \notin DOMAIN C
      BY <2>1, <2>5
    <3>5. Clear(memory', E)
      <4> HIDE DEF E
      <4> QED BY SMTT(30), <2>4, <3>4, ClearStays
    <3> QED BY <1>3, <2>4, <2>5, <3>5
  <2> QED BY <1>3, <2>4, <2>5
<1> QED BY ZenonT(30), <1>1, <1>2, <1>3

LEMMA LinkStage ==
  ASSUME DeskInv, D!Step, ~D!Begin, NEW i, i = Head(todo), i.op = "link",
         i.on \in DOMAIN memory, i.on[1] = "digg", i.field # "monetaryPolicy",
         AllReady(chain.contracts, chain.time), Clear(memory, chain.contracts)
  PROVE  /\ AllReady(chain'.contracts, chain'.time)
         /\ \/ todo' = <<>>
            \/ /\ todo' = Tail(todo) /\ Clear(memory', chain'.contracts) /\ chain'.time = chain.time
               /\ memory' = memory
               /\ DOMAIN chain'.contracts = DOMAIN chain.contracts
               /\ \A k \in DOMAIN chain.contracts \ {memory[i.on]} : chain'.contracts[k] = chain.contracts[k]
               /\ chain'.contracts[memory[i.on]].pushed = chain.contracts[memory[i.on]].pushed
               /\ DOMAIN chain'.contracts[memory[i.on]].links
                    = DOMAIN chain.contracts[memory[i.on]].links \cup {i.field}
               /\ chain'.contracts[memory[i.on]].links[i.field] = memory[i.to]
               /\ \A f \in DOMAIN chain.contracts[memory[i.on]].links \ {i.field} :
                    chain'.contracts[memory[i.on]].links[f] = chain.contracts[memory[i.on]].links[f]
<1> DEFINE C == chain.contracts
           E == chain'.contracts
<1>0. Ledger(chain)
  BY DEF DeskInv
<1>a. PICK a : a = memory[i.on]
  OBVIOUS
<1>b. a \in DOMAIN C
  BY <1>a, KnownDigg
<1>1. \/ todo' = <<>> /\ chain' = chain
      \/ /\ todo' = <<>> \/ (todo' = Tail(todo) /\ memory' = memory)
         /\ DOMAIN E = DOMAIN C /\ chain'.time = chain.time
         /\ \A k \in DOMAIN C \ {a} : E[k] = C[k]
         /\ \A f \in Fields \ {"links"} : E[a][f] = C[a][f]
         /\ DOMAIN E[a].links = DOMAIN C[a].links \cup {i.field}
         /\ E[a].links[i.field] = memory[i.to]
         /\ \A f \in DOMAIN C[a].links \ {i.field} : E[a].links[f] = C[a].links[f]
  BY <1>0, <1>a, <1>b, LinkDoes
<1>2. CASE todo' = <<>> /\ chain' = chain
  BY SMTT(30), <1>2, UnchangedReady
<1>3. CASE /\ todo' = <<>> \/ (todo' = Tail(todo) /\ memory' = memory)
           /\ DOMAIN E = DOMAIN C /\ chain'.time = chain.time
           /\ \A k \in DOMAIN C \ {a} : E[k] = C[k]
           /\ \A f \in Fields \ {"links"} : E[a][f] = C[a][f]
           /\ DOMAIN E[a].links = DOMAIN C[a].links \cup {i.field}
         /\ E[a].links[i.field] = memory[i.to]
         /\ \A f \in DOMAIN C[a].links \ {i.field} : E[a].links[f] = C[a].links[f]
  <2>1. /\ DOMAIN E[a].links = DOMAIN C[a].links \cup {i.field}
        /\ E[a].links[i.field] = memory[i.to]
        /\ \A f \in DOMAIN C[a].links \ {i.field} : E[a].links[f] = C[a].links[f]
    BY <1>3
  <2>2. E[a].pushed = C[a].pushed
    BY <1>3 DEF Fields
  <2>3. ~Governed(C, a)
    BY <1>a, <1>b, KnownUngoverned
  <2>4. ~Governed(E, a)
    BY <2>1, <2>3 DEF Governed
  <2>5. Same(C, E, {a})
    <3> HIDE DEF C, E
    <3> QED BY <1>3, <2>4 DEF Same, Alike
  <2>6. Spares(C, {a})
    BY <1>a, SparesKnown
  <2>7. chain.time \in Nat
    BY <1>0 DEF Ledger
  <2>8. /\ AllReady(E, chain'.time)
        /\ \A u \in DOMAIN E : Governed(E, u) =>
             u \in DOMAIN C /\ Governed(C, u) /\ Feet(E, u) = Feet(C, u) /\ Feet(C, u) \subseteq DOMAIN C
    <3> HIDE DEF E
    <3> QED BY SMTT(30), <1>3, <2>5, <2>6, <2>7, StillReady
  <2>9. CASE todo' = Tail(todo) /\ memory' = memory
    <3>1. Clear(memory', E)
      <4> HIDE DEF E
      <4> QED BY <2>8, <2>9, ClearStays
    <3> QED BY ZenonT(30), <1>a, <1>3, <2>1, <2>2, <2>8, <2>9, <3>1
  <2> QED BY <1>3, <2>8, <2>9
<1> QED BY ZenonT(30), <1>1, <1>2, <1>3

LEMMA PushStage ==
  ASSUME DeskInv, D!Step, ~D!Begin, NEW i, i = Head(todo), i.op = "updateAndPush",
         Cpi \in DOMAIN memory,
         AllReady(chain.contracts, chain.time), Clear(memory, chain.contracts)
  PROVE  /\ AllReady(chain'.contracts, chain'.time)
         /\ \/ todo' = <<>>
            \/ /\ todo' = Tail(todo) /\ Clear(memory', chain'.contracts) /\ chain'.time = chain.time
               /\ memory' = memory
               /\ \A k \in DOMAIN chain.contracts : chain'.contracts[k].links = chain.contracts[k].links
               /\ chain'.contracts[memory[Cpi]].pushed = chain.time
<1> DEFINE C == chain.contracts
           E == chain'.contracts
<1>0. Ledger(chain)
  BY DEF DeskInv
<1>a. PICK a : a = memory[Cpi]
  OBVIOUS
<1>b. a \in DOMAIN C
  BY <1>a, KnownDigg, DiggNames
<1>1. \/ todo' = <<>> /\ chain' = chain
      \/ /\ todo' = <<>> \/ (todo' = Tail(todo) /\ memory' = memory)
         /\ DOMAIN E = DOMAIN C /\ chain'.time = chain.time
         /\ \A k \in DOMAIN C \ {a} : E[k] = C[k]
         /\ \A f \in Fields \ {"pushed"} : E[a][f] = C[a][f]
         /\ E[a].pushed = chain.time
  BY <1>0, <1>a, <1>b, PushDoes DEF Cpi
<1>2. CASE todo' = <<>> /\ chain' = chain
  BY <1>2, UnchangedReady
<1>3. CASE /\ todo' = <<>> \/ (todo' = Tail(todo) /\ memory' = memory)
           /\ DOMAIN E = DOMAIN C /\ chain'.time = chain.time
           /\ \A k \in DOMAIN C \ {a} : E[k] = C[k]
           /\ \A f \in Fields \ {"pushed"} : E[a][f] = C[a][f]
           /\ E[a].pushed = chain.time
  <2>2. E[a].links = C[a].links
    BY <1>3 DEF Fields
  <2>3. ~Governed(C, a)
    BY <1>a, <1>b, KnownUngoverned
  <2>4. ~Governed(E, a)
    BY <2>2, <2>3 DEF Governed
  <2>5. Same(C, E, {a})
    <3> HIDE DEF C, E
    <3> QED BY <1>3, <2>4 DEF Same, Alike
  <2>6. Spares(C, {a})
    BY <1>a, SparesKnown
  <2>7. chain.time \in Nat
    BY <1>0 DEF Ledger
  <2>8. /\ AllReady(E, chain'.time)
        /\ \A u \in DOMAIN E : Governed(E, u) =>
             u \in DOMAIN C /\ Governed(C, u) /\ Feet(E, u) = Feet(C, u) /\ Feet(C, u) \subseteq DOMAIN C
    <3> HIDE DEF E
    <3> QED BY <1>3, <2>5, <2>6, <2>7, StillReady
  <2>9. CASE todo' = Tail(todo) /\ memory' = memory
    <3>1. Clear(memory', E)
      <4> HIDE DEF E
      <4> QED BY <2>8, <2>9, ClearStays
    <3>2. \A k \in DOMAIN C : E[k].links = C[k].links
      BY <1>3, <2>2
    <3> QED BY <1>a, <1>3, <2>8, <2>9, <3>1, <3>2
  <2> QED BY <1>3, <2>8, <2>9
<1> QED BY <1>1, <1>2, <1>3

LEMMA SleepStage ==
  ASSUME DeskInv, D!Step, ~D!Begin, NEW i, i = Head(todo), i.op = "sleep",
         AllReady(chain.contracts, chain.time), Clear(memory, chain.contracts)
  PROVE  /\ AllReady(chain'.contracts, chain'.time)
         /\ todo' = Tail(todo) /\ memory' = memory /\ chain'.contracts = chain.contracts
         /\ chain'.time = chain.time + ReportDelay
<1>1. D!Sleep
  BY ActionOf
<1>2. /\ todo' = Tail(todo) /\ memory' = memory
      /\ chain' = [chain EXCEPT !.time = @ + ReportDelay]
  BY <1>1 DEF D!Sleep, D!Goes
<1>3. chain'.contracts = chain.contracts /\ chain'.time = chain.time + ReportDelay
  BY <1>2 DEF DeskInv, Ledger
<1>4. chain.time \in Nat /\ ReportDelay \in Nat
  BY DeploymentAssumption DEF DeskInv, Ledger
<1> DEFINE C == chain.contracts
           t == chain.time
           T == chain'.time
<1>5. Same(C, C, {}) /\ Spares(C, {})
  BY SparesNone DEF Same, Alike
<1>6. t \in Nat /\ T \in Nat /\ T >= t /\ AllReady(C, t)
  BY <1>3, <1>4
<1>7. AllReady(C, T)
  <2> HIDE DEF C, t, T
  <2> QED BY <1>5, <1>6, StillReady
<1> QED BY <1>2, <1>3, <1>7

LEMMA PlainStage ==
  ASSUME DeskInv, D!Step, ~D!Begin, NEW i, i = Head(todo), Plain(i), Fine(i),
         AllReady(chain.contracts, chain.time)
  PROVE  /\ AllReady(chain'.contracts, chain'.time)
         /\ todo' \in {<<>>, Tail(todo)}
         /\ Clear(memory, chain.contracts) =>
              todo' = <<>> \/ (todo' = Tail(todo) /\ Clear(memory', chain'.contracts))
<1> DEFINE C == chain.contracts
           E == chain'.contracts
<1>1. Proceeds(i) /\ Effects(i) /\ Ledger(chain) /\ Shaped(C)
  BY StepDoes DEF DeskInv, Ledger
<1>2. chain.time \in Nat /\ chain'.time \in Nat /\ chain'.time >= chain.time
  BY <1>1, LedgerStays DEF Ledger
<1>3. Same(C, E, {})
  <2>1. CASE E = C
    BY <2>1 DEF Same, Alike
  <2>2. CASE Adds(C, E, i)
    <3>1. PICK r : E = Append(C, r) /\ DOMAIN r = Fields /\ DOMAIN r.links = {}
      BY <2>2 DEF Adds, Plain
    <3>2. /\ \A j \in DOMAIN C : E[j] = C[j]
          /\ DOMAIN E = DOMAIN C \cup {Len(C) + 1} /\ E[Len(C) + 1] = r
      BY <1>1, <3>1, AppendShaped
    <3>3. ~Governed(E, Len(C) + 1)
      BY <3>1, <3>2 DEF Governed
    <3> HIDE DEF C, E
    <3> QED BY <3>2, <3>3 DEF Same, Alike
  <2>3. CASE Writes(C, E, memory[Target(i)], Written(i.op))
    <3>1. {"links", "pushed"} \subseteq Fields \ Written(i.op)
      BY DEF Fields, Written, Plain
    <3>2. DOMAIN E = DOMAIN C /\ \A k \in DOMAIN C : \A f \in Fields \ Written(i.op) : E[k][f] = C[k][f]
      BY <2>3 DEF Writes
    <3>3. \A k \in DOMAIN C : E[k].links = C[k].links /\ E[k].pushed = C[k].pushed
      BY <3>1, <3>2
    <3> HIDE DEF C, E
    <3> QED BY <3>2, <3>3 DEF Same, Alike
  <2> QED BY <1>1, <2>1, <2>2, <2>3 DEF Effects
<1>4. Spares(C, {})
  BY SparesNone
<1>5. /\ AllReady(E, chain'.time)
      /\ \A u \in DOMAIN E : Governed(E, u) =>
           u \in DOMAIN C /\ Governed(C, u) /\ Feet(E, u) = Feet(C, u) /\ Feet(C, u) \subseteq DOMAIN C
  <2> HIDE DEF E
  <2> QED BY <1>2, <1>3, <1>4, StillReady
<1>6. ASSUME todo' = Tail(todo), memory' = Recalled(i), Clear(memory, C)
      PROVE  Clear(memory', E)
  <2>1. Len(C) \in Nat /\ DOMAIN C = 1..Len(C)
    BY <1>1, ShapedFacts
  <2>2. \A n \in DOMAIN memory' :
          (n \in DOMAIN memory /\ memory'[n] = memory[n]) \/ memory'[n] \notin DOMAIN C
    <3>1. CASE i.op \in CreateOps
      <4>1. PICK f : f = [n \in {NameOf(i)} |-> Len(C) + 1]
        OBVIOUS
      <4>2. memory' = D!Over(f, memory) /\ DOMAIN f = {NameOf(i)} /\ f[NameOf(i)] = Len(C) + 1
        BY <1>6, <3>1, <4>1, RecalledFacts
      <4>3. /\ DOMAIN D!Over(f, memory) = DOMAIN f \cup DOMAIN memory
            /\ \A x \in DOMAIN f : D!Over(f, memory)[x] = f[x]
            /\ \A x \in DOMAIN memory \ DOMAIN f : D!Over(f, memory)[x] = memory[x]
        BY OverFacts
      <4>4. Len(C) + 1 \notin DOMAIN C
        BY <2>1
      <4> QED BY <4>2, <4>3, <4>4
    <3>2. CASE i.op = "know"
      <4>1. PICK f : f = [n \in i.names |-> 0]
        OBVIOUS
      <4>2. memory' = D!Over(f, Forgotten(i)) /\ DOMAIN f = i.names /\ \A n \in i.names : f[n] = 0
        BY <1>6, <3>2, <4>1, RecalledFacts
      <4>3. /\ DOMAIN D!Over(f, Forgotten(i)) = DOMAIN f \cup DOMAIN Forgotten(i)
            /\ \A x \in DOMAIN f : D!Over(f, Forgotten(i))[x] = f[x]
            /\ \A x \in DOMAIN Forgotten(i) \ DOMAIN f : D!Over(f, Forgotten(i))[x] = Forgotten(i)[x]
        BY ZenonT(30), OverFacts
      <4>4. 0 \notin DOMAIN C
        BY <2>1
      <4>5. \A x \in DOMAIN Forgotten(i) : x \in DOMAIN memory /\ Forgotten(i)[x] = memory[x]
        BY DEF Forgotten
      <4> QED BY <4>2, <4>3, <4>4, <4>5
    <3>3. CASE i.op \notin {"know"} \cup CreateOps
      <4>1. memory' = memory
        BY <1>6, <3>3, RecalledFacts DEF Plain
      <4> QED BY <4>1
    <3> QED BY <3>1, <3>2, <3>3
  <2> HIDE DEF E
  <2> QED BY <1>5, <1>6, <2>2, ClearStays
<1>7. todo' = <<>> \/ (todo' = Tail(todo) /\ memory' = Recalled(i))
  BY <1>1 DEF Proceeds
<1> QED BY <1>5, <1>6, <1>7

-----------------------------------------------------------------------------
(* What the process has done so far                                        *)

LinksOf(n) == chain.contracts[memory[n]].links
Reported == chain.contracts[memory[Cpi]].pushed

TokenMade == Tok \in DOMAIN memory
PolicyMade ==
  TokenMade /\ Pol \in DOMAIN memory /\ "token" \in DOMAIN LinksOf(Pol)
    /\ LinksOf(Pol).token = memory[Tok]
OrchestratorMade ==
  PolicyMade /\ Orc \in DOMAIN memory /\ "policy" \in DOMAIN LinksOf(Orc)
    /\ LinksOf(Orc).policy = memory[Pol]
CpiMade == OrchestratorMade /\ Cpi \in DOMAIN memory
CpiReported == CpiMade /\ Reported \in Nat \ {0} /\ Reported <= chain.time
CpiRipe == CpiMade /\ Reported \in Nat \ {0} /\ Reported + ReportDelay <= chain.time
CpiLinked ==
  CpiRipe /\ "cpiOracle" \in DOMAIN LinksOf(Pol) /\ LinksOf(Pol).cpiOracle = memory[Cpi]
MarketLinked == CpiLinked /\ "marketOracle" \in DOMAIN LinksOf(Pol)
OrchestratorLinked ==
  MarketLinked /\ "orchestrator" \in DOMAIN LinksOf(Pol)
    /\ LinksOf(Pol).orchestrator = memory[Orc]

(* What a deployment and a link keep of it *)
Deployed(n) ==
  /\ DOMAIN memory' = DOMAIN memory \cup {n}
  /\ \A m \in DOMAIN memory \ {n} : memory'[m] = memory[m]
  /\ \A k \in DOMAIN chain.contracts : chain'.contracts[k] = chain.contracts[k]

Linking(on, field, to) ==
  LET a == memory[on]
      C == chain.contracts
      E == chain'.contracts
  IN  /\ memory' = memory /\ chain'.time = chain.time
      /\ \A k \in DOMAIN C \ {a} : E[k] = C[k]
      /\ E[a].pushed = C[a].pushed
      /\ DOMAIN E[a].links = DOMAIN C[a].links \cup {field}
      /\ E[a].links[field] = memory[to]
      /\ \A f \in DOMAIN C[a].links \ {field} : E[a].links[f] = C[a].links[f]

LEMMA KeptByDeployed ==
  ASSUME DeskInv, NEW n, Deployed(n), NEW x \in DOMAIN memory, x # n, x[1] = "digg"
  PROVE  x \in DOMAIN memory' /\ memory'[x] = memory[x] /\ LinksOf(x)' = LinksOf(x)
<1>1. x \in DOMAIN memory' /\ memory'[x] = memory[x]
  BY DEF Deployed
<1>2. chain'.contracts[memory[x]] = chain.contracts[memory[x]]
  BY KnownDigg DEF Deployed
<1> QED BY <1>1, <1>2 DEF LinksOf

LEMMA DeployedKeeps ==
  ASSUME DeskInv, NEW n, Deployed(n), n # Tok
  PROVE  /\ TokenMade => TokenMade'
         /\ PolicyMade /\ n # Pol => PolicyMade'
         /\ OrchestratorMade /\ n # Pol /\ n # Orc => OrchestratorMade'
         /\ CpiMade /\ n # Pol /\ n # Orc => CpiMade'
<1>1. TokenMade => TokenMade' /\ memory'[Tok] = memory[Tok]
  BY DEF TokenMade, Deployed
<1>2. PolicyMade /\ n # Pol => PolicyMade' /\ memory'[Pol] = memory[Pol]
  <2> SUFFICES ASSUME PolicyMade, n # Pol PROVE PolicyMade' /\ memory'[Pol] = memory[Pol]
    OBVIOUS
  <2>1. Pol \in DOMAIN memory' /\ memory'[Pol] = memory[Pol] /\ LinksOf(Pol)' = LinksOf(Pol)
    BY KeptByDeployed, DiggNames DEF PolicyMade
  <2> QED BY <1>1, <2>1 DEF PolicyMade
<1>3. OrchestratorMade /\ n # Pol /\ n # Orc => OrchestratorMade'
  <2> SUFFICES ASSUME OrchestratorMade, n # Pol, n # Orc PROVE OrchestratorMade'
    OBVIOUS
  <2>1. Orc \in DOMAIN memory' /\ memory'[Orc] = memory[Orc] /\ LinksOf(Orc)' = LinksOf(Orc)
    BY KeptByDeployed, DiggNames DEF OrchestratorMade
  <2> QED BY <1>2, <2>1 DEF OrchestratorMade
<1>4. CpiMade /\ n # Pol /\ n # Orc => CpiMade'
  BY <1>3 DEF CpiMade, Deployed
<1> QED BY <1>1, <1>2, <1>3, <1>4

LEMMA ApartDigg ==
  ASSUME DeskInv, NEW x \in DOMAIN memory, x[1] = "digg", NEW y \in DOMAIN memory, x # y
  PROVE  memory[x] # memory[y]
<1>1. memory[x] # 0
  BY DiggNames DEF DeskInv, Addresses
<1> QED BY <1>1 DEF DeskInv, Apart

LEMMA LinkingKeeps ==
  ASSUME DeskInv, NEW on \in DOMAIN memory, on[1] = "digg", NEW field, NEW to, Linking(on, field, to),
         on = Pol => field # "token", on # Orc
  PROVE  /\ CpiMade => CpiMade'
         /\ CpiRipe => CpiRipe'
         /\ CpiLinked /\ field # "cpiOracle" => CpiLinked'
         /\ MarketLinked /\ field # "cpiOracle" => MarketLinked'
         /\ OrchestratorLinked /\ field \notin {"cpiOracle", "orchestrator"} => OrchestratorLinked'
<1>1. memory' = memory /\ chain'.time = chain.time
  BY DEF Linking
<1>2. ASSUME NEW x \in DOMAIN memory, x[1] = "digg", x # on PROVE LinksOf(x)' = LinksOf(x)
  <2>1. memory[x] \in DOMAIN chain.contracts \ {memory[on]}
    BY <1>2, KnownDigg, ApartDigg
  <2> QED BY <1>1, <2>1 DEF Linking, LinksOf
<1>3. ASSUME NEW x \in DOMAIN memory, x[1] = "digg", NEW f \in DOMAIN LinksOf(x), x # on \/ f # field
      PROVE  f \in DOMAIN LinksOf(x)' /\ LinksOf(x)'[f] = LinksOf(x)[f]
  <2>1. CASE x # on
    BY <1>2, <1>3, <2>1
  <2>2. CASE x = on
    <3>1. PICK g, h : g = LinksOf(on) /\ h = LinksOf(on)'
      OBVIOUS
    <3>2. DOMAIN h = DOMAIN g \cup {field} /\ \A e \in DOMAIN g \ {field} : h[e] = g[e]
      BY <1>1, <3>1 DEF Linking, LinksOf
    <3>3. f \in DOMAIN h /\ h[f] = g[f]
      BY <1>3, <2>2, <3>1, <3>2
    <3> QED BY <2>2, <3>1, <3>3
  <2> QED BY <2>1, <2>2
<1>4. Cpi \in DOMAIN memory => Reported' = Reported
  <2>1. CASE Cpi = on
    BY <1>1, <2>1 DEF Reported, Linking
  <2>2. CASE Cpi # on
    <3>1. Cpi \in DOMAIN memory => memory[Cpi] \in DOMAIN chain.contracts \ {memory[on]}
      BY <2>2, KnownDigg, ApartDigg, DiggNames
    <3> QED BY <1>1, <3>1 DEF Linking, Reported
  <2> QED BY <2>1, <2>2
<1>5. CpiMade => CpiMade'
  <2> SUFFICES ASSUME CpiMade PROVE CpiMade'
    OBVIOUS
  <2>1. /\ "token" \in DOMAIN LinksOf(Pol)' /\ LinksOf(Pol)'["token"] = LinksOf(Pol)["token"]
        /\ "policy" \in DOMAIN LinksOf(Orc)' /\ LinksOf(Orc)'["policy"] = LinksOf(Orc)["policy"]
    BY <1>3, DiggNames DEF CpiMade, OrchestratorMade, PolicyMade
  <2> QED BY <1>1, <2>1 DEF CpiMade, OrchestratorMade, PolicyMade, TokenMade
<1>6. CpiRipe => CpiRipe'
  BY <1>1, <1>4, <1>5 DEF CpiRipe, CpiMade
<1>7. CpiLinked /\ field # "cpiOracle" => CpiLinked'
  <2> SUFFICES ASSUME CpiLinked, field # "cpiOracle" PROVE CpiLinked'
    OBVIOUS
  <2>1. "cpiOracle" \in DOMAIN LinksOf(Pol)' /\ LinksOf(Pol)'["cpiOracle"] = LinksOf(Pol)["cpiOracle"]
    BY <1>3, DiggNames DEF CpiLinked, CpiRipe, CpiMade, OrchestratorMade, PolicyMade
  <2> QED BY <1>1, <1>6, <2>1 DEF CpiLinked
<1>8. MarketLinked /\ field # "cpiOracle" => MarketLinked'
  <2> SUFFICES ASSUME MarketLinked, field # "cpiOracle" PROVE MarketLinked'
    OBVIOUS
  <2>1. Pol \in DOMAIN memory /\ "marketOracle" \in DOMAIN LinksOf(Pol)
    BY DEF MarketLinked, CpiLinked, CpiRipe, CpiMade, OrchestratorMade, PolicyMade
  <2>2. "marketOracle" \in DOMAIN LinksOf(Pol)'
    <3>1. CASE on # Pol
      BY <1>2, <2>1, <3>1, DiggNames
    <3>2. CASE on = Pol
      BY <1>1, <2>1, <3>2 DEF Linking, LinksOf
    <3> QED BY <3>1, <3>2
  <2> QED BY <1>7, <2>2 DEF MarketLinked
<1>9. OrchestratorLinked /\ field \notin {"cpiOracle", "orchestrator"} => OrchestratorLinked'
  <2> SUFFICES ASSUME OrchestratorLinked, field \notin {"cpiOracle", "orchestrator"}
               PROVE  OrchestratorLinked'
    OBVIOUS
  <2>1. /\ "orchestrator" \in DOMAIN LinksOf(Pol)'
        /\ LinksOf(Pol)'["orchestrator"] = LinksOf(Pol)["orchestrator"]
    BY <1>3, DiggNames
       DEF OrchestratorLinked, MarketLinked, CpiLinked, CpiRipe, CpiMade, OrchestratorMade, PolicyMade
  <2> QED BY <1>1, <1>8, <2>1 DEF OrchestratorLinked
<1> QED BY <1>5, <1>6, <1>7, <1>8, <1>9

(* How far it has come *)
Placed ==
  \/ todo = Rest1
  \/ todo = Rest2 /\ TokenMade
  \/ todo = Rest3 /\ PolicyMade
  \/ todo \in {Rest4, Rest5} /\ OrchestratorMade
  \/ todo \in {Rest6, Rest7, Rest8, Rest9, Rest10} /\ CpiMade
  \/ todo = Rest11 /\ CpiReported
  \/ todo = Rest12 /\ CpiRipe
  \/ todo = Rest13 /\ CpiLinked
  \/ todo = Rest14 /\ MarketLinked
  \/ todo \in {Rest15, Rest16} /\ OrchestratorLinked

Knowing == AllReady(chain.contracts, chain.time) /\ Clear(memory, chain.contracts)
KnowsOn == Clear(memory', chain'.contracts)
Going == AllReady(chain'.contracts, chain'.time)

LEMMA DeploysOn ==
  ASSUME DeskInv, D!Step, ~D!Begin, Knowing, NEW i, i = Head(todo), i.op = "deploy",
         "monetaryPolicy" \notin DOMAIN i.links
  PROVE  /\ Going
         /\ \/ todo' = <<>>
            \/ /\ todo' = Tail(todo) /\ KnowsOn /\ Deployed(i.name)
               /\ DOMAIN chain'.contracts[memory'[i.name]].links = DOMAIN i.links
               /\ \A f \in DOMAIN i.links :
                    chain'.contracts[memory'[i.name]].links[f] = memory[i.links[f]]
BY DeployStage DEF Knowing, Going, KnowsOn, Deployed

LEMMA LinksOn ==
  ASSUME DeskInv, D!Step, ~D!Begin, Knowing, NEW i, i = Head(todo), i.op = "link",
         i.on \in DOMAIN memory, i.on[1] = "digg", i.field # "monetaryPolicy"
  PROVE  Going /\ (todo' = <<>> \/ (todo' = Tail(todo) /\ KnowsOn /\ Linking(i.on, i.field, i.to)))
BY LinkStage DEF Knowing, Going, KnowsOn, Linking

LEMMA From1 ==
  ASSUME DeskInv, D!Step, ~D!Begin, Knowing, todo = Rest1
  PROVE  Going /\ (todo' = <<>> \/ (KnowsOn /\ todo' = Rest2 /\ TokenMade'))
<1>1. PICK i : i = [op |-> "deploy", name |-> Tok, needs |-> {}, owner |-> "deployer", links |-> <<>>]
  OBVIOUS
<1>2. Rest1 = <<i>> \o Rest2
  BY <1>1 DEF Rest1, D!DeployDiggToken, D!New, Tok, Pol, Orc, Mkt, Cpi, Cst
<1>3. i = Head(todo) /\ Tail(todo) = Rest2
  BY <1>2, RestsAreSeqs, ConsParts
<1>4. i.op = "deploy" /\ "monetaryPolicy" \notin DOMAIN i.links /\ i.name = Tok
  BY <1>1
<1>5. /\ Going
      /\ \/ todo' = <<>>
         \/ /\ todo' = Rest2 /\ KnowsOn /\ Deployed(Tok)
            /\ DOMAIN chain'.contracts[memory'[Tok]].links = DOMAIN i.links
            /\ \A f \in DOMAIN i.links : chain'.contracts[memory'[Tok]].links[f] = memory[i.links[f]]
  BY <1>3, <1>4, DeploysOn
<1> QED BY <1>5 DEF TokenMade, Deployed

LEMMA From2 ==
  ASSUME DeskInv, D!Step, ~D!Begin, Knowing, todo = Rest2, TokenMade
  PROVE  Going /\ (todo' = <<>> \/ (KnowsOn /\ todo' = Rest3 /\ PolicyMade'))
<1>1. PICK i : i = [op |-> "deploy", name |-> Pol, needs |-> {Tok}, owner |-> "deployer", links |-> [token |-> Tok]]
  OBVIOUS
<1>2. Rest2 = <<i>> \o Rest3
  BY <1>1 DEF Rest2, D!DeployDiggPolicy, D!NewLinked, Tok, Pol, Orc, Mkt, Cpi, Cst
<1>3. i = Head(todo) /\ Tail(todo) = Rest3
  BY <1>2, RestsAreSeqs, ConsParts
<1>4. i.op = "deploy" /\ "monetaryPolicy" \notin DOMAIN i.links /\ i.name = Pol
  BY <1>1
<1>5. /\ Going
      /\ \/ todo' = <<>>
         \/ /\ todo' = Rest3 /\ KnowsOn /\ Deployed(Pol)
            /\ DOMAIN chain'.contracts[memory'[Pol]].links = DOMAIN i.links
            /\ \A f \in DOMAIN i.links : chain'.contracts[memory'[Pol]].links[f] = memory[i.links[f]]
  BY <1>3, <1>4, DeploysOn
<1>6. CASE todo' = Rest3 /\ KnowsOn /\ Deployed(Pol)
            /\ DOMAIN chain'.contracts[memory'[Pol]].links = DOMAIN i.links
            /\ \A f \in DOMAIN i.links : chain'.contracts[memory'[Pol]].links[f] = memory[i.links[f]]
  <2>1. "token" \in DOMAIN i.links /\ i.links["token"] = Tok
    BY <1>1
  <2>2. "token" \in DOMAIN LinksOf(Pol)' /\ LinksOf(Pol)'["token"] = memory[Tok]
    BY <1>6, <2>1 DEF LinksOf
  <2>3. TokenMade' /\ memory'[Tok] = memory[Tok] /\ Pol \in DOMAIN memory'
    BY <1>6, DeployedKeeps, DiggNames DEF Deployed, PolicyMade, TokenMade
  <2>4. PolicyMade'
    BY <2>2, <2>3 DEF PolicyMade
  <2> QED BY <1>5, <1>6, <2>4
<1> QED BY <1>5, <1>6

LEMMA From3 ==
  ASSUME DeskInv, D!Step, ~D!Begin, Knowing, todo = Rest3, PolicyMade
  PROVE  Going /\ (todo' = <<>> \/ (KnowsOn /\ todo' = Rest4 /\ OrchestratorMade'))
<1>1. PICK i : i = [op |-> "deploy", name |-> Orc, needs |-> {Pol}, owner |-> "deployer", links |-> [policy |-> Pol]]
  OBVIOUS
<1>2. Rest3 = <<i>> \o Rest4
  BY <1>1 DEF Rest3, D!DeployOrchestrator, D!NewLinked, Tok, Pol, Orc, Mkt, Cpi, Cst
<1>3. i = Head(todo) /\ Tail(todo) = Rest4
  BY <1>2, RestsAreSeqs, ConsParts
<1>4. i.op = "deploy" /\ "monetaryPolicy" \notin DOMAIN i.links /\ i.name = Orc
  BY <1>1
<1>5. /\ Going
      /\ \/ todo' = <<>>
         \/ /\ todo' = Rest4 /\ KnowsOn /\ Deployed(Orc)
            /\ DOMAIN chain'.contracts[memory'[Orc]].links = DOMAIN i.links
            /\ \A f \in DOMAIN i.links : chain'.contracts[memory'[Orc]].links[f] = memory[i.links[f]]
  BY <1>3, <1>4, DeploysOn
<1>6. CASE todo' = Rest4 /\ KnowsOn /\ Deployed(Orc)
            /\ DOMAIN chain'.contracts[memory'[Orc]].links = DOMAIN i.links
            /\ \A f \in DOMAIN i.links : chain'.contracts[memory'[Orc]].links[f] = memory[i.links[f]]
  <2>1. "policy" \in DOMAIN i.links /\ i.links["policy"] = Pol
    BY <1>1
  <2>2. "policy" \in DOMAIN LinksOf(Orc)' /\ LinksOf(Orc)'["policy"] = memory[Pol]
    BY <1>6, <2>1 DEF LinksOf
  <2>3. PolicyMade' /\ memory'[Pol] = memory[Pol] /\ Orc \in DOMAIN memory'
    BY <1>6, DeployedKeeps, DiggNames DEF Deployed, PolicyMade, TokenMade
  <2>4. OrchestratorMade'
    BY <2>2, <2>3 DEF OrchestratorMade
  <2> QED BY <1>5, <1>6, <2>4
<1> QED BY <1>5, <1>6

LEMMA From4 ==
  ASSUME DeskInv, D!Step, ~D!Begin, Knowing, todo = Rest4, OrchestratorMade
  PROVE  Going /\ (todo' = <<>> \/ (KnowsOn /\ todo' = Rest5 /\ OrchestratorMade'))
<1>1. PICK i : i = [op |-> "deploy", name |-> Mkt, needs |-> {}, owner |-> "deployer", links |-> <<>>]
  OBVIOUS
<1>2. Rest4 = <<i>> \o Rest5
  BY <1>1 DEF Rest4, D!DeployMarketMedianOracle, D!New, Tok, Pol, Orc, Mkt, Cpi, Cst
<1>3. i = Head(todo) /\ Tail(todo) = Rest5
  BY <1>2, RestsAreSeqs, ConsParts
<1>4. i.op = "deploy" /\ "monetaryPolicy" \notin DOMAIN i.links /\ i.name = Mkt
  BY <1>1
<1>5. /\ Going
      /\ \/ todo' = <<>>
         \/ todo' = Rest5 /\ KnowsOn /\ Deployed(Mkt)
  BY <1>3, <1>4, DeploysOn
<1>6. Mkt \notin {Tok, Pol, Orc}
  BY DiggNames DEF Tok, Pol, Orc, D!Digg, D!Name
<1>7. Deployed(Mkt) => OrchestratorMade'
  BY <1>6, DeployedKeeps
<1> QED BY <1>5, <1>7

LEMMA From5 ==
  ASSUME DeskInv, D!Step, ~D!Begin, Knowing, todo = Rest5, OrchestratorMade
  PROVE  Going /\ (todo' = <<>> \/ (KnowsOn /\ todo' = Rest6 /\ CpiMade'))
<1>1. PICK i : i = [op |-> "deploy", name |-> Cpi, needs |-> {}, owner |-> "deployer", links |-> <<>>]
  OBVIOUS
<1>2. Rest5 = <<i>> \o Rest6
  BY <1>1 DEF Rest5, D!DeployCpiMedianOracle, D!New, Tok, Pol, Orc, Mkt, Cpi, Cst
<1>3. i = Head(todo) /\ Tail(todo) = Rest6
  BY <1>2, RestsAreSeqs, ConsParts
<1>4. i.op = "deploy" /\ "monetaryPolicy" \notin DOMAIN i.links /\ i.name = Cpi
  BY <1>1
<1>5. /\ Going
      /\ \/ todo' = <<>>
         \/ todo' = Rest6 /\ KnowsOn /\ Deployed(Cpi)
  BY <1>3, <1>4, DeploysOn
<1>6. Cpi \notin {Tok, Pol, Orc}
  BY DiggNames DEF Tok, Pol, Orc, D!Digg, D!Name
<1>7. Deployed(Cpi) => CpiMade'
  BY <1>6, DeployedKeeps DEF CpiMade, Deployed
<1> QED BY <1>5, <1>7

LEMMA From6 ==
  ASSUME DeskInv, D!Step, ~D!Begin, Knowing, todo = Rest6, CpiMade
  PROVE  Going /\ (todo' = <<>> \/ (KnowsOn /\ todo' = Rest7 /\ CpiMade'))
<1>1. PICK i : i = [op |-> "deploy", name |-> Cst, needs |-> {Cpi}, owner |-> "deployer", links |-> [medianOracle |-> Cpi]]
  OBVIOUS
<1>2. Rest6 = <<i>> \o Rest7
  BY <1>1 DEF Rest6, D!DeployConstantOracle, D!NewLinked, Tok, Pol, Orc, Mkt, Cpi, Cst
<1>3. i = Head(todo) /\ Tail(todo) = Rest7
  BY <1>2, RestsAreSeqs, ConsParts
<1>4. i.op = "deploy" /\ "monetaryPolicy" \notin DOMAIN i.links /\ i.name = Cst
  BY <1>1
<1>5. /\ Going
      /\ \/ todo' = <<>>
         \/ todo' = Rest7 /\ KnowsOn /\ Deployed(Cst)
  BY <1>3, <1>4, DeploysOn
<1>6. Cst \notin {Tok, Pol, Orc}
  BY DiggNames DEF Tok, Pol, Orc, D!Digg, D!Name
<1>7. Deployed(Cst) => CpiMade'
  BY <1>6, DeployedKeeps
<1> QED BY <1>5, <1>7

LEMMA From7 ==
  ASSUME DeskInv, D!Step, ~D!Begin, Knowing, todo = Rest7, CpiMade
  PROVE  Going /\ (todo' = <<>> \/ (KnowsOn /\ todo' = Rest8 /\ CpiMade'))
<1>1. PICK i : i = [op |-> "deploy", name |-> D!Digg("daoDiggTimelock"), needs |-> {Tok}, owner |-> "dao", links |-> <<>>]
  OBVIOUS
<1>2. Rest7 = <<i>> \o Rest8
  BY <1>1 DEF Rest7, D!DeployDaoDiggTimelock, D!New, Tok, Pol, Orc, Mkt, Cpi, Cst
<1>3. i = Head(todo) /\ Tail(todo) = Rest8
  BY <1>2, RestsAreSeqs, ConsParts
<1>4. i.op = "deploy" /\ "monetaryPolicy" \notin DOMAIN i.links /\ i.name = D!Digg("daoDiggTimelock")
  BY <1>1
<1>5. /\ Going
      /\ \/ todo' = <<>>
         \/ todo' = Rest8 /\ KnowsOn /\ Deployed(D!Digg("daoDiggTimelock"))
  BY <1>3, <1>4, DeploysOn
<1>6. D!Digg("daoDiggTimelock") \notin {Tok, Pol, Orc}
  BY DiggNames DEF Tok, Pol, Orc, D!Digg, D!Name
<1>7. Deployed(D!Digg("daoDiggTimelock")) => CpiMade'
  BY <1>6, DeployedKeeps
<1> QED BY <1>5, <1>7

LEMMA From8 ==
  ASSUME DeskInv, D!Step, ~D!Begin, Knowing, todo = Rest8, CpiMade
  PROVE  Going /\ (todo' = <<>> \/ (KnowsOn /\ todo' = Rest9 /\ CpiMade'))
<1>1. PICK i : i = [op |-> "deploy", name |-> D!Digg("diggTeamVesting"), needs |-> {Tok}, owner |-> "dao", links |-> <<>>]
  OBVIOUS
<1>2. Rest8 = <<i>> \o Rest9
  BY <1>1 DEF Rest8, D!DeployDiggTeamVesting, D!New, Tok, Pol, Orc, Mkt, Cpi, Cst
<1>3. i = Head(todo) /\ Tail(todo) = Rest9
  BY <1>2, RestsAreSeqs, ConsParts
<1>4. i.op = "deploy" /\ "monetaryPolicy" \notin DOMAIN i.links /\ i.name = D!Digg("diggTeamVesting")
  BY <1>1
<1>5. /\ Going
      /\ \/ todo' = <<>>
         \/ todo' = Rest9 /\ KnowsOn /\ Deployed(D!Digg("diggTeamVesting"))
  BY <1>3, <1>4, DeploysOn
<1>6. D!Digg("diggTeamVesting") \notin {Tok, Pol, Orc}
  BY DiggNames DEF Tok, Pol, Orc, D!Digg, D!Name
<1>7. Deployed(D!Digg("diggTeamVesting")) => CpiMade'
  BY <1>6, DeployedKeeps
<1> QED BY <1>5, <1>7

LEMMA From9 ==
  ASSUME DeskInv, D!Step, ~D!Begin, Knowing, todo = Rest9, CpiMade
  PROVE  Going /\ (todo' = <<>> \/ (KnowsOn /\ todo' = Rest10 /\ CpiMade'))
<1>1. PICK i : i = [op |-> "link", on |-> Cpi, field |-> "provider", to |-> Cst]
  OBVIOUS
<1>2. Rest9 = <<i>> \o Rest10
  BY <1>1 DEF Rest9, D!Link
<1>3. i = Head(todo) /\ Tail(todo) = Rest10
  BY <1>2, RestsAreSeqs, ConsParts
<1>4. i.op = "link" /\ i.on = Cpi /\ i.field = "provider" /\ i.to = Cst
  BY <1>1
<1>5. Cpi \in DOMAIN memory /\ Cpi[1] = "digg"
  BY DiggNames DEF OrchestratorLinked, MarketLinked, CpiLinked, CpiRipe, CpiMade, OrchestratorMade,
                   PolicyMade
<1>6. Going /\ (todo' = <<>> \/ (todo' = Rest10 /\ KnowsOn /\ Linking(Cpi, "provider", Cst)))
  BY <1>3, <1>4, <1>5, LinksOn
<1>7. Linking(Cpi, "provider", Cst) => CpiMade'
  BY <1>5, LinkingKeeps, DiggNames
<1> QED BY <1>6, <1>7

LEMMA From10 ==
  ASSUME DeskInv, D!Step, ~D!Begin, Knowing, todo = Rest10, CpiMade, chain.time # 0
  PROVE  Going /\ (todo' = <<>> \/ (KnowsOn /\ todo' = Rest11 /\ CpiReported'))
<1>1. PICK i : i = [op |-> "updateAndPush"]
  OBVIOUS
<1>2. Rest10 = <<i>> \o Rest11
  BY <1>1 DEF Rest10, D!Go
<1>3. i = Head(todo) /\ Tail(todo) = Rest11 /\ i.op = "updateAndPush"
  BY <1>1, <1>2, RestsAreSeqs, ConsParts
<1>4. /\ Going
      /\ \/ todo' = <<>>
         \/ /\ todo' = Rest11 /\ KnowsOn /\ chain'.time = chain.time /\ memory' = memory
            /\ \A k \in DOMAIN chain.contracts : chain'.contracts[k].links = chain.contracts[k].links
            /\ chain'.contracts[memory[Cpi]].pushed = chain.time
  BY <1>3, PushStage DEF Knowing, Going, KnowsOn, CpiMade
<1>5. CASE /\ todo' = Rest11 /\ KnowsOn /\ chain'.time = chain.time /\ memory' = memory
           /\ \A k \in DOMAIN chain.contracts : chain'.contracts[k].links = chain.contracts[k].links
           /\ chain'.contracts[memory[Cpi]].pushed = chain.time
  <2>1. \A x \in {Pol, Orc} : x \in DOMAIN memory => LinksOf(x)' = LinksOf(x)
    BY <1>5, KnownDigg, DiggNames DEF LinksOf
  <2>2. CpiMade'
    BY <1>5, <2>1 DEF CpiMade, OrchestratorMade, PolicyMade, TokenMade
  <2>3. Reported' = chain.time /\ chain.time \in Nat \ {0} /\ chain'.time = chain.time
    BY <1>5 DEF Reported, DeskInv, Ledger
  <2>4. CpiReported'
    BY <2>2, <2>3 DEF CpiReported
  <2> QED BY <1>4, <1>5, <2>4
<1> QED BY <1>4, <1>5

LEMMA From11 ==
  ASSUME DeskInv, D!Step, ~D!Begin, Knowing, todo = Rest11, CpiReported
  PROVE  Going /\ (todo' = <<>> \/ (KnowsOn /\ todo' = Rest12 /\ CpiRipe'))
<1>1. PICK i : i = [op |-> "sleep"]
  OBVIOUS
<1>2. Rest11 = <<i>> \o Rest12
  BY <1>1 DEF Rest11, D!Go
<1>3. i = Head(todo) /\ Tail(todo) = Rest12 /\ i.op = "sleep"
  BY <1>1, <1>2, RestsAreSeqs, ConsParts
<1>4. /\ Going /\ todo' = Rest12 /\ memory' = memory /\ chain'.contracts = chain.contracts
      /\ chain'.time = chain.time + ReportDelay
  BY <1>3, SleepStage DEF Knowing, Going
<1>5. KnowsOn /\ CpiMade' /\ Reported' = Reported
  BY <1>4 DEF Knowing, KnowsOn, CpiReported, CpiMade, OrchestratorMade, PolicyMade, TokenMade,
              LinksOf, Reported
<1>6. Reported \in Nat \ {0} /\ Reported <= chain.time /\ chain.time \in Nat /\ ReportDelay \in Nat
  BY DeploymentAssumption DEF CpiReported, DeskInv, Ledger
<1>7. CpiRipe'
  BY <1>4, <1>5, <1>6 DEF CpiRipe
<1> QED BY <1>4, <1>5, <1>7

LEMMA From12 ==
  ASSUME DeskInv, D!Step, ~D!Begin, Knowing, todo = Rest12, CpiRipe
  PROVE  Going /\ (todo' = <<>> \/ (KnowsOn /\ todo' = Rest13 /\ CpiLinked'))
<1>1. PICK i : i = [op |-> "link", on |-> Pol, field |-> "cpiOracle", to |-> Cpi]
  OBVIOUS
<1>2. Rest12 = <<i>> \o Rest13
  BY <1>1 DEF Rest12, D!Link
<1>3. i = Head(todo) /\ Tail(todo) = Rest13
  BY <1>2, RestsAreSeqs, ConsParts
<1>4. i.op = "link" /\ i.on = Pol /\ i.field = "cpiOracle" /\ i.to = Cpi
  BY <1>1
<1>5. Pol \in DOMAIN memory /\ Pol[1] = "digg"
  BY DiggNames DEF OrchestratorLinked, MarketLinked, CpiLinked, CpiRipe, CpiMade, OrchestratorMade,
                   PolicyMade
<1>6. Going /\ (todo' = <<>> \/ (todo' = Rest13 /\ KnowsOn /\ Linking(Pol, "cpiOracle", Cpi)))
  BY <1>3, <1>4, <1>5, LinksOn
<1>7. Linking(Pol, "cpiOracle", Cpi) => CpiRipe'
  BY <1>5, LinkingKeeps, DiggNames
<1>8. Linking(Pol, "cpiOracle", Cpi) => LinksOf(Pol)'["cpiOracle"] = memory'[Cpi] /\ "cpiOracle" \in DOMAIN LinksOf(Pol)'
  BY DEF Linking, LinksOf
<1> QED BY <1>6, <1>7, <1>8 DEF CpiLinked

LEMMA From13 ==
  ASSUME DeskInv, D!Step, ~D!Begin, Knowing, todo = Rest13, CpiLinked
  PROVE  Going /\ (todo' = <<>> \/ (KnowsOn /\ todo' = Rest14 /\ MarketLinked'))
<1>1. PICK i : i = [op |-> "link", on |-> Pol, field |-> "marketOracle", to |-> Mkt]
  OBVIOUS
<1>2. Rest13 = <<i>> \o Rest14
  BY <1>1 DEF Rest13, D!Link
<1>3. i = Head(todo) /\ Tail(todo) = Rest14
  BY <1>2, RestsAreSeqs, ConsParts
<1>4. i.op = "link" /\ i.on = Pol /\ i.field = "marketOracle" /\ i.to = Mkt
  BY <1>1
<1>5. Pol \in DOMAIN memory /\ Pol[1] = "digg"
  BY DiggNames DEF OrchestratorLinked, MarketLinked, CpiLinked, CpiRipe, CpiMade, OrchestratorMade,
                   PolicyMade
<1>6. Going /\ (todo' = <<>> \/ (todo' = Rest14 /\ KnowsOn /\ Linking(Pol, "marketOracle", Mkt)))
  BY <1>3, <1>4, <1>5, LinksOn
<1>7. Linking(Pol, "marketOracle", Mkt) => CpiLinked'
  BY <1>5, LinkingKeeps, DiggNames
<1>8. Linking(Pol, "marketOracle", Mkt) => "marketOracle" \in DOMAIN LinksOf(Pol)'
  BY DEF Linking, LinksOf
<1> QED BY <1>6, <1>7, <1>8 DEF MarketLinked

LEMMA From14 ==
  ASSUME DeskInv, D!Step, ~D!Begin, Knowing, todo = Rest14, MarketLinked
  PROVE  Going /\ (todo' = <<>> \/ (KnowsOn /\ todo' = Rest15 /\ OrchestratorLinked'))
<1>1. PICK i : i = [op |-> "link", on |-> Pol, field |-> "orchestrator", to |-> Orc]
  OBVIOUS
<1>2. Rest14 = <<i>> \o Rest15
  BY <1>1 DEF Rest14, D!Link
<1>3. i = Head(todo) /\ Tail(todo) = Rest15
  BY <1>2, RestsAreSeqs, ConsParts
<1>4. i.op = "link" /\ i.on = Pol /\ i.field = "orchestrator" /\ i.to = Orc
  BY <1>1
<1>5. Pol \in DOMAIN memory /\ Pol[1] = "digg"
  BY DiggNames DEF OrchestratorLinked, MarketLinked, CpiLinked, CpiRipe, CpiMade, OrchestratorMade,
                   PolicyMade
<1>6. Going /\ (todo' = <<>> \/ (todo' = Rest15 /\ KnowsOn /\ Linking(Pol, "orchestrator", Orc)))
  BY <1>3, <1>4, <1>5, LinksOn
<1>7. Linking(Pol, "orchestrator", Orc) => MarketLinked'
  BY <1>5, LinkingKeeps, DiggNames
<1>8. Linking(Pol, "orchestrator", Orc) => LinksOf(Pol)'["orchestrator"] = memory'[Orc] /\ "orchestrator" \in DOMAIN LinksOf(Pol)'
  BY DEF Linking, LinksOf
<1> QED BY <1>6, <1>7, <1>8 DEF OrchestratorLinked

LEMMA From15 ==
  ASSUME DeskInv, D!Step, ~D!Begin, Knowing, todo = Rest15, OrchestratorLinked
  PROVE  Going /\ (todo' = <<>> \/ (KnowsOn /\ todo' = Rest16 /\ OrchestratorLinked'))
<1>1. PICK i : i = [op |-> "link", on |-> Pol, field |-> "orchestrator", to |-> Orc]
  OBVIOUS
<1>2. Rest15 = <<i>> \o Rest16
  BY <1>1 DEF Rest15, D!Link
<1>3. i = Head(todo) /\ Tail(todo) = Rest16
  BY <1>2, RestsAreSeqs, ConsParts
<1>4. i.op = "link" /\ i.on = Pol /\ i.field = "orchestrator" /\ i.to = Orc
  BY <1>1
<1>5. Pol \in DOMAIN memory /\ Pol[1] = "digg"
  BY DiggNames DEF OrchestratorLinked, MarketLinked, CpiLinked, CpiRipe, CpiMade, OrchestratorMade,
                   PolicyMade
<1>6. Going /\ (todo' = <<>> \/ (todo' = Rest16 /\ KnowsOn /\ Linking(Pol, "orchestrator", Orc)))
  BY <1>3, <1>4, <1>5, LinksOn
<1>7. Linking(Pol, "orchestrator", Orc) => MarketLinked'
  BY <1>5, LinkingKeeps, DiggNames DEF OrchestratorLinked
<1>8. Linking(Pol, "orchestrator", Orc) => LinksOf(Pol)'["orchestrator"] = memory'[Orc] /\ "orchestrator" \in DOMAIN LinksOf(Pol)'
  BY DEF Linking, LinksOf
<1> QED BY <1>6, <1>7, <1>8 DEF OrchestratorLinked

(* The last link makes it ready. *)
LEMMA From16 ==
  ASSUME DeskInv, D!Step, ~D!Begin, Knowing, todo = Rest16, OrchestratorLinked
  PROVE  Going /\ todo' \in {<<>>, DiggTail}
<1> DEFINE C == chain.contracts
           E == chain'.contracts
           u == memory[Tok]
           p == memory[Pol]
           o == memory[Orc]
           c == memory[Cpi]
<1>1. PICK i : i = [op |-> "link", on |-> Tok, field |-> "monetaryPolicy", to |-> Pol]
  OBVIOUS
<1>2. Rest16 = <<i>> \o DiggTail
  BY <1>1 DEF Rest16, D!Link
<1>3. i = Head(todo) /\ Tail(todo) = DiggTail
  BY <1>2, DiggParts, ConsParts
<1>4. i.op = "link" /\ i.on = Tok /\ i.field = "monetaryPolicy" /\ i.to = Pol
  BY <1>1
<1>5. {Tok, Pol, Orc, Cpi} \subseteq DOMAIN memory
  BY DEF OrchestratorLinked, MarketLinked, CpiLinked, CpiRipe, CpiMade, OrchestratorMade,
         PolicyMade, TokenMade
<1>6. {u, p, o, c} \subseteq DOMAIN C /\ u \notin {p, o, c}
  BY <1>5, KnownDigg, ApartDigg, DiggNames
<1>7. Ledger(chain)
  BY DEF DeskInv
<1>8. \/ todo' = <<>> /\ chain' = chain
      \/ /\ todo' \in {<<>>, DiggTail} /\ DOMAIN E = DOMAIN C /\ chain'.time = chain.time
         /\ \A k \in DOMAIN C \ {u} : E[k] = C[k]
         /\ DOMAIN E[u].links = DOMAIN C[u].links \cup {"monetaryPolicy"}
         /\ E[u].links["monetaryPolicy"] = p
  <2>1. PICK a : a = memory[i.on]
    OBVIOUS
  <2>2. a \in DOMAIN C /\ a = u
    BY <1>4, <1>6, <2>1
  <2>3. \/ todo' = <<>> /\ chain' = chain
        \/ /\ todo' = <<>> \/ (todo' = Tail(todo) /\ memory' = memory)
           /\ DOMAIN E = DOMAIN C /\ chain'.time = chain.time
           /\ \A k \in DOMAIN C \ {a} : E[k] = C[k]
           /\ DOMAIN E[a].links = DOMAIN C[a].links \cup {i.field}
           /\ E[a].links[i.field] = memory[i.to]
    BY <1>3, <1>4, <1>7, <2>1, <2>2, LinkDoes
  <2> QED BY <1>3, <1>4, <2>2, <2>3
<1>9. AllReady(C, chain.time) /\ Clear(memory, C)
  BY DEF Knowing
<1>10. CASE chain' = chain /\ todo' = <<>>
  BY <1>10, <1>9 DEF Going
<1>11. CASE /\ todo' \in {<<>>, DiggTail} /\ DOMAIN E = DOMAIN C /\ chain'.time = chain.time
            /\ \A k \in DOMAIN C \ {u} : E[k] = C[k]
            /\ DOMAIN E[u].links = DOMAIN C[u].links \cup {"monetaryPolicy"}
            /\ E[u].links["monetaryPolicy"] = p
  <2>1. ReadyAt(E, chain.time, u)
    <3>1. PolicyOf(E, u) = p
      BY <1>11 DEF PolicyOf
    <3>2. E[p] = C[p] /\ E[o] = C[o] /\ E[c] = C[c]
      BY <1>6, <1>11
    <3>3. /\ {"cpiOracle", "marketOracle", "orchestrator"} \subseteq DOMAIN C[p].links
          /\ C[p].links.orchestrator = o /\ C[p].links.cpiOracle = c
          /\ C[o].links.policy = p /\ C[p].links.token = u
          /\ C[c].pushed \in Nat \ {0} /\ C[c].pushed + ReportDelay <= chain.time
      BY DEF OrchestratorLinked, MarketLinked, CpiLinked, CpiRipe, CpiMade, OrchestratorMade,
             PolicyMade, LinksOf, Reported
    <3> HIDE DEF E, C, u, p, o, c
    <3>4. OrchestratorOf(E, u) = o /\ CpiOf(E, u) = c
      BY <3>1, <3>2, <3>3 DEF OrchestratorOf, CpiOf
    <3>5. Feet(E, u) \subseteq DOMAIN E
      BY <1>6, <1>11, <3>1, <3>4 DEF Feet
    <3> QED BY <3>1, <3>2, <3>3, <3>4, <3>5 DEF ReadyAt
  <2>2. ASSUME NEW v \in DOMAIN E, Governed(E, v), v # u PROVE ReadyAt(E, chain.time, v)
    <3>1. v \in DOMAIN C /\ Governed(C, v)
      BY <1>11, <2>2 DEF Governed
    <3>2. ReadyAt(C, chain.time, v) /\ Feet(C, v) \cap {u} = {}
      BY <1>5, <1>9, <3>1 DEF AllReady, Clear
    <3>3. Alike(C, E, {u})
      <4> HIDE DEF C, E, u
      <4> QED BY <1>11 DEF Alike
    <3>4. chain.time \in Nat /\ chain.time >= chain.time
      BY <1>7 DEF Ledger
    <3> HIDE DEF C, E, u
    <3> QED BY <3>1, <3>2, <3>3, <3>4, ReadySame
  <2>3. AllReady(E, chain.time)
    <3> HIDE DEF E, u
    <3> QED BY <2>1, <2>2 DEF AllReady
  <2> QED BY <1>11, <2>3 DEF Going
<1> QED BY <1>8, <1>10, <1>11

LEMMA PlacedSteps ==
  ASSUME DeskInv, D!Step, ~D!Begin, Knowing, Placed, chain.time # 0
  PROVE  Going /\ (todo' \in {<<>>, DiggTail} \/ (KnowsOn /\ Placed'))
<1>1. CASE todo = Rest1
  BY <1>1, From1 DEF Placed
<1>2. CASE todo = Rest2 /\ TokenMade
  BY <1>2, From2 DEF Placed
<1>3. CASE todo = Rest3 /\ PolicyMade
  BY <1>3, From3 DEF Placed
<1>4. CASE todo \in {Rest4, Rest5} /\ OrchestratorMade
  BY <1>4, From4, From5 DEF Placed
<1>5. CASE todo \in {Rest6, Rest7, Rest8, Rest9} /\ CpiMade
  BY <1>5, From6, From7, From8, From9 DEF Placed
<1>6. CASE todo = Rest10 /\ CpiMade
  BY <1>6, From10 DEF Placed
<1>7. CASE todo = Rest11 /\ CpiReported
  BY <1>7, From11 DEF Placed
<1>8. CASE todo = Rest12 /\ CpiRipe
  BY <1>8, From12 DEF Placed
<1>9. CASE todo = Rest13 /\ CpiLinked
  BY <1>9, From13 DEF Placed
<1>10. CASE todo = Rest14 /\ MarketLinked
  BY <1>10, From14 DEF Placed
<1>11. CASE todo = Rest15 /\ OrchestratorLinked
  BY <1>11, From15 DEF Placed
<1>12. CASE todo = Rest16 /\ OrchestratorLinked
  BY <1>12, From16 DEF Placed
<1> QED
  BY <1>1, <1>2, <1>3, <1>4, <1>5, <1>6, <1>7, <1>8, <1>9, <1>10, <1>11, <1>12 DEF Placed

-----------------------------------------------------------------------------

DiggInv ==
  /\ AllReady(chain.contracts, chain.time) /\ chain.time # 0
  /\ \/ Fair("plain", todo)
     \/ Clear(memory, chain.contracts) /\ Placed
     \/ Clear(memory, chain.contracts) /\ \E f : Fair("plain", f) /\ todo = f \o Rest1

LEMMA HeadOfJoin ==
  ASSUME NEW f, IsSeq(f), f # <<>>, NEW t, IsSeq(t)
  PROVE  Head(f \o t) = Head(f) /\ Tail(f \o t) = Tail(f) \o t
<1>1. PICK S, T : f \in Seq(S) /\ t \in Seq(T)
  BY DEF IsSeq
<1>2. f \in Seq(S \cup T) /\ t \in Seq(S \cup T)
  <2>1. S \subseteq S \cup T /\ T \subseteq S \cup T
    OBVIOUS
  <2> QED BY <1>1, <2>1, SeqWider
<1> QED BY <1>2

LEMMA NothingJoined == ASSUME NEW t, IsSeq(t) PROVE <<>> \o t = t
<1>1. PICK S : t \in Seq(S)
  BY DEF IsSeq
<1> QED BY <1>1

LEMMA TailIsPlain == Fair("plain", DiggTail)
<1>1. Fair("plain", D!DeployAirdropDistributor)
  BY DiggNewFair DEF D!DeployAirdropDistributor, D!New
<1>2. Fair("plain", D!TransferOwnership)
  <2> DEFINE ids == <<"uFragments", "uFragmentsPolicy", "orchestrator", "marketMedianOracle",
                      "cpiMedianOracle">>
             g == [j \in DOMAIN ids |-> D!GiveTo(D!Digg(ids[j]), "deployer", "dao")]
  <2>1. ids \in Seq({"uFragments", "uFragmentsPolicy", "orchestrator", "marketMedianOracle",
                     "cpiMedianOracle"})
    OBVIOUS
  <2>2. g = [j \in DOMAIN ids |-> g[j]] /\ \A j \in DOMAIN ids : Fair("plain", g[j])
    BY GiveFair
  <2> HIDE DEF g, ids
  <2>3. Fair("plain", D!FlattenSeq(g))
    BY <2>1, <2>2, EachFair
  <2> QED BY <2>3 DEF D!TransferOwnership, D!Each, g, ids
<1> QED BY <1>1, <1>2, FairJoin DEF DiggTail

LEMMA DiggSteps ==
  ASSUME DeskInv, Deploys, D!Step, ~D!Begin, DiggInv
  PROVE  DiggInv'
<1> DEFINE i == Head(todo)
           ready == AllReady(chain'.contracts, chain'.time)
           places == \/ Fair("plain", todo')
                     \/ KnowsOn /\ Placed'
                     \/ KnowsOn /\ \E f : Fair("plain", f) /\ todo' = f \o Rest1
<1>0. todo # <<>> /\ Effects(i) /\ Fine(i)
  BY StepDoes, FairHead DEF DeskInv, Ok
<1>1. chain'.time # 0
  BY <1>0, LedgerStays DEF DeskInv, DiggInv, Ledger
<1>2. AllReady(chain.contracts, chain.time)
  BY DEF DiggInv
<1>3. ASSUME Fair("plain", todo) PROVE ready /\ places
  <2>1. Plain(i) /\ Fair("plain", Tail(todo))
    BY <1>0, <1>3, FairHead DEF Ok
  <2>2. ready /\ todo' \in {<<>>, Tail(todo)}
    BY <1>0, <1>2, <2>1, PlainStage
  <2> QED BY <2>1, <2>2, BodyEmpty
<1>4. ASSUME Clear(memory, chain.contracts), Placed PROVE ready /\ places
  <2>1. Going /\ (todo' \in {<<>>, DiggTail} \/ (KnowsOn /\ Placed'))
    BY <1>2, <1>4, PlacedSteps DEF DiggInv, Knowing
  <2> QED BY <2>1, BodyEmpty, TailIsPlain DEF Going
<1>5. ASSUME Clear(memory, chain.contracts), \E f : Fair("plain", f) /\ todo = f \o Rest1
      PROVE  ready /\ places
  <2>1. PICK f : Fair("plain", f) /\ todo = f \o Rest1
    BY <1>5
  <2>2. IsSeq(f) /\ IsSeq(Rest1)
    BY <2>1, FairIsSeq, RestsAreSeqs
  <2>3. CASE f = <<>>
    <3>1. Placed
      BY <2>1, <2>2, <2>3, NothingJoined DEF Placed
    <3>2. Going /\ (todo' \in {<<>>, DiggTail} \/ (KnowsOn /\ Placed'))
      BY <1>2, <1>5, <3>1, PlacedSteps DEF DiggInv, Knowing
    <3> QED BY <3>2, BodyEmpty, TailIsPlain DEF Going
  <2>4. CASE f # <<>>
    <3>1. i = Head(f) /\ Tail(todo) = Tail(f) \o Rest1
      BY <2>1, <2>2, <2>4, HeadOfJoin
    <3>2. Plain(i) /\ Fair("plain", Tail(f))
      BY <2>1, <2>4, <3>1, FairHead DEF Ok
    <3>3. ready /\ (todo' = <<>> \/ (todo' = Tail(todo) /\ KnowsOn))
      BY <1>0, <1>2, <1>5, <3>2, PlainStage DEF KnowsOn
    <3> QED BY <3>1, <3>2, <3>3, BodyEmpty
  <2> QED BY <2>3, <2>4
<1>6. ready /\ places
  BY <1>3, <1>4, <1>5 DEF DiggInv
<1>7. CASE Fair("plain", todo')
  <2>1. Fair("plain", todo)'
    BY <1>7 DEF Fair, Ok
  <2> QED BY <1>1, <1>6, <2>1 DEF DiggInv
<1>8. CASE KnowsOn /\ Placed'
  BY <1>1, <1>6, <1>8 DEF DiggInv, KnowsOn
<1>9. CASE KnowsOn /\ \E f : Fair("plain", f) /\ todo' = f \o Rest1
  BY <1>1, <1>6, <1>9 DEF DiggInv, KnowsOn
<1> QED BY <1>6, <1>7, <1>8, <1>9

(* Nothing governs the token of DIGG before its last link, and no other    *)
(* script links anything.                                                  *)
RebaseInv ==
  IF Deploys THEN DeskInv /\ (IF script = "digg" THEN DiggInv ELSE NoLinks(chain.contracts))
  ELSE Idle

LEMMA BlankHasNoLinks == DOMAIN D!Blank.links = {}
BY DEF D!Blank

LEMMA NothingGoverned ==
  ASSUME chain.contracts = <<>>
  PROVE  NoLinks(chain.contracts) /\ AllReady(chain.contracts, chain.time)
BY DEF NoLinks, AllReady

LEMMA RebaseInitially == OperatorInit => RebaseInv
<1> SUFFICES ASSUME OperatorInit PROVE RebaseInv
  OBVIOUS
<1>1. CASE ~Deploys
  BY <1>1, IdleInitially DEF RebaseInv
<1>2. CASE Deploys
  <2>1. DeskInv
    BY DeskInitially
  <2>2. CASE script \in D!Bsc
    <3>1. Len(D!BscNames) \in Nat /\ chain.contracts = [i \in 1..Len(D!BscNames) |-> D!Blank]
      BY <2>2, BscNamesFacts, FileInitially
    <3>2. \A c \in DOMAIN chain.contracts : chain.contracts[c] = D!Blank
      BY <3>1
    <3>3. script # "digg"
      BY <2>2 DEF D!Bsc
    <3> QED BY <1>2, <2>1, <3>2, <3>3, BlankHasNoLinks DEF RebaseInv, NoLinks
  <2>3. CASE script \notin D!Bsc
    <3>1. chain.contracts = <<>> /\ chain.time = 1 /\ todo = <<>>
      BY <2>3 DEF OperatorInit, D!DeployInit, Init, ScriptInit
    <3>2. Fair("plain", todo)
      BY <3>1, BodyEmpty
    <3> QED BY <1>2, <2>1, <3>1, <3>2, NothingGoverned DEF RebaseInv, DiggInv
  <2> QED BY <2>2, <2>3
<1> QED BY <1>1, <1>2

LEMMA DiggBegins ==
  ASSUME Deploys, D!Begin, DiggInv, script = "digg"
  PROVE  DiggInv'
<1>1. /\ memory' = <<>> /\ chain' = chain /\ todo' = D!Programs[script']
      /\ Sort(script') = Sort(script)
  BY BeginFacts
<1>2. script' = "digg"
  BY <1>1 DEF Sort
<1>3. todo' = DiggPrefix \o Rest1
  BY <1>1, <1>2, ProgramsAre, DiggShape
<1>4. Fair("plain", DiggPrefix)
  <2>1. "plain" \in {"mainnet", "digg", "plain"}
    OBVIOUS
  <2> QED BY <2>1, DiggParts, BodyIsFair
<1>5. \E f : Fair("plain", f) /\ todo' = f \o Rest1
  BY <1>3, <1>4
<1>6. Clear(memory', chain'.contracts)
  BY <1>1 DEF Clear
<1>7. AllReady(chain'.contracts, chain'.time) /\ chain'.time # 0
  BY SMTT(30), <1>1 DEF DiggInv
<1> QED BY <1>5, <1>6, <1>7 DEF DiggInv

LEMMA ScriptStays ==
  ASSUME D!Step, ~D!Begin PROVE script' = script
BY DEF D!Step, D!KnowElsewhere, D!DeployProxy, D!DeploySett, D!DeployStrategy,
       D!SetVault, D!ApproveStrategy, D!SetStrategy, D!PayBadger, D!GrantRole, D!GiveAway,
       D!InitializeProxy, D!UnpauseSett, D!SetLink, D!UpdateAndPush, D!Sleep, D!CheckThat,
       D!Raise, D!ConnectBadger, D!PrintToFile, D!Transacts, D!TransactsBy, D!Creates

LEMMA RebaseStays == RebaseInv /\ [OperatorNext]_operatorVars => RebaseInv'
<1> SUFFICES ASSUME RebaseInv, [OperatorNext]_operatorVars PROVE RebaseInv'
  OBVIOUS
<1>1. CASE ~Deploys
  BY <1>1, IdleStays DEF RebaseInv
<1>2. CASE Deploys /\ UNCHANGED operatorVars
  <2>1. UNCHANGED <<chain, memory, file, script, todo>>
    BY <1>2 DEF operatorVars, allVars, emissionVars, scriptVars
  <2>2. Deploys' = Deploys
    BY <2>1 DEF Deploys
  <2>3. DeskInv' = DeskInv
    BY <2>1 DEF DeskInv, Ledger, Shaped, Addresses, Apart, Fair, Sort
  <2>4. DiggInv' = DiggInv
    <3>1. Placed' = Placed
      BY <2>1 DEF Placed, TokenMade, PolicyMade, OrchestratorMade, CpiMade, CpiReported, CpiRipe,
                  CpiLinked, MarketLinked, OrchestratorLinked, LinksOf, Reported
    <3>2. AllReady(chain.contracts, chain.time)' = AllReady(chain.contracts, chain.time)
      BY <2>1
    <3>3. Clear(memory, chain.contracts)' = Clear(memory, chain.contracts)
      BY <2>1
    <3>4. Fair("plain", todo)' = Fair("plain", todo)
      BY <2>1
    <3>5. (\E f : Fair("plain", f) /\ todo = f \o Rest1)' = (\E f : Fair("plain", f) /\ todo = f \o Rest1)
      BY <2>1 
    <3> QED BY <2>1, <3>1, <3>2, <3>3, <3>4, <3>5 DEF DiggInv
  <2>5. NoLinks(chain.contracts)' = NoLinks(chain.contracts)
    BY <2>1 DEF NoLinks
  <2> QED BY <1>2, <2>1, <2>2, <2>3, <2>4, <2>5 DEF RebaseInv
<1>3. CASE Deploys /\ D!Begin
  <2>1. DeskInv' /\ Deploys'
    BY <1>3, DeskBegins, DeployingStays DEF RebaseInv, D!Step
  <2>2. Sort(script') = Sort(script) /\ chain' = chain
    BY <1>3, BeginFacts
  <2>3. script' = "digg" <=> script = "digg"
    BY <2>2 DEF Sort
  <2>4. script = "digg" => DiggInv'
    BY <1>3, DiggBegins DEF RebaseInv
  <2>5. script # "digg" => NoLinks(chain.contracts)'
    BY <1>3, <2>2 DEF RebaseInv, NoLinks
  <2> QED BY <2>1, <2>3, <2>4, <2>5 DEF RebaseInv
<1>4. CASE Deploys /\ D!Step /\ ~D!Begin
  <2>1. DeskInv' /\ Deploys' /\ script' = script
    BY <1>4, DeskSteps, DeployingStays, ScriptStays DEF RebaseInv
  <2>2. script = "digg" => DiggInv'
    BY <1>4, DiggSteps DEF RebaseInv
  <2>3. script # "digg" => NoLinks(chain.contracts)'
    <3>1. script # "digg" => NoLinks(chain'.contracts)
      BY <1>4, NoLinksStay DEF RebaseInv
    <3> QED BY <3>1 DEF NoLinks
  <2> QED BY <2>1, <2>2, <2>3 DEF RebaseInv
<1> QED BY <1>1, <1>2, <1>3, <1>4 DEF OperatorNext

(* As soon as the policy may rebase the token it has its two oracles, an    *)
(* orchestrator that calls it and a report of the CPI that counts, wherever *)
(* deploy_digg was cut off and however often it was begun again             *)
(* (digg_minimal.py:28-60).                                                 *)
THEOREM RebaseAlwaysReady == OperatorSpec => []RebaseReady
<1>1. OperatorInit => RebaseInv
  BY RebaseInitially
<1>2. RebaseInv /\ [OperatorNext]_operatorVars => RebaseInv'
  BY RebaseStays
<1>3. RebaseInv => RebaseReady
  <2>1. RebaseInv => AllReady(chain.contracts, chain.time)
    BY NothingGoverned DEF RebaseInv, DiggInv, Idle, NoLinks, AllReady, Governed
  <2> QED BY <2>1, AllReadyIs
<1> QED BY <1>1, <1>2, <1>3, PTL DEF OperatorSpec, operatorVars
=============================================================================
