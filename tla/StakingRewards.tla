--------------------------- MODULE StakingRewards ---------------------------
(***************************************************************************)
(* StakingRewards: a pool that streams a notified reward to its stakers at *)
(* a constant rate over a period, in proportion to their stakes.  The pool *)
(* of native.badger, whose staker is StrategyBadgerRewards, takes stakes   *)
(* in the token that it pays rewards in, so that principal and rewards are *)
(* one balance.                                                            *)
(*                                                                         *)
(* A notification names the start of its period, which may lie ahead or    *)
(* behind; lastUpdateTime is set to it.                                    *)
(***************************************************************************)
EXTENDS Integers, FiniteSets, Functions

CONSTANTS
  Accounts,      \* whoever calls the pool
  Stakers,       \* the holders of APPROVED_STAKER_ROLE
  SameToken,     \* stakingToken = rewardsToken
  Precision,     \* 1e18
  Stakes,        \* amounts staked and withdrawn
  MaxStake,      \* bound: the stake of an account
  Rewards,       \* amounts notified, and sent to the pool
  MaxNotified,   \* bound: all that is notified
  Durations,     \* arguments of setRewardsDuration
  Offsets,       \* how far from now a notified period starts
  Horizon        \* bound: block times

ASSUME PoolAssumption ==
  /\ IsFiniteSet(Accounts) /\ Stakers \subseteq Accounts /\ SameToken \in BOOLEAN
  /\ Precision \in Nat \ {0} /\ MaxStake \in Nat /\ MaxNotified \in Nat /\ Horizon \in Nat
  /\ Stakes \subseteq Nat \ {0} /\ Rewards \subseteq Nat
  /\ Durations \subseteq Nat \ {0} /\ Offsets \subseteq Int

VARIABLES
  now,
  periodFinish, rewardRate, rewardsDuration, lastUpdateTime,
  rewardPerTokenStored,     \* in units of 1 / Precision
  userRewardPerTokenPaid, rewards, balances, paused,
  held,       \* rewardsToken.balanceOf(pool)
  notified,   \* the rewards notified so far
  received,   \* the tokens sent to the pool, other than stakes
  paidOut,    \* the rewards paid to each account
  backdated   \* the accrual has been set back over time it had covered

period == <<periodFinish, rewardRate, rewardsDuration>>
accounts == <<userRewardPerTokenPaid, rewards>>
poolVars == <<period, lastUpdateTime, rewardPerTokenStored, accounts, balances, paused,
              held, notified, received, paidOut, backdated>>
vars == <<now, poolVars>>

PoolInit ==
  /\ now = 0
  /\ periodFinish = 0 /\ rewardRate = 0 /\ rewardsDuration \in Durations
  /\ lastUpdateTime = 0 /\ rewardPerTokenStored = 0
  /\ userRewardPerTokenPaid = [a \in Accounts |-> 0]
  /\ rewards = [a \in Accounts |-> 0]
  /\ balances = [a \in Accounts |-> 0]
  /\ paused = FALSE /\ held = 0
  /\ notified = 0 /\ received = 0 /\ paidOut = [a \in Accounts |-> 0]
  /\ backdated = FALSE

-----------------------------------------------------------------------------
(* What is earned *)

Larger(a, b) == IF a >= b THEN a ELSE b

TotalSupply == SumFunction(balances)

LastTimeRewardApplicable == IF now <= periodFinish THEN now ELSE periodFinish

(* Until a period that was notified ahead has begun, the subtraction       *)
(* underflows and every operation reverts, unless nothing is staked.       *)
Accrues == TotalSupply = 0 \/ LastTimeRewardApplicable >= lastUpdateTime

Accrued == IF TotalSupply = 0 THEN 0
           ELSE ((LastTimeRewardApplicable - lastUpdateTime) * rewardRate * Precision)
                  \div TotalSupply

RewardPerToken == rewardPerTokenStored + Accrued

EarnedAt(a, perToken) ==
  (balances[a] * (perToken - userRewardPerTokenPaid[a])) \div Precision + rewards[a]

Earned(a) == EarnedAt(a, IF Accrues THEN RewardPerToken ELSE rewardPerTokenStored)

(* The modifier updateReward for the accounts in As, none or one *)
AccrueFor(As) ==
  /\ Accrues
  /\ rewardPerTokenStored' = RewardPerToken
  /\ userRewardPerTokenPaid' = [a \in Accounts |->
       IF a \in As THEN RewardPerToken ELSE userRewardPerTokenPaid[a]]

SetLastUpdate(time) ==
  /\ lastUpdateTime' = time
  /\ backdated' = (backdated \/ time < Larger(lastUpdateTime, LastTimeRewardApplicable))

UpdateReward(As) == AccrueFor(As) /\ SetLastUpdate(LastTimeRewardApplicable)

RewardsOf(As) == [a \in Accounts |-> IF a \in As THEN EarnedAt(a, RewardPerToken) ELSE rewards[a]]

-----------------------------------------------------------------------------
(* The stakers *)

Stake_Unaccrued(a, amount) ==
  /\ a \in Stakers /\ ~paused
  /\ balances[a] + amount <= MaxStake
  /\ UpdateReward({})
  /\ rewards' = RewardsOf({})
  /\ balances' = [balances EXCEPT ![a] = @ + amount]
  /\ held' = IF SameToken THEN held + amount ELSE held
  /\ UNCHANGED <<now, period, paused, notified, received, paidOut>>

Stake(a, amount) ==
  /\ a \in Stakers /\ ~paused
  /\ balances[a] + amount <= MaxStake
  /\ UpdateReward({a})
  /\ rewards' = RewardsOf({a})
  /\ balances' = [balances EXCEPT ![a] = @ + amount]
  /\ held' = IF SameToken THEN held + amount ELSE held
  /\ UNCHANGED <<now, period, paused, notified, received, paidOut>>

Withdraw(a, amount) ==
  /\ balances[a] >= amount
  /\ SameToken => held >= amount
  /\ UpdateReward({a})
  /\ rewards' = RewardsOf({a})
  /\ balances' = [balances EXCEPT ![a] = @ - amount]
  /\ held' = IF SameToken THEN held - amount ELSE held
  /\ UNCHANGED <<now, period, paused, notified, received, paidOut>>

(* Anybody may ask, also who has no stake. *)
GetReward(a) ==
  /\ UpdateReward({a})
  /\ RewardsOf({a})[a] <= held
  /\ held' = held - RewardsOf({a})[a]
  /\ rewards' = [RewardsOf({a}) EXCEPT ![a] = 0]
  /\ paidOut' = [paidOut EXCEPT ![a] = @ + RewardsOf({a})[a]]
  /\ UNCHANGED <<now, period, balances, paused, notified, received>>

(* withdraw of everything, which must be something, and getReward *)
Exit(a) ==
  LET returned == IF SameToken THEN balances[a] ELSE 0
      reward == RewardsOf({a})[a]
  IN
  /\ balances[a] > 0
  /\ UpdateReward({a})
  /\ returned + reward <= held
  /\ held' = held - returned - reward
  /\ rewards' = [RewardsOf({a}) EXCEPT ![a] = 0]
  /\ paidOut' = [paidOut EXCEPT ![a] = @ + reward]
  /\ balances' = [balances EXCEPT ![a] = 0]
  /\ UNCHANGED <<now, period, paused, notified, received>>

-----------------------------------------------------------------------------
(* The admin *)

(* What is left of the running period is added to the new reward. *)
Leftover(start) == IF start >= periodFinish THEN 0 ELSE (periodFinish - start) * rewardRate

NotifiedRate(start, reward) == (reward + Leftover(start)) \div rewardsDuration

Notify_Unaccrued(start, reward) ==
  /\ NotifiedRate(start, reward) <= held \div rewardsDuration
  /\ rewardRate' = NotifiedRate(start, reward)
  /\ SetLastUpdate(start)
  /\ periodFinish' = start + rewardsDuration
  /\ notified' = notified + reward
  /\ UNCHANGED <<now, rewardsDuration, rewardPerTokenStored, accounts, balances, paused, held,
                 received, paidOut>>

NotifyRewardAmount(start, reward) ==
  /\ AccrueFor({})
  /\ NotifiedRate(start, reward) <= held \div rewardsDuration
  /\ rewardRate' = NotifiedRate(start, reward)
  /\ SetLastUpdate(start)
  /\ periodFinish' = start + rewardsDuration
  /\ notified' = notified + reward
  /\ UNCHANGED <<now, rewardsDuration, rewards, balances, paused, held, received, paidOut>>

SetRewardsDuration(d) ==
  /\ now > periodFinish
  /\ rewardsDuration' = d
  /\ UNCHANGED <<now, periodFinish, rewardRate, lastUpdateTime, rewardPerTokenStored, accounts,
                 balances, paused, held, notified, received, paidOut, backdated>>

SetPaused(p) ==
  /\ p # paused /\ paused' = p
  /\ UNCHANGED <<now, period, lastUpdateTime, rewardPerTokenStored, accounts, balances, held,
                 notified, received, paidOut, backdated>>

(* Tokens sent to the pool *)
Receive(amount) ==
  /\ held' = held + amount /\ received' = received + amount
  /\ UNCHANGED <<now, period, lastUpdateTime, rewardPerTokenStored, accounts, balances, paused,
                 notified, paidOut, backdated>>

Tick ==
  /\ now < Horizon
  /\ now' = now + 1
  /\ UNCHANGED poolVars

StakerStep ==
  \E a \in Accounts :
    \/ \E amount \in Stakes : Stake(a, amount) \/ Withdraw(a, amount)
    \/ GetReward(a)
    \/ Exit(a)

AdminStep ==
  \/ \E offset \in Offsets, reward \in Rewards :
       /\ now + offset >= 0 /\ notified + reward <= MaxNotified
       /\ NotifyRewardAmount(now + offset, reward)
  \/ \E d \in Durations : SetRewardsDuration(d)
  \/ \E p \in BOOLEAN : SetPaused(p)
  \/ \E amount \in Rewards : received + amount <= MaxNotified /\ Receive(amount)

-----------------------------------------------------------------------------
(* Properties *)

Principal == IF SameToken THEN TotalSupply ELSE 0

(* What the rest of the running period will still give *)
Outstanding ==
  LET from == Larger(lastUpdateTime, LastTimeRewardApplicable)
  IN  IF from >= periodFinish THEN 0 ELSE (periodFinish - from) * rewardRate

(* The pool can pay back every stake and pay everything that is earned or  *)
(* still to be earned, however stakes come and go, periods overlap and     *)
(* are announced ahead, if it was sent what was notified: the check of the *)
(* rate, which takes stakes and rewards that are owed for fresh rewards,   *)
(* does not see to that (StakingRewards.sol:138).  And if accrual was never*)
(* set back, by a period that starts in the past or by a call to the empty *)
(* pool before a period begins (StakingRewards.sol:140, 175).              *)
PoolSolvent ==
  ~backdated /\ received >= notified =>
    held >= Principal + SumFunction([a \in Accounts |-> Earned(a)]) + Outstanding

(* What an account has earned is kept for it or paid to it, whatever is    *)
(* notified, staked or reconfigured by others at any time; unlike in a     *)
(* RewardsFaucet (StakingRewards.sol:122, 173).                            *)
EarnedIsKept ==
  [][\A a \in Accounts : Earned(a)' + paidOut[a]' >= Earned(a) + paidOut[a]]_vars
=============================================================================
