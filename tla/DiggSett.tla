------------------------------- MODULE DiggSett -------------------------------
(***************************************************************************)
(* The Sett of DIGG, bDIGG.  DIGG rebases and bDIGG does not: DiggSett     *)
(* accounts in the shares of the token, cut to whole fragments of the      *)
(* initial rate, while the token, the Controller and the strategy are      *)
(* called with fragments of the present rate.  StrategyDiggRewards holds   *)
(* its DIGG idle; what it earns it fetches from a DiggRewardsFaucet, which *)
(* an admin fills and notifies.                                            *)
(*                                                                         *)
(* The token is UFragments.  Locks, guests and pauses of the Sett are      *)
(* those of SettVault and left out; the allowance of a depositor suffices. *)
(***************************************************************************)
EXTENDS UFragments

CONSTANTS
  Users, Sett, Strategy, Faucet, Rewards,  \* who holds DIGG
  ExtraScale,     \* 10 ** SCALED_SHARES_EXTRA_DECIMALS
  MaxFee,         \* the basis points of one
  Mins,           \* min of the Sett, in MaxFee
  Fees,           \* withdrawalFee of the strategy, in MaxFee
  Starts,         \* when a notified period may start
  Durations, RewardsInShares,
  Last            \* bound on the time

DiggAssumption ==
  /\ Users \cup {Sett, Strategy, Faucet, Rewards} \subseteq Holders
  /\ Sett # Strategy /\ {Sett, Strategy} \cap (Users \cup {Faucet, Rewards}) = {}
  /\ ExtraScale \in Nat \ {0} /\ MaxFee \in Nat \ {0}
  /\ Mins \subseteq 0..MaxFee /\ Fees \subseteq 0..MaxFee
  /\ Starts \subseteq Nat /\ Durations \subseteq Nat \ {0}
  /\ RewardsInShares \subseteq Nat /\ Last \in Nat

VARIABLES
  bDigg,             \* the balances of bDIGG
  bDiggSupply,       \* totalSupply of the Sett
  min, withdrawalFee,
  rewardRate, lastUpdateTime, periodFinish,
  now

faucetVars == <<rewardRate, lastUpdateTime, periodFinish>>
settVars == <<bDigg, bDiggSupply, min, withdrawalFee, faucetVars, now>>

-----------------------------------------------------------------------------
(* Reading *)

InitialSharesPerFragment == TotalShares \div InitialSupply

ToScaledShares(shares) == (shares \div InitialSharesPerFragment) * ExtraScale

(* shares(): of the Sett and its strategy *)
PoolShares == shareBalances[Sett] + shareBalances[Strategy]

LastTimeRewardApplicable == Smaller(now, periodFinish)

(* Before its period has started the faucet cannot compute what it owes.   *)
FaucetStarted == LastTimeRewardApplicable >= lastUpdateTime

EarnedShares == (LastTimeRewardApplicable - lastUpdateTime) * rewardRate

-----------------------------------------------------------------------------
(* The Sett *)

Mintable_AtPresentRate(transferred) ==
  IF bDiggSupply = 0 THEN Fragments(transferred) * ExtraScale
  ELSE (Fragments(transferred) * ExtraScale * bDiggSupply) \div ToScaledShares(PoolShares)

Mintable(transferred) ==
  IF bDiggSupply = 0 THEN ToScaledShares(transferred)
  ELSE (ToScaledShares(transferred) * bDiggSupply) \div ToScaledShares(PoolShares)

(* Nothing can be issued for a pool of less than one initial fragment.     *)
DepositGuard == bDiggSupply > 0 => ToScaledShares(PoolShares) > 0

Deposit(u, amount) ==
  /\ DepositGuard
  /\ Move(u, Sett, amount)
  /\ LET minted == Mintable(amount * sharesPerFragment)
     IN  /\ bDigg' = [bDigg EXCEPT ![u] = @ + minted]
         /\ bDiggSupply' = bDiggSupply + minted
  /\ UNCHANGED <<rate, allowedFragments, rebasePaused, remDiggMint,
                 min, withdrawalFee, faucetVars, now>>

(* Controller.withdraw and BaseStrategy.withdraw: of the fragments asked   *)
(* for, the fee goes to the rewards address and the rest to the Sett.      *)
FeeOn(amount) == (amount * withdrawalFee) \div MaxFee

WithdrawnFromStrategy(balances, amount) ==
  LET fee == FeeOn(amount) * sharesPerFragment
  IN  [balances EXCEPT ![Strategy] = @ - amount * sharesPerFragment,
                       ![Rewards] = @ + fee,
                       ![Sett] = @ + amount * sharesPerFragment - fee]

SharesToRedeem(n) == (PoolShares \div bDiggSupply) * n

(* What the Sett lacks is withdrawn in whole fragments; if less arrived,   *)
(* what is there is redeemed.  The strategy has no position outside, so it *)
(* always has the fragments asked for.                                     *)
Withdraw(u, n) ==
  LET due == SharesToRedeem(n)
      lacking == due - shareBalances[Sett]
      unrolled == IF lacking > 0
                  THEN WithdrawnFromStrategy(shareBalances, Fragments(lacking))
                  ELSE shareBalances
      payout == Fragments(Smaller(due, unrolled[Sett])) * sharesPerFragment
  IN
  /\ bDiggSupply > 0 /\ n <= bDigg[u] /\ n <= bDiggSupply
  /\ bDigg' = [bDigg EXCEPT ![u] = @ - n]
  /\ bDiggSupply' = bDiggSupply - n
  /\ shareBalances' = [unrolled EXCEPT ![Sett] = @ - payout, ![u] = @ + payout]
  /\ UNCHANGED <<rate, allowedFragments, rebasePaused, remDiggMint,
                 min, withdrawalFee, faucetVars, now>>

Available == (BalanceOf(Sett) * min) \div MaxFee

(* earn: through the Controller to the strategy, which deposits nowhere.   *)
Earn ==
  /\ Move(Sett, Strategy, Available)
  /\ UNCHANGED <<rate, allowedFragments, rebasePaused, remDiggMint, settVars>>

-----------------------------------------------------------------------------
(* The strategy and the faucet *)

(* getReward: what was earned in shares is sent in whole fragments.        *)
Rewarded ==
  LET reward == Fragments(EarnedShares) * sharesPerFragment
  IN  [shareBalances EXCEPT ![Faucet] = @ - reward, ![Strategy] = @ + reward]

GetRewardGuard ==
  /\ FaucetStarted
  /\ Fragments(EarnedShares) <= BalanceOf(Faucet)

Harvest ==
  /\ GetRewardGuard
  /\ shareBalances' = Rewarded
  /\ lastUpdateTime' = LastTimeRewardApplicable
  /\ UNCHANGED <<rate, allowedFragments, rebasePaused, remDiggMint,
                 bDigg, bDiggSupply, min, withdrawalFee, rewardRate, periodFinish, now>>

(* Controller.withdrawAll: the rewards, then all whole fragments.          *)
WithdrawAll ==
  LET exited == Fragments(Rewarded[Strategy]) * sharesPerFragment
  IN
  /\ GetRewardGuard
  /\ shareBalances' = [Rewarded EXCEPT ![Strategy] = @ - exited, ![Sett] = @ + exited]
  /\ lastUpdateTime' = LastTimeRewardApplicable
  /\ UNCHANGED <<rate, allowedFragments, rebasePaused, remDiggMint,
                 bDigg, bDiggSupply, min, withdrawalFee, rewardRate, periodFinish, now>>

NotifyRewardAmount_KeepsLastUpdate(start, duration, rewardInShares) ==
  /\ rewardInShares \div duration <= shareBalances[Faucet] \div duration
  /\ rewardRate' = rewardInShares \div duration
  /\ periodFinish' = start + duration
  /\ UNCHANGED <<vars, bDigg, bDiggSupply, min, withdrawalFee, lastUpdateTime, now>>

(* What was earned since the last harvest is forgotten.                    *)
NotifyRewardAmount(start, duration, rewardInShares) ==
  /\ rewardInShares \div duration <= shareBalances[Faucet] \div duration
  /\ rewardRate' = rewardInShares \div duration
  /\ lastUpdateTime' = start
  /\ periodFinish' = start + duration
  /\ UNCHANGED <<vars, bDigg, bDiggSupply, min, withdrawalFee, now>>

(* UFragmentsPolicy changes the supply. *)
RebaseDigg(supplyDelta) ==
  /\ Rebase(supplyDelta)
  /\ UNCHANGED settVars

Tick ==
  /\ now < Last
  /\ now' = now + 1
  /\ UNCHANGED <<vars, bDigg, bDiggSupply, min, withdrawalFee, faucetVars>>
=============================================================================
