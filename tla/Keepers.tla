------------------------------ MODULE Keepers ------------------------------
(***************************************************************************)
(* The keeper scripts: earn, harvest and tend, each an eternal process     *)
(* that goes over all Setts (run_persistent), and rebase, which has one    *)
(* job, the daily rebase.  A process reads the chain, decides, and sends a *)
(* transaction, timed by TxTimer; users and other keepers change the chain *)
(* in between.  Whatever raises, an assertion, a reverted transaction or a *)
(* name that was never bound, ends the pass: the next one starts from the  *)
(* first Sett again, and in the first pass of all it ends the process.     *)
(*                                                                         *)
(* The want of a Sett and of its strategy, and what a harvest or a tend    *)
(* would bring (in the coin that pays for gas), are small numbers.         *)
(***************************************************************************)
EXTENDS TxTimer, Sequences, FiniteSets

CONSTANTS
  Scripts,        \* the scripts under study, of "earn", "harvest", "tend", "rebase"
  Setts,          \* the keys of badger.sett_system.vaults
  Order,          \* the order in which a pass visits them
  SettsToSkip,    \* config/keeper.py setts_to_skip, for each script
  Overrides,      \* the Setts with an earn threshold override: [Sett -> Nat]
  EarnRatio,      \* earn_default_percentage_threshold, as invested per idle want
  Kinds,          \* what strategy_earnings takes each Sett for, by its key
  GasCost,        \* gas_cost of a transaction
  MinProfit,      \* min_profit
  RunInterval,    \* ticks between passes, for each script
  TxWait,         \* ticks that tx_wait sleeps
  BlockTime,      \* ticks a transaction takes at least to be confirmed
  Unbound,        \* a local variable that was not assigned
  Keeper,         \* the account of the strategies' keeper
  Manager,        \* the BadgerRewardsManager, keeper of the managed strategies
  ManagerIsLocal, \* whether accounts.at finds an account for the manager
  MaxFaults,      \* bound: failed transactions and failed calls
  MaxWant,        \* bound: want of a Sett, idle and invested
  MaxYield        \* bound: what a harvest brings

ASSUME KeepersAssumption ==
  /\ Accounts = {Keeper, Manager} /\ Unbound \notin Accounts
  /\ Scripts \subseteq {"earn", "harvest", "tend", "rebase"}
  /\ Order \in Seq(Setts)
  /\ Kinds \in [Setts -> SUBSET {"crv", "badger", "sushi", "xsushi", "digg", "farm", "pancake"}]
  /\ EarnRatio \in Nat /\ GasCost \in Nat /\ MinProfit \in Nat
  /\ MaxFaults \in Nat /\ MaxWant \in Nat /\ MaxYield \in Nat /\ TxWait \in Nat \ {0}
  /\ BlockTime \in Nat

VARIABLES
  script,     \* the script this process runs
  managed,    \* the Setts whose strategy.keeper() is the manager
  idle,       \* want in each Sett
  invested,   \* strategy.balanceOf() of each Sett's strategy
  yield,      \* what a harvest or tend of each strategy would bring
  windowOpen, \* the policy would accept a rebase
  pc,         \* what the main thread does
  at,         \* the Sett of the pass, an index into Order
  keeper,     \* the local variable of that name
  firstPass,  \* in the first call of run_persistent, outside its try
  rest,       \* ticks left to sleep
  faults      \* failures so far

chain == <<idle, invested, yield, windowOpen>>
main  == <<pc, at, keeper, firstPass, rest>>
vars  == <<timerVars, script, managed, chain, main, faults>>

KeepersTypeOK ==
  /\ TimerTypeOK
  /\ script \in Scripts /\ managed \subseteq Setts
  /\ idle \in [Setts -> 0..MaxWant] /\ invested \in [Setts -> 0..MaxWant]
  /\ yield \in [Setts -> 0..MaxYield]
  /\ windowOpen \in BOOLEAN /\ firstPass \in BOOLEAN
  /\ pc \in {"scan", "send", "wait", "pause", "rest", "dead"}
  /\ at \in 1..Len(Order) + 1
  /\ keeper \in Accounts \cup {Unbound}
  /\ rest \in Nat /\ faults \in 0..MaxFaults

Init ==
  /\ TimerInit
  /\ script \in Scripts
  /\ managed \in SUBSET Setts
  /\ idle = [k \in Setts |-> 0]
  /\ invested = [k \in Setts |-> 0]
  /\ yield = [k \in Setts |-> 0]
  /\ windowOpen = FALSE
  /\ pc = "scan" /\ at = 1 /\ keeper = Unbound
  /\ firstPass = TRUE /\ rest = 0 /\ faults = 0

-----------------------------------------------------------------------------
(* What the scripts decide *)

EarnPreconditions_IgnoresFirstRun(k) == idle[k] * EarnRatio > invested[k] /\ invested[k] > 0

(* KeeperConfig, for the active chain *)
Skipped == SettsToSkip[script]
OverOverride(k) == k \in DOMAIN Overrides /\ idle[k] >= Overrides[k]

(* earn_preconditions: on the first run, over the Sett's own threshold, or *)
(* over the share of what is invested.                                     *)
EarnPreconditions(k) ==
  \/ invested[k] = 0
  \/ OverOverride(k)
  \/ idle[k] * EarnRatio > invested[k]

(* get_symbol: a Sett that is only tended for Sushi has no other yield.    *)
YieldTokens(k) == Kinds[k] \ IF script = "tend" THEN {} ELSE {"sushi"}

(* The earnings that are known; none is the "skip" of the code.            *)
TendEarnings(k) == IF YieldTokens(k) = {} THEN {} ELSE {yield[k]}

HarvestEarnings(k) ==
  IF YieldTokens(k) \cap {"farm", "crv", "xsushi", "pancake"} = {} THEN {} ELSE {yield[k]}

Earnings(k) == IF script = "tend" THEN TendEarnings(k) ELSE HarvestEarnings(k)

(* estimateProfitHarvest and estimateProfitTend, directly or through the   *)
(* manager: earnings less gas, min_profit where the earnings are unknown   *)
Profit(k) == IF Earnings(k) = {} THEN MinProfit ELSE (CHOOSE e \in Earnings(k) : TRUE) - GasCost

(* A failure while estimating gives min_profit, but the failed call of a   *)
(* tend counts as earnings of 0.                                           *)
FailedProfits == {MinProfit} \cup IF script = "tend" THEN {0 - GasCost} ELSE {}

Key == Order[at]
InPass == at <= Len(Order)
Profitable(p) == p >= MinProfit

(* The keeper that signs: earn_all asks the Sett; harvest_all assigns the  *)
(* variable in the branch of managed strategies only, tend_all in the      *)
(* other one; rebase is given its account.                                 *)
Assigns ==
  CASE script = "harvest" -> Key \in managed
    [] script = "tend"    -> Key \notin managed
    [] OTHER              -> TRUE

Signer == IF Assigns THEN IF script = "harvest" THEN Manager ELSE Keeper
                     ELSE keeper

(* accounts.at(manager) raises unless it is a local account, and a name    *)
(* that is not bound raises too.                                           *)
SignerRaises ==
  \/ Signer = Unbound
  \/ Assigns /\ Signer = Manager /\ ~ManagerIsLocal

(* A strategy lets in its own keeper, the manager lets in the keepers.     *)
Refused == script = "harvest" /\ Key \notin managed /\ Signer = Manager

-----------------------------------------------------------------------------
(* The main thread *)

EndsPass ==
  /\ pc' = IF firstPass THEN "dead" ELSE "rest"
  /\ rest' = RunInterval[script]
  /\ at' = 1 /\ keeper' = Unbound
  /\ UNCHANGED firstPass

NextSett == /\ pc' = "scan" /\ at' = at + 1
            /\ UNCHANGED <<keeper, firstPass, rest>>

(* A Sett that is listed to be skipped *)
SkipSett ==
  /\ pc = "scan" /\ InPass /\ script # "rebase"
  /\ Key \in Skipped
  /\ NextSett
  /\ UNCHANGED <<timerVars, script, managed, chain, faults>>

Visits == pc = "scan" /\ InPass /\ script # "rebase" /\ Key \notin Skipped

Decide(act) ==
  /\ pc' = IF act THEN "send" ELSE IF script = "earn" THEN "scan" ELSE "pause"
  /\ rest' = IF act \/ script = "earn" THEN 0 ELSE TxWait
  /\ at' = IF act \/ script # "earn" THEN at ELSE at + 1
  /\ UNCHANGED firstPass

VisitEarn ==
  /\ Visits /\ script = "earn"
  /\ Decide(EarnPreconditions(Key))
  /\ keeper' = Keeper
  /\ UNCHANGED <<timerVars, script, managed, chain, faults>>

(* The estimate of harvest_all and tend_all, and with it the decision *)
DecideByProfit ==
  /\ Visits /\ ~SignerRaises
  /\ keeper' = Signer
  /\ \/ Decide(Profitable(Profit(Key))) /\ UNCHANGED faults
     \/ /\ faults < MaxFaults /\ faults' = faults + 1
        /\ \E p \in FailedProfits : Decide(Profitable(p))
  /\ UNCHANGED <<timerVars, script, managed, chain>>

VisitHarvest == script = "harvest" /\ DecideByProfit

VisitTend == script = "tend" /\ DecideByProfit

VisitRaises ==
  /\ Visits /\ script \in {"harvest", "tend"} /\ SignerRaises
  /\ EndsPass
  /\ UNCHANGED <<timerVars, script, managed, chain, faults>>

(* rebase.py *)
VisitRebase ==
  /\ pc = "scan" /\ at = 1 /\ script = "rebase"
  /\ pc' = IF windowOpen THEN "send" ELSE "scan"
  /\ at' = IF windowOpen THEN at ELSE Len(Order) + 1
  /\ UNCHANGED <<keeper, firstPass, rest, timerVars, script, managed, chain, faults>>

(* settHarvest, settTend, the ones through the manager, and rebase start   *)
(* the timer; settEarn does not.                                           *)
Send ==
  /\ pc = "send"
  /\ pc' = "wait"
  /\ IF script = "earn" THEN UNCHANGED timerVars
     ELSE StartTimer(IF script = "rebase" THEN Keeper ELSE keeper)
  /\ rest' = BlockTime
  /\ UNCHANGED <<at, keeper, firstPass, script, managed, chain, faults>>

TurnOff == IF script = "earn" THEN UNCHANGED timerVars ELSE EndTimer

(* The transaction is confirmed; harvest_all and tend_all then tx_wait.    *)
Confirmed ==
  /\ pc = "wait" /\ rest = 0 /\ ~Refused
  /\ TurnOff
  /\ CASE script = "earn" ->
            /\ invested' = [invested EXCEPT ![Key] = @ + idle[Key]]
            /\ idle' = [idle EXCEPT ![Key] = 0]
            /\ UNCHANGED <<yield, windowOpen>>
       [] script = "rebase" ->
            windowOpen' = FALSE /\ UNCHANGED <<idle, invested, yield>>
       [] OTHER ->
            yield' = [yield EXCEPT ![Key] = 0] /\ UNCHANGED <<idle, invested, windowOpen>>
  /\ pc' = IF script \in {"harvest", "tend"} THEN "pause" ELSE "scan"
  /\ rest' = IF script \in {"harvest", "tend"} THEN TxWait ELSE 0
  /\ at' = CASE script = "earn" -> at + 1
             [] script = "rebase" -> Len(Order) + 1
             [] OTHER -> at
  /\ UNCHANGED <<keeper, firstPass, script, managed, faults>>

(* The transaction reverts or cannot be sent: end_timer is not reached.    *)
TxRaises ==
  /\ pc = "wait"
  /\ \/ Refused /\ UNCHANGED faults
     \/ ~Refused /\ faults < MaxFaults /\ faults' = faults + 1
  /\ EndsPass
  /\ UNCHANGED <<timerVars, script, managed, chain>>

PauseOver ==
  /\ pc = "pause" /\ rest = 0
  /\ NextSett
  /\ UNCHANGED <<timerVars, script, managed, chain, faults>>

PassOver ==
  /\ pc = "scan" /\ ~InPass
  /\ pc' = "rest" /\ rest' = RunInterval[script]
  /\ at' = 1 /\ keeper' = Unbound /\ firstPass' = FALSE
  /\ UNCHANGED <<timerVars, script, managed, chain, faults>>

RestOver ==
  /\ pc = "rest" /\ rest = 0
  /\ pc' = "scan"
  /\ UNCHANGED <<at, keeper, firstPass, rest, timerVars, script, managed, chain, faults>>

MainStep ==
  \/ SkipSett \/ VisitEarn \/ VisitHarvest \/ VisitTend \/ VisitRaises \/ VisitRebase
  \/ Send \/ PauseOver \/ PassOver \/ RestOver

Tick ==
  /\ TimerTick
  /\ rest' = IF rest > 0 THEN rest - 1 ELSE 0
  /\ UNCHANGED <<pc, at, keeper, firstPass, script, managed, chain, faults>>

-----------------------------------------------------------------------------
(* The chain, as users, other keepers and the protocols below move it.     *)
(* What the script of the run never reads is left alone.                   *)

Deposit(k) ==
  /\ script = "earn" /\ idle[k] + invested[k] < MaxWant
  /\ idle' = [idle EXCEPT ![k] = @ + 1]
  /\ UNCHANGED <<invested, yield, windowOpen>>

Withdraw(k) ==
  /\ script = "earn"
  /\ \/ idle[k] > 0 /\ idle' = [idle EXCEPT ![k] = @ - 1] /\ UNCHANGED invested
     \/ idle[k] = 0 /\ invested[k] > 0
        /\ invested' = [invested EXCEPT ![k] = @ - 1] /\ UNCHANGED idle
  /\ UNCHANGED <<yield, windowOpen>>

Earns(k) ==
  /\ script \in {"harvest", "tend"} /\ yield[k] < MaxYield
  /\ yield' = [yield EXCEPT ![k] = @ + 1]
  /\ UNCHANGED <<idle, invested, windowOpen>>

WindowOpens ==
  /\ script = "rebase" /\ ~windowOpen /\ windowOpen' = TRUE
  /\ UNCHANGED <<idle, invested, yield>>

ChainStep ==
  /\ \/ \E k \in Setts : Deposit(k) \/ Withdraw(k) \/ Earns(k)
     \/ WindowOpens
  /\ UNCHANGED <<timerVars, script, managed, main, faults>>

TimerStep == ThreadStep /\ UNCHANGED <<script, managed, chain, main, faults>>

Next == MainStep \/ Confirmed \/ TxRaises \/ Tick \/ TimerStep \/ ChainStep

(* The operating system runs the main thread and time passes; a            *)
(* transaction that was sent is confirmed or fails.                        *)
Fairness ==
  /\ WF_vars(MainStep)
  /\ WF_vars(Confirmed \/ TxRaises)
  /\ WF_vars(Tick)
  /\ WF_vars(TimerStep)

Spec == Init /\ [][Next]_vars /\ Fairness

-----------------------------------------------------------------------------
(* Properties *)

(* What the script is there for: want that has piled up in a Sett, over    *)
(* its threshold or relative to what is invested, a yield that pays for    *)
(* its gas or that nobody can price, a rebase the policy would accept.     *)
Due(k) ==
  CASE script = "earn" ->
         /\ k \notin Skipped /\ idle[k] > 0
         /\ \/ idle[k] * EarnRatio > invested[k]
            \/ OverOverride(k)
    [] script = "rebase" -> windowOpen
    [] OTHER ->
         /\ k \notin Skipped /\ yield[k] > 0
         /\ Earnings(k) = {} \/ yield[k] >= GasCost + MinProfit

(* The Setts of a pass, in order *)
Visited == SelectSeq(Order, LAMBDA k : k \notin Skipped)

(* The Setts are such that the code binds keeper before each use of it: to *)
(* harvest, all are managed; to tend, the first one is not.                *)
KeeperBound ==
  CASE script = "harvest" -> ManagerIsLocal /\ \A i \in DOMAIN Visited : Visited[i] \in managed
    [] script = "tend"    -> Visited # <<>> => Visited[1] \notin managed
    [] OTHER              -> TRUE

(* Each Sett is eventually attended to, although any failure starts the    *)
(* pass again from the first Sett and users move the chain between what    *)
(* the script reads and what it sends: provided that the first pass, which *)
(* nothing guards, went well, and that the keeper variable is bound.       *)
WorkGetsDone ==
  \A k \in Setts : (KeeperBound /\ [](pc # "dead")) => (Due(k) ~> ~Due(k))

(* The timer's promise, first half: an alert names an account whose        *)
(* transaction has been out for the threshold and has not returned.  A     *)
(* failed transaction leaves its timer on, so this takes passes further    *)
(* apart than the threshold.                                               *)
AlarmIsDue ==
  [][RunInterval[script] > Threshold =>
       \A a \in messages' \ messages :
         \E t \in timers : t.from = a /\ t.age >= Threshold]_vars

(* The other half: no transaction is out for longer without an alert.      *)
NoMissedAlarm ==
  RunInterval[script] > Threshold => \A t \in timers : t.age <= Threshold

=============================================================================
