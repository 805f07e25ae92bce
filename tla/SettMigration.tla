---------------------------- MODULE SettMigration ----------------------------
(***************************************************************************)
(* How the Setts are rewired: the functions of scripts/permissions/        *)
(* set_vaults.py, which promote experimental Setts and migrate Setts to    *)
(* new strategies, and the scripts that use the GovernanceTimelock.        *)
(*                                                                         *)
(* A session of a script is connected to a fork of the chain, on which it  *)
(* acts in the name of a safe: its calls are performed there, asserted     *)
(* on, and kept as receipts.  ApeSafeHelper.publish() posts all receipts   *)
(* of the session as one batch, and the safe's owners execute the batches  *)
(* in the order of their nonces, at a time of their choosing: meanwhile    *)
(* users and keepers go on, and so do the other safes.                     *)
(***************************************************************************)
EXTENDS SettWiring, FiniteSets

CONSTANTS
  Native, Experimental,  \* the Controllers the scripts name
  Dev, Ops, Test,        \* the safes
  Timelock,              \* the GovernanceTimelock
  OldStrategies,         \* those that work when the campaign begins
  Campaigns,             \* what may be under way: a set of pairs <<vaults_to_add, to_migrate>>
  Delay, GracePeriod,    \* of the GovernanceTimelock
  EtaAhead,              \* how far ahead the scripts set the eta
  MaxWant, MaxTime, MaxPosted, MaxFunctions, MaxQueued,  \* bounds of the model
  Nothing                \* no script is running

Safes == {Dev, Ops, Test}

ASSUME AccountsAssumption == Safes \cup {Timelock} \subseteq Accounts
ASSUME ControllersAssumption ==
  {Native, Experimental} \subseteq Controllers /\ Native # Experimental
\* No Sett is on both lists (set_vaults.py:19-36).
ASSUME CampaignsAssumption ==
  \A campaign \in Campaigns :
    /\ campaign[1] \in Seq(Wants) /\ campaign[2] \in Seq(Wants)
    /\ ToSet(campaign[1]) \cap ToSet(campaign[2]) = {}
ASSUME OldAssumption == OldStrategies \subseteq Strategies
ASSUME TimesAssumption ==
  {Delay, GracePeriod, EtaAhead, MaxWant, MaxTime, MaxPosted, MaxFunctions, MaxQueued}
    \subseteq Nat

VARIABLES
  toAdd, toMigrate,  \* vaults_to_add and to_migrate, as sequences of wants
  chain,
  batches,   \* batches[a]: posted for safe a and not executed, in the order of their nonces
  posted,    \* how many batches have been posted
  now,
  queued,    \* queuedTransactions of the GovernanceTimelock
  queueLog,  \* its QueueTransaction events, each with its time
  executeLog,  \* its ExecuteTransaction events
  files,     \* the transactions recorded in TIMELOCK_DIR
  script     \* what a script that uses the timelock is doing

wiringVars == <<toAdd, toMigrate, chain, batches, posted>>
timelockVars == <<now, queued, queueLog, executeLog, files, script>>
vars == <<wiringVars, timelockVars>>

Keys == ToSet(toAdd) \cup ToSet(toMigrate)

-----------------------------------------------------------------------------
(* The calls of each function of set_vaults.py *)

ForEach(keys, CallsFor(_)) == FlattenSeq([i \in DOMAIN keys |-> CallsFor(keys[i])])

\* A deploy file names one strategy for each Sett: strategyOf.
SetVaultsOnController ==
  ForEach(toAdd, LAMBDA w :
    <<[fn |-> "setVault", controller |-> Experimental, sett |-> w]>>)

ApproveStrategies(strategyOf) ==
  ForEach(toAdd, LAMBDA w :
    <<[fn |-> "approveStrategy", controller |-> Experimental, strategy |-> strategyOf[w]],
      [fn |-> "setStrategy", controller |-> Experimental, strategy |-> strategyOf[w]]>>)

UnpauseVaults == ForEach(toAdd, LAMBDA w : <<[fn |-> "unpause", sett |-> w]>>)

SetControllerOnVaults ==
  ForEach(toAdd, LAMBDA w :
    <<[fn |-> "unpause", sett |-> w],
      [fn |-> "setController", sett |-> w, controller |-> Experimental],
      [fn |-> "pause", sett |-> w]>>)

SetGovernance ==
  ForEach(toAdd, LAMBDA w : <<[fn |-> "setGovernance", sett |-> w, to |-> Dev]>>)

SetControllerOnStrategies(strategyOf) ==
  ForEach(toMigrate, LAMBDA w :
    <<[fn |-> "setStrategyController", strategy |-> strategyOf[w], controller |-> Native],
      [fn |-> "setStrategyGovernance", strategy |-> strategyOf[w], to |-> Ops]>>)

SetStrategiesOnController(strategyOf) ==
  ForEach(toMigrate, LAMBDA w :
    <<[fn |-> "setStrategy", controller |-> Native, strategy |-> strategyOf[w]]>>)

SetMinOfVaults == ForEach(toMigrate, LAMBDA w : <<[fn |-> "setMin", sett |-> w]>>)

SetKeeperOfVaults ==
  ForEach(toMigrate, LAMBDA w : <<[fn |-> "setKeeper", sett |-> w]>>)

SetStrategyFees(strategyOf) ==
  ForEach(toAdd, LAMBDA w : <<[fn |-> "setFees", strategy |-> strategyOf[w]]>>)

SetPerformanceFees(strategyOf) ==
  ForEach(toAdd, LAMBDA w : <<[fn |-> "setFees", strategy |-> strategyOf[w]]>>)

\* setCurvePoolSwap is up to the strategy's governance, as its fees are.
ModifyCurveSwapAddresses(strategyOf) ==
  ForEach(toAdd, LAMBDA w : <<[fn |-> "setFees", strategy |-> strategyOf[w]]>>)

UpgradeStrategies(strategyOf) ==
  ForEach(toMigrate, LAMBDA w : <<[fn |-> "upgrade", strategy |-> strategyOf[w]]>>)

Functions == {"set_vaults_on_controller", "approve_strategies", "unpause_vaults",
  "set_controller_on_vaults", "set_governance", "set_controller_on_strategies",
  "set_strategies_on_controller", "set_min", "set_keeper", "set_strategy_fees",
  "set_performance_fees", "modify_curve_swap_addresses", "upgrade_strategies"}

\* Those that end with helper.publish().
Publishing == Functions \ {"unpause_vaults", "set_controller_on_vaults"}

CallsOf(name, strategyOf) ==
  CASE name = "set_vaults_on_controller" -> SetVaultsOnController
    [] name = "approve_strategies" -> ApproveStrategies(strategyOf)
    [] name = "unpause_vaults" -> UnpauseVaults
    [] name = "set_controller_on_vaults" -> SetControllerOnVaults
    [] name = "set_governance" -> SetGovernance
    [] name = "set_controller_on_strategies" -> SetControllerOnStrategies(strategyOf)
    [] name = "set_strategies_on_controller" -> SetStrategiesOnController(strategyOf)
    [] name = "set_min" -> SetMinOfVaults
    [] name = "set_keeper" -> SetKeeperOfVaults
    [] name = "set_strategy_fees" -> SetStrategyFees(strategyOf)
    [] name = "set_performance_fees" -> SetPerformanceFees(strategyOf)
    [] name = "modify_curve_swap_addresses" -> ModifyCurveSwapAddresses(strategyOf)
    [] name = "upgrade_strategies" -> UpgradeStrategies(strategyOf)
    [] name = "publish" -> <<>>

\* What a function reads before its calls: without a balance, or a strategy to
\* name, it raises.
Reads(name, ch) ==
  name = "set_strategies_on_controller" =>
    \A w \in ToSet(toMigrate) :
      ~BalanceReverts(ch, w) /\ ch.working[Native][w] # NoStrategy

\* What a function asserts of the fork after its calls.  The comparisons of
\* the balance and of the price in set_strategies_on_controller are not
\* assertions: they are expressions whose value is dropped.
Asserts(name, strategyOf, ch) ==
  CASE name = "approve_strategies" ->
         \A w \in ToSet(toAdd) : /\ strategyOf[w] \in ch.approved[Experimental]
                                 /\ ch.working[Experimental][w] = strategyOf[w]
                                 /\ w \in ch.vaults[Experimental]
    [] name = "unpause_vaults" -> ToSet(toAdd) \cap ch.paused = {}
    [] name = "set_controller_on_strategies" ->
         \A w \in ToSet(toMigrate) : ch.strategyController[strategyOf[w]] = Native
    [] name = "set_strategies_on_controller" ->
         \A w \in ToSet(toMigrate) : /\ ch.settController[w] = Native
                                     /\ strategyOf[w] \in ch.approved[Native]
                                     /\ ch.working[Native][w] = strategyOf[w]
    [] OTHER -> TRUE

-----------------------------------------------------------------------------
(* Sessions and batches *)

\* A session: its safe, the strategies of the deploy file it is connected
\* with, the fork, the receipts, and what has been posted.  "publish" is the
\* helper.publish() of main itself.
Publishes(name) == name \in Publishing \cup {"publish"}

RanFunction(se, name) ==
  LET calls == CallsOf(name, se.strategyOf)
      receipts == se.receipts \o calls
  IN {[se EXCEPT !.fork = d,
                 !.receipts = receipts,
                 !.posts = IF Publishes(name) THEN Append(@, receipts) ELSE @] :
        d \in {e \in Executed(se.fork, se.safe, calls) :
                 Reads(name, se.fork) /\ Asserts(name, se.strategyOf, e)}}

\* The sessions that are reached by running these functions in turn, none
\* when a call reverts on the fork or an assertion fails.
Ran(se, names) ==
  FoldLeft(LAMBDA reached, name : UNION {RanFunction(x, name) : x \in reached}, {se}, names)

\* The functions that have keys to work on.
InPlay(strategyOf) == {name \in Functions : CallsOf(name, strategyOf) # <<>>}

\* connect_badger and ApeSafeHelper, then functions of set_vaults.py until
\* main ends or one of them raises.  The fork is the session's own, so nothing
\* is lost by taking the session as one step.  The deploy file has one
\* strategy for each Sett, the new one or still the old one.
RunMain(a) ==
  /\ posted < MaxPosted
  /\ \E strategyOf \in {f \in [Keys -> Strategies] : \A w \in Keys : Want[f[w]] = w} :
     \E names \in BoundedSeq(InPlay(strategyOf) \cup {"publish"}, MaxFunctions) :
     \E se \in Ran([safe |-> a, strategyOf |-> strategyOf, fork |-> chain,
                    receipts |-> <<>>, posts |-> <<>>], names) :
       /\ se.posts # <<>>
       /\ posted + Len(se.posts) <= MaxPosted
       /\ posted' = posted + Len(se.posts)
       /\ batches' = [batches EXCEPT ![a] = @ \o se.posts]
  /\ UNCHANGED <<toAdd, toMigrate, chain, timelockVars>>

\* migrate_strategies_via_migrator names the strategies itself, and acts for
\* the ops safe; the Setts then earn, on the fork.
MigrateCalls(pairs) ==
  ForEach(toMigrate, LAMBDA w :
    <<[fn |-> "migrate", controller |-> Native, before |-> pairs[w].before, after |-> pairs[w].after]>>)

MigrateViaMigrator ==
  /\ toMigrate # <<>>
  /\ \E pairs \in [ToSet(toMigrate) -> [before : Strategies, after : Strategies]] :
       /\ \A w \in ToSet(toMigrate) : pairs[w].before # pairs[w].after
       /\ \E d \in Executed(chain, Ops, MigrateCalls(pairs)) :
            \A w \in ToSet(toMigrate) : Earn(d, w, d.inSett[w]) # {}
       /\ batches' = [batches EXCEPT ![Ops] = Append(@, MigrateCalls(pairs))]
  /\ posted < MaxPosted
  /\ posted' = posted + 1
  /\ UNCHANGED <<toAdd, toMigrate, chain, timelockVars>>

\* The owners execute the batch with the next nonce; when one of its calls
\* reverts, none takes effect and the nonce is used up.
ExecuteBatch(a) ==
  /\ batches[a] # <<>>
  /\ LET reached == Executed(chain, a, Head(batches[a]))
     IN chain' \in IF reached = {} THEN {chain} ELSE reached
  /\ batches' = [batches EXCEPT ![a] = Tail(@)]
  /\ UNCHANGED <<toAdd, toMigrate, posted, timelockVars>>

-----------------------------------------------------------------------------
(* The chain goes on *)

TotalWant(w) == chain.inSett[w] + FoldSet(LAMBDA s, n : n + chain.inStrategy[s], 0,
                                          {s \in Strategies : Want[s] = w})

UserDeposits(w) ==
  /\ TotalWant(w) < MaxWant
  /\ chain' \in Deposit(chain, w)
  /\ UNCHANGED <<toAdd, toMigrate, batches, posted, timelockVars>>

UserWithdraws(w) ==
  /\ chain' \in Withdraw(chain, w)
  /\ UNCHANGED <<toAdd, toMigrate, batches, posted, timelockVars>>

KeeperEarns(w) ==
  /\ \E n \in 1..chain.inSett[w] : chain' \in Earn(chain, w, n)
  /\ UNCHANGED <<toAdd, toMigrate, batches, posted, timelockVars>>

GuardianPauses(w) ==
  /\ chain' \in Pause(chain, chain.settGovernance[w], w)
  /\ UNCHANGED <<toAdd, toMigrate, batches, posted, timelockVars>>

Tick ==
  /\ now < MaxTime
  /\ now' = now + 1
  /\ UNCHANGED <<wiringVars, queued, queueLog, executeLog, files, script>>

-----------------------------------------------------------------------------
(* The GovernanceTimelock, used through the dev safe, and its scripts *)

\* What the scripts queue: approve_strategies_timelock approves the new
\* strategies of to_migrate on the native Controller, queue_upgrade upgrades a
\* strategy whose ProxyAdmin the timelock owns.
TimelockCalls ==
  {[fn |-> "approveStrategy", controller |-> Native, strategy |-> s] :
     s \in {t \in Strategies \ OldStrategies : Want[t] \in ToSet(toMigrate)}}
  \cup {[fn |-> "upgrade", strategy |-> s] :
     s \in {t \in Strategies : Want[t] \in Keys /\ AdminOwner[t] = Timelock}}

\* governance_queue_transaction: the eta is fixed before the safe acts.
PrepareQueue ==
  /\ script = Nothing
  /\ Cardinality(queueLog) < MaxQueued
  /\ \E call \in TimelockCalls :
       script' = [at |-> "queue", tx |-> [call |-> call, eta |-> now + EtaAhead]]
  /\ UNCHANGED <<wiringVars, now, queued, queueLog, executeLog, files>>

\* Variant: any eta is taken.
QueueTransaction_AnyEta ==
  /\ script # Nothing
  /\ script.at = "queue"
  /\ script' = [script EXCEPT !.at = "file"]
  /\ queued' = queued \cup {script.tx}
  /\ queueLog' = queueLog \cup {[tx |-> script.tx, at |-> now]}
  /\ UNCHANGED <<wiringVars, now, executeLog, files>>

\* The safe sends queueTransaction; a revert is a failure of the safe's
\* transaction, which the script does not look at.
QueueTransaction ==
  /\ script # Nothing
  /\ script.at = "queue"
  /\ script' = [script EXCEPT !.at = "file"]
  /\ IF script.tx.eta >= now + Delay
     THEN /\ queued' = queued \cup {script.tx}
          /\ queueLog' = queueLog \cup {[tx |-> script.tx, at |-> now]}
     ELSE UNCHANGED <<queued, queueLog>>
  /\ UNCHANGED <<wiringVars, now, executeLog, files>>

WriteFile ==
  /\ script # Nothing
  /\ script.at = "file"
  /\ files' = files \cup {script.tx}
  /\ script' = [script EXCEPT !.at = "wait"]
  /\ UNCHANGED <<wiringVars, now, queued, queueLog, executeLog>>

CancelTransaction ==
  /\ \E tx \in queued : queued' = queued \ {tx}
  /\ UNCHANGED <<wiringVars, now, queueLog, executeLog, files, script>>

ExecuteTransaction(tx) ==
  /\ tx \in queued
  /\ now >= tx.eta
  /\ now <= tx.eta + GracePeriod
  /\ chain' \in Performed(chain, Timelock, tx.call)
  /\ queued' = queued \ {tx}
  /\ executeLog' = executeLog \cup {tx}

\* approve_strategies_timelock goes on from the parameters in its memory; the
\* file stays.
ExecuteFromParams ==
  /\ script # Nothing
  /\ script.at = "wait"
  /\ ExecuteTransaction(script.tx)
  /\ script' = Nothing
  /\ UNCHANGED <<toAdd, toMigrate, batches, posted, now, queueLog, files>>

\* Variant: a failure of the safe's transaction is not looked at here either.
ExecuteFromFile_Unchecked ==
  /\ script = Nothing
  /\ \E tx \in files :
       /\ script' = [at |-> "remove", tx |-> tx]
       /\ \/ ExecuteTransaction(tx)
          \/ /\ ~(tx \in queued /\ now \in tx.eta..(tx.eta + GracePeriod))
             /\ UNCHANGED <<chain, queued, executeLog>>
  /\ UNCHANGED <<toAdd, toMigrate, batches, posted, now, queueLog, files>>

\* governance_execute_transaction reads a file and has the safe execute what
\* it says; without an ExecutionSuccess event it raises and nothing changes ...
ExecuteFromFile ==
  /\ script = Nothing
  /\ \E tx \in files : /\ ExecuteTransaction(tx)
                       /\ script' = [at |-> "remove", tx |-> tx]
  /\ UNCHANGED <<toAdd, toMigrate, batches, posted, now, queueLog, files>>

\* ... and removes the file.
RemoveFile ==
  /\ script # Nothing
  /\ script.at = "remove"
  /\ files' = files \ {script.tx}
  /\ script' = Nothing
  /\ UNCHANGED <<wiringVars, now, queued, queueLog, executeLog>>

\* The process ends early, or the script has no more to do.
ScriptEnds ==
  /\ script # Nothing
  /\ script' = Nothing
  /\ UNCHANGED <<wiringVars, now, queued, queueLog, executeLog, files>>

-----------------------------------------------------------------------------
(* A Sett to migrate works with an old strategy of the native Controller,  *)
(* and its new strategy has been initialized, with the experimental        *)
(* Controller (initialize_strategies).  A Sett to add is deployed, paused  *)
(* and empty; its strategy is set on no Controller.                        *)

Init ==
  /\ \E campaign \in Campaigns : toAdd = campaign[1] /\ toMigrate = campaign[2]
  /\ chain \in [strategist : {[c \in Controllers |-> IF c = Native THEN Ops ELSE Test]},
                vaults : {[c \in Controllers |-> IF c = Native THEN ToSet(toMigrate) ELSE {}]},
                approved : {[c \in Controllers |-> IF c = Native THEN OldStrategies ELSE {}]},
                working : {f \in [Controllers -> [Wants -> Strategies \cup {NoStrategy}]] :
                             \A c \in Controllers, w \in Wants :
                               IF c = Native /\ w \in ToSet(toMigrate)
                               THEN f[c][w] \in OldStrategies /\ Want[f[c][w]] = w
                               ELSE f[c][w] = NoStrategy},
                settController : {f \in [Wants -> Controllers] :
                                    \A w \in Wants \ ToSet(toAdd) : f[w] = Native},
                settGovernance : {[w \in Wants |-> IF w \in ToSet(toMigrate) THEN Dev ELSE Test]},
                paused : {ToSet(toAdd)},
                strategyController : {[s \in Strategies |->
                                         IF s \in OldStrategies THEN Native ELSE Experimental]},
                strategyGovernance : {[s \in Strategies |->
                                         IF s \in OldStrategies THEN Dev ELSE Test]},
                inSett : {f \in [Wants -> 0..MaxWant] : \A w \in Wants : f[w] = 0},
                inStrategy : {f \in [Strategies -> 0..MaxWant] : \A s \in Strategies : f[s] = 0}]
  /\ batches = [a \in Safes |-> <<>>]
  /\ posted = 0
  /\ now = 0
  /\ queued = {}
  /\ queueLog = {}
  /\ executeLog = {}
  /\ files = {}
  /\ script = Nothing

Next ==
  \/ \E a \in Safes : RunMain(a) \/ ExecuteBatch(a)
  \/ MigrateViaMigrator
  \/ \E w \in Keys : UserDeposits(w) \/ UserWithdraws(w) \/ KeeperEarns(w) \/ GuardianPauses(w)
  \/ Tick
  \/ PrepareQueue \/ QueueTransaction \/ WriteFile \/ CancelTransaction
  \/ ExecuteFromParams \/ ExecuteFromFile \/ RemoveFile \/ ScriptEnds

Spec == Init /\ [][Next]_vars

-----------------------------------------------------------------------------
(* Properties *)

\* In whatever order the batches take effect, and whatever users and keepers
\* do in between, a strategy that holds want is the one its Sett can withdraw
\* from: set on the Sett's controller, which is also the strategy's, and which
\* pays to that Sett.
NothingOutOfReach ==
  \A s \in Strategies :
    LET w == Want[s]
        c == chain.settController[w]
    IN chain.inStrategy[s] > 0 =>
         /\ chain.working[c][w] = s
         /\ chain.strategyController[s] = c
         /\ w \in chain.vaults[c]

\* The native Controller comes to approve a strategy only when that was
\* announced, by a queueTransaction at least the delay ago which was not
\* cancelled and has not taken effect before.
ApprovalHadNotice ==
  [][\A s \in chain'.approved[Native] \ chain.approved[Native] :
       \E e \in queueLog :
         /\ e.tx.call = [fn |-> "approveStrategy", controller |-> Native, strategy |-> s]
         /\ e.at + Delay <= now
         /\ e.tx \in queued \ queued']_vars

\* A file leaves TIMELOCK_DIR only when its transaction has been executed, so
\* that nothing which could still take effect goes off the record.
RemovedIsExecuted == [][files \ files' \subseteq executeLog]_vars
=============================================================================
