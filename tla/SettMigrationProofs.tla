------------------------- MODULE SettMigrationProofs -------------------------
(***************************************************************************)
(* What is proved of rewiring the Setts, for any Setts, strategies and     *)
(* campaigns, and any order of the batches: no want gets out of reach of   *)
(* its Sett, the native Controller approves only what had notice, and the  *)
(* record of the timelock's transactions is complete.                      *)
(***************************************************************************)
EXTENDS SettMigration, Arithmetic

ToAdd == ToSet(toAdd)
ToMigrate == ToSet(toMigrate)

(* The strategies of these wants *)
For(wants) == {s \in Strategies : Want[s] \in wants}

-----------------------------------------------------------------------------
(* The inductive invariant *)

Chains ==
  [strategist : [Controllers -> Accounts],
   vaults : [Controllers -> SUBSET Wants],
   approved : [Controllers -> SUBSET Strategies],
   working : [Controllers -> [Wants -> Strategies \cup {NoStrategy}]],
   settController : [Wants -> Controllers],
   settGovernance : [Wants -> Accounts],
   paused : SUBSET Wants,
   strategyController : [Strategies -> Controllers],
   strategyGovernance : [Strategies -> Accounts],
   inSett : [Wants -> Nat],
   inStrategy : [Strategies -> Nat]]

(* A strategy works for its own want only. *)
WorkForTheirWant(ch) ==
  \A c \in Controllers, w \in Wants :
    ch.working[c][w] \in Strategies => Want[ch.working[c][w]] = w

(* A Sett to add works with the experimental Controller, if with any, ...  *)
AddedApart(ch) ==
  \A w \in ToAdd, c \in Controllers \ {Experimental} : ch.working[c][w] = NoStrategy

(* ... and one to migrate stays with the native one, which serves no other. *)
MigratedStay(ch) ==
  /\ ch.vaults[Native] \subseteq ToMigrate
  /\ \A w \in ToMigrate : ch.settController[w] = Native

InReach(ch) ==
  \A s \in Strategies :
    LET w == Want[s]
        c == ch.settController[w]
    IN ch.inStrategy[s] > 0 =>
         /\ ch.working[c][w] = s
         /\ ch.strategyController[s] = c
         /\ w \in ch.vaults[c]

Wired(ch) == WorkForTheirWant(ch) /\ AddedApart(ch) /\ MigratedStay(ch) /\ InReach(ch)
WiredChains == {ch \in Chains : Wired(ch)}

(* The calls that the safes make: to the two Controllers, each with the    *)
(* wants of its own list.                                                  *)
Calls ==
  [fn : {"setVault"}, controller : {Experimental}, sett : ToAdd]
    \cup [fn : {"approveStrategy"}, controller : {Experimental}, strategy : Strategies]
    \cup [fn : {"setStrategy"}, controller : {Experimental}, strategy : For(ToAdd)]
    \cup [fn : {"setStrategy"}, controller : {Native}, strategy : For(ToMigrate)]
    \cup [fn : {"setController"}, sett : ToAdd, controller : {Experimental}]
    \cup [fn : {"pause", "unpause", "setMin", "setKeeper"}, sett : Wants]
    \cup [fn : {"setGovernance"}, sett : Wants, to : Accounts]
    \cup [fn : {"setFees", "upgrade"}, strategy : Strategies]
    \cup [fn : {"setStrategyController"}, strategy : For(ToMigrate), controller : {Native}]
    \cup [fn : {"setStrategyGovernance"}, strategy : Strategies, to : Accounts]
    \cup [fn : {"migrate"}, controller : {Native}, before : Strategies, after : Strategies]

TimelockTxs == [call : TimelockCalls, eta : Nat]
Tasks == [at : {"queue", "file", "wait", "remove"}, tx : TimelockTxs]

Lists == toAdd \in Seq(Wants) /\ toMigrate \in Seq(Wants) /\ ToAdd \cap ToMigrate = {}

MigrationTypeOK ==
  /\ Lists
  /\ chain \in WiredChains
  /\ batches \in [Safes -> Seq(Seq(Calls))]
  /\ now \in Nat
  /\ queued \subseteq TimelockTxs /\ executeLog \subseteq TimelockTxs
  /\ queueLog \subseteq [tx : TimelockTxs, at : Nat]
  /\ files \subseteq TimelockTxs
  /\ script # Nothing => script \in Tasks

(* What is queued was logged at least the delay before it may take effect. *)
QueuedWithNotice ==
  \A tx \in queued : \E e \in queueLog : e.tx = tx /\ e.at + Delay <= tx.eta

(* A script removes the file of what was executed. *)
RemovesExecuted == script # Nothing => (script.at = "remove" => script.tx \in executeLog)

IInv == MigrationTypeOK /\ QueuedWithNotice /\ RemovesExecuted

-----------------------------------------------------------------------------
(* The calls, one by one *)

LEMMA Names ==
  ASSUME Lists
  PROVE  /\ Native \in Controllers /\ Experimental \in Controllers /\ Native # Experimental
         /\ ToAdd \subseteq Wants /\ ToMigrate \subseteq Wants /\ ToAdd \cap ToMigrate = {}
         /\ Want \in [Strategies -> Wants] /\ NoStrategy \notin Strategies
         /\ Dev \in Accounts /\ Ops \in Accounts /\ Test \in Accounts
BY ControllersAssumption, WantAssumption, NoStrategyAssumption, AccountsAssumption
DEF Lists, ToAdd, ToMigrate, ToSet, Safes

(* What a call may do that rewires nothing *)
LEMMA WiringKept ==
  ASSUME Lists, NEW ch \in WiredChains, NEW d \in Chains,
         d.working = ch.working, d.settController = ch.settController,
         d.strategyController = ch.strategyController,
         d.vaults[Native] = ch.vaults[Native],
         \A c \in Controllers : ch.vaults[c] \subseteq d.vaults[c],
         \A s \in Strategies : d.inStrategy[s] > 0 => ch.inStrategy[s] > 0
  PROVE  d \in WiredChains
<1>1. ch \in Chains /\ Wired(ch)
  BY DEF WiredChains
<1>2. WorkForTheirWant(d) /\ AddedApart(d) /\ MigratedStay(d)
  BY <1>1 DEF Wired, WorkForTheirWant, AddedApart, MigratedStay
<1>3. InReach(d)
  BY <1>1, Names DEF Wired, InReach, Chains
<1> QED BY <1>2, <1>3 DEF Wired, WiredChains

LEMMA SetVaultKeeps ==
  ASSUME Lists, NEW ch \in WiredChains, NEW by, NEW w \in ToAdd
  PROVE  SetVault(ch, by, Experimental, w) \subseteq WiredChains
<1> DEFINE d == [ch EXCEPT !.vaults[Experimental] = @ \cup {w}]
<1>1. ch \in Chains
  BY DEF WiredChains
<1>2. d \in Chains
  BY ZenonT(30), <1>1, Names DEF Chains
<1>3. /\ d.working = ch.working /\ d.settController = ch.settController
      /\ d.strategyController = ch.strategyController /\ d.inStrategy = ch.inStrategy
      /\ d.vaults[Native] = ch.vaults[Native]
      /\ \A c \in Controllers : ch.vaults[c] \subseteq d.vaults[c]
  BY <1>1, Names DEF Chains
<1> HIDE DEF d
<1>4. d \in WiredChains
  BY <1>2, <1>3, WiringKept
<1> QED BY <1>4 DEF SetVault, When, d

LEMMA ApproveKeeps ==
  ASSUME Lists, NEW ch \in WiredChains, NEW by, NEW c \in Controllers, NEW s \in Strategies
  PROVE  ApproveStrategy(ch, by, c, s) \subseteq WiredChains
<1> DEFINE d == [ch EXCEPT !.approved[c] = @ \cup {s}]
<1>1. ch \in Chains
  BY DEF WiredChains
<1>2. d \in Chains
  BY <1>1 DEF Chains
<1>3. /\ d.working = ch.working /\ d.settController = ch.settController
      /\ d.strategyController = ch.strategyController /\ d.inStrategy = ch.inStrategy
      /\ d.vaults = ch.vaults
  BY <1>1 DEF Chains
<1> HIDE DEF d
<1>4. d \in WiredChains
  BY <1>2, <1>3, WiringKept
<1> QED BY <1>4 DEF ApproveStrategy, When, d

(* Calls that neither rewire nor move want *)
LEMMA SettingsKeep ==
  ASSUME Lists, NEW ch \in WiredChains, NEW by, NEW w \in Wants, NEW a \in Accounts
  PROVE  /\ Pause(ch, by, w) \subseteq WiredChains
         /\ Unpause(ch, by, w) \subseteq WiredChains
         /\ SetMin(ch, by, w) \subseteq WiredChains
         /\ SetKeeper(ch, by, w) \subseteq WiredChains
         /\ SetSettGovernance(ch, by, w, a) \subseteq WiredChains
<1>1. ch \in Chains
  BY DEF WiredChains
<1>2. ASSUME NEW p \in SUBSET Wants PROVE [ch EXCEPT !.paused = p] \in WiredChains
  <2> DEFINE d == [ch EXCEPT !.paused = p]
  <2>1. d \in Chains
    BY <1>1 DEF Chains
  <2>2. /\ d.working = ch.working /\ d.settController = ch.settController
        /\ d.strategyController = ch.strategyController /\ d.inStrategy = ch.inStrategy
        /\ d.vaults = ch.vaults
    BY <1>1 DEF Chains
  <2> HIDE DEF d
  <2>3. d \in WiredChains
    BY <2>1, <2>2, WiringKept
  <2> QED BY <2>3 DEF d
<1>3. Pause(ch, by, w) \subseteq WiredChains /\ Unpause(ch, by, w) \subseteq WiredChains
  <2>1. /\ [ch EXCEPT !.paused = @ \cup {w}] = [ch EXCEPT !.paused = ch.paused \cup {w}]
        /\ [ch EXCEPT !.paused = @ \ {w}] = [ch EXCEPT !.paused = ch.paused \ {w}]
        /\ ch.paused \cup {w} \in SUBSET Wants /\ ch.paused \ {w} \in SUBSET Wants
    BY <1>1 DEF Chains
  <2>2. /\ [ch EXCEPT !.paused = @ \cup {w}] \in WiredChains
        /\ [ch EXCEPT !.paused = @ \ {w}] \in WiredChains
    BY <1>2, <2>1
  <2> QED BY <2>2 DEF Pause, Unpause, When
<1>4. SetSettGovernance(ch, by, w, a) \subseteq WiredChains
  <2> DEFINE d == [ch EXCEPT !.settGovernance[w] = a]
  <2>1. d \in Chains
    BY <1>1 DEF Chains
  <2>2. /\ d.working = ch.working /\ d.settController = ch.settController
        /\ d.strategyController = ch.strategyController /\ d.inStrategy = ch.inStrategy
        /\ d.vaults = ch.vaults
    BY <1>1 DEF Chains
  <2> HIDE DEF d
  <2>3. d \in WiredChains
    BY <2>1, <2>2, WiringKept
  <2> QED BY <2>3 DEF SetSettGovernance, When, d
<1> QED BY <1>3, <1>4 DEF SetMin, SetKeeper, When

LEMMA StrategySettingsKeep ==
  ASSUME Lists, NEW ch \in WiredChains, NEW by, NEW s \in Strategies, NEW a \in Accounts
  PROVE  /\ SetFees(ch, by, s) \subseteq WiredChains
         /\ Upgrade(ch, by, s) \subseteq WiredChains
         /\ SetStrategyGovernance(ch, by, s, a) \subseteq WiredChains
<1> DEFINE d == [ch EXCEPT !.strategyGovernance[s] = a]
<1>1. ch \in Chains
  BY DEF WiredChains
<1>2. d \in Chains
  BY <1>1 DEF Chains
<1>3. /\ d.working = ch.working /\ d.settController = ch.settController
      /\ d.strategyController = ch.strategyController /\ d.inStrategy = ch.inStrategy
      /\ d.vaults = ch.vaults
  BY <1>1 DEF Chains
<1> HIDE DEF d
<1>4. d \in WiredChains
  BY <1>2, <1>3, WiringKept
<1> QED BY <1>4 DEF SetFees, Upgrade, SetStrategyGovernance, When, d

(* A Sett to add whose strategy holds want has the experimental Controller *)
(* already.                                                                *)
LEMMA SetControllerKeeps ==
  ASSUME Lists, NEW ch \in WiredChains, NEW by, NEW w \in ToAdd
  PROVE  SetSettController(ch, by, w, Experimental) \subseteq WiredChains
<1> DEFINE d == [ch EXCEPT !.settController[w] = Experimental]
<1>1. ch \in Chains /\ Wired(ch)
  BY DEF WiredChains
<1>2. d \in Chains
  BY <1>1, Names DEF Chains
<1>3. /\ d.working = ch.working /\ d.vaults = ch.vaults
      /\ d.strategyController = ch.strategyController /\ d.inStrategy = ch.inStrategy
      /\ d.settController[w] = Experimental
      /\ \A v \in Wants \ {w} : d.settController[v] = ch.settController[v]
  BY <1>1, Names DEF Chains
<1> HIDE DEF d
<1>4. WorkForTheirWant(d) /\ AddedApart(d)
  BY <1>1, <1>3 DEF Wired, WorkForTheirWant, AddedApart
<1>5. MigratedStay(d)
  BY <1>1, <1>3, Names DEF Wired, MigratedStay
<1>6. ASSUME NEW s \in Strategies, Want[s] = w, ch.inStrategy[s] > 0
      PROVE  ch.settController[w] = Experimental
  <2>1. ch.working[ch.settController[w]][w] = s /\ ch.settController[w] \in Controllers
    BY <1>1, <1>6, Names DEF Wired, InReach, Chains
  <2> QED BY <1>1, <2>1, Names DEF Wired, AddedApart
<1>7. InReach(d)
  BY <1>1, <1>3, <1>6, Names DEF Wired, InReach
<1>8. d \in WiredChains
  BY <1>2, <1>4, <1>5, <1>7 DEF Wired, WiredChains
<1> QED BY <1>8 DEF SetSettController, When, d

(* A Sett to migrate has the native Controller already. *)
LEMMA SetStrategyControllerKeeps ==
  ASSUME Lists, NEW ch \in WiredChains, NEW by, NEW s \in For(ToMigrate)
  PROVE  SetStrategyController(ch, by, s, Native) \subseteq WiredChains
<1> DEFINE d == [ch EXCEPT !.strategyController[s] = Native]
<1>1. ch \in Chains /\ Wired(ch) /\ s \in Strategies /\ Want[s] \in ToMigrate
  BY DEF WiredChains, For
<1>2. d \in Chains
  BY <1>1, Names DEF Chains
<1>3. /\ d.working = ch.working /\ d.vaults = ch.vaults /\ d.inStrategy = ch.inStrategy
      /\ d.settController = ch.settController
      /\ d.strategyController[s] = Native
      /\ \A t \in Strategies \ {s} : d.strategyController[t] = ch.strategyController[t]
  BY <1>1, Names DEF Chains
<1> HIDE DEF d
<1>4. WorkForTheirWant(d) /\ AddedApart(d) /\ MigratedStay(d)
  BY <1>1, <1>3 DEF Wired, WorkForTheirWant, AddedApart, MigratedStay
<1>5. ch.settController[Want[s]] = Native
  BY <1>1 DEF Wired, MigratedStay
<1>6. InReach(d)
  BY <1>1, <1>3, <1>5 DEF Wired, InReach
<1>7. d \in WiredChains
  BY <1>2, <1>4, <1>6 DEF Wired, WiredChains
<1> QED BY <1>7 DEF SetStrategyController, When, d

-----------------------------------------------------------------------------
(* Moving want *)

LEMMA EmptiesIt ==
  ASSUME Lists, NEW ch \in WiredChains, NEW by \in Controllers, NEW s \in Strategies,
         NEW d \in StrategyWithdrawAll(ch, by, s)
  PROVE  /\ d \in WiredChains
         /\ d.working = ch.working /\ d.settController = ch.settController
         /\ d.strategyController = ch.strategyController /\ d.vaults = ch.vaults
         /\ d.inStrategy[s] = 0
         /\ \A t \in Strategies \ {s} : d.inStrategy[t] = ch.inStrategy[t]
<1>1. ch \in Chains
  BY DEF WiredChains
<1>2. d = [ch EXCEPT !.inStrategy[s] = 0, !.inSett[Want[s]] = @ + ch.inStrategy[s]]
  BY DEF StrategyWithdrawAll, When
<1>3. /\ d.working = ch.working /\ d.settController = ch.settController
      /\ d.strategyController = ch.strategyController /\ d.vaults = ch.vaults
      /\ d.inStrategy[s] = 0
      /\ \A t \in Strategies \ {s} : d.inStrategy[t] = ch.inStrategy[t]
  BY <1>1, <1>2 DEF Chains
<1>4. d \in Chains
  <2>1. ch.inSett[Want[s]] \in Nat /\ ch.inStrategy[s] \in Nat /\ Want[s] \in Wants
    BY <1>1, Names DEF Chains
  <2>2. ch.inSett[Want[s]] + ch.inStrategy[s] \in Nat
    BY <2>1
  <2> QED BY <1>1, <1>2, <2>1, <2>2 DEF Chains
<1>5. d \in WiredChains
  BY <1>3, <1>4, WiringKept
<1> QED BY <1>3, <1>5

(* Whoever the Controller has its strategy replaced by, the one before is  *)
(* left empty.                                                             *)
LEMMA SetStrategyKeeps ==
  ASSUME Lists, NEW ch \in WiredChains, NEW by, NEW c \in Controllers, NEW s \in Strategies,
         \/ c = Experimental /\ Want[s] \in ToAdd
         \/ c = Native /\ Want[s] \in ToMigrate
  PROVE  SetStrategy(ch, by, c, s) \subseteq WiredChains
<1> SUFFICES ASSUME NEW d \in SetStrategy(ch, by, c, s) PROVE d \in WiredChains
  OBVIOUS
<1> DEFINE w == Want[s]
           current == ch.working[c][w]
<1>1. ch \in Chains /\ Wired(ch) /\ w \in Wants
  BY Names DEF WiredChains
<1>2. PICK e \in (IF current = NoStrategy THEN {ch} ELSE StrategyWithdrawAll(ch, c, current)) :
        d = [e EXCEPT !.working[c][w] = s]
  BY DEF SetStrategy
<1>3. current \in Strategies \cup {NoStrategy}
  BY <1>1 DEF Chains
<1>4. /\ e \in WiredChains /\ e.working = ch.working
      /\ \A t \in Strategies : t = current => e.inStrategy[t] = 0
  BY <1>2, <1>3, EmptiesIt, Names
<1>5. e \in Chains /\ Wired(e)
  BY <1>4 DEF WiredChains
<1>6. d \in Chains
  BY <1>1, <1>2, <1>5 DEF Chains
<1>7. /\ d.vaults = e.vaults /\ d.inStrategy = e.inStrategy
      /\ d.settController = e.settController /\ d.strategyController = e.strategyController
      /\ d.working[c][w] = s
      /\ \A b \in Controllers, v \in Wants :
           ~(b = c /\ v = w) => d.working[b][v] = e.working[b][v]
  BY <1>1, <1>2, <1>5 DEF Chains
<1> HIDE DEF w, current
<1>8. WorkForTheirWant(d)
  BY <1>5, <1>7 DEF Wired, WorkForTheirWant, w
<1>9. AddedApart(d)
  BY <1>5, <1>7, Names DEF Wired, AddedApart, w
<1>10. MigratedStay(d)
  BY <1>5, <1>7 DEF Wired, MigratedStay
<1>11. InReach(d)
  <2> SUFFICES ASSUME NEW t \in Strategies, d.inStrategy[t] > 0
               PROVE  /\ d.working[d.settController[Want[t]]][Want[t]] = t
                      /\ d.strategyController[t] = d.settController[Want[t]]
                      /\ Want[t] \in d.vaults[d.settController[Want[t]]]
    BY DEF InReach
  <2> DEFINE v == Want[t]
             b == e.settController[v]
  <2>1. e.working[b][v] = t /\ e.strategyController[t] = b /\ v \in e.vaults[b]
    BY <1>5, <1>7 DEF Wired, InReach
  <2>2. b \in Controllers /\ v \in Wants
    BY <1>5, Names DEF Chains
  <2>3. ~(b = c /\ v = w)
    <3> SUFFICES ASSUME b = c, v = w PROVE FALSE
      OBVIOUS
    <3>1. current = t
      BY <1>4, <2>1 DEF current
    <3>2. e.inStrategy[t] = 0
      BY <1>4, <3>1
    <3> QED BY <1>7, <3>2
  <2> QED BY <1>7, <2>1, <2>2, <2>3
<1> QED BY <1>6, <1>8, <1>9, <1>10, <1>11 DEF Wired, WiredChains

LEMMA MigrateKeeps ==
  ASSUME Lists, NEW ch \in WiredChains, NEW by, NEW before, NEW after \in Strategies
  PROVE  Migrate(ch, by, Native, before, after) \subseteq WiredChains
<1> SUFFICES ASSUME NEW d \in Migrate(ch, by, Native, before, after) PROVE d \in WiredChains
  OBVIOUS
<1>1. Want[after] \in ch.vaults[Native] /\ d \in SetStrategy(ch, by, Native, after)
  BY DEF Migrate
<1>2. Want[after] \in ToMigrate
  BY <1>1 DEF WiredChains, Wired, MigratedStay
<1> QED BY <1>1, <1>2, SetStrategyKeeps, Names

LEMMA UsersKeep ==
  ASSUME Lists, NEW ch \in WiredChains, NEW w \in Wants
  PROVE  Deposit(ch, w) \subseteq WiredChains /\ Withdraw(ch, w) \subseteq WiredChains
<1>1. ch \in Chains
  BY DEF WiredChains
<1>2. ASSUME NEW n \in Nat PROVE [ch EXCEPT !.inSett[w] = n] \in WiredChains
  <2> DEFINE d == [ch EXCEPT !.inSett[w] = n]
  <2>1. d \in Chains
    BY <1>1 DEF Chains
  <2>2. /\ d.working = ch.working /\ d.settController = ch.settController
        /\ d.strategyController = ch.strategyController /\ d.inStrategy = ch.inStrategy
        /\ d.vaults = ch.vaults
    BY <1>1 DEF Chains
  <2> HIDE DEF d
  <2>3. d \in WiredChains
    BY <2>1, <2>2, WiringKept
  <2> QED BY <2>3 DEF d
<1>3. ch.inSett[w] \in Nat
  BY <1>1 DEF Chains
<1>4. Deposit(ch, w) \subseteq WiredChains
  <2>1. [ch EXCEPT !.inSett[w] = @ + 1] = [ch EXCEPT !.inSett[w] = ch.inSett[w] + 1]
    BY <1>1 DEF Chains
  <2>2. ch.inSett[w] + 1 \in Nat
    BY <1>3
  <2>3. [ch EXCEPT !.inSett[w] = @ + 1] \in WiredChains
    BY <1>2, <2>1, <2>2
  <2> QED BY <2>3 DEF Deposit, When
<1>5. StrategyWithdraw(ch, w) \subseteq WiredChains
  <2> SUFFICES ASSUME NEW d \in StrategyWithdraw(ch, w) PROVE d \in WiredChains
    OBVIOUS
  <2> DEFINE s == ch.working[ch.settController[w]][w]
  <2>1. d = [ch EXCEPT !.inStrategy[s] = @ - 1] /\ ch.inStrategy[s] > 0 /\ s # NoStrategy
    BY DEF StrategyWithdraw, When
  <2>2. s \in Strategies
    BY <1>1, <2>1 DEF Chains
  <2> HIDE DEF s
  <2>3. ch.inStrategy[s] - 1 \in Nat
    BY <1>1, <2>1, <2>2 DEF Chains
  <2>4. d \in Chains
    BY <1>1, <2>1, <2>2, <2>3 DEF Chains
  <2>5. /\ d.working = ch.working /\ d.settController = ch.settController
        /\ d.strategyController = ch.strategyController /\ d.vaults = ch.vaults
        /\ \A t \in Strategies \ {s} : d.inStrategy[t] = ch.inStrategy[t]
    BY <1>1, <2>1, <2>2 DEF Chains
  <2> QED BY <2>1, <2>4, <2>5, WiringKept
<1>6. ch.inSett[w] > 0 => [ch EXCEPT !.inSett[w] = @ - 1] \in WiredChains
  <2>1. ch.inSett[w] > 0 => ch.inSett[w] - 1 \in Nat
    BY <1>3
  <2>2. [ch EXCEPT !.inSett[w] = @ - 1] = [ch EXCEPT !.inSett[w] = ch.inSett[w] - 1]
    BY <1>1 DEF Chains
  <2> QED BY <1>2, <2>1, <2>2
<1> QED BY <1>4, <1>5, <1>6 DEF Withdraw

(* Want is put to work where it can be withdrawn from. *)
LEMMA EarnKeeps ==
  ASSUME Lists, NEW ch \in WiredChains, NEW w \in Wants, NEW n \in 1..ch.inSett[w]
  PROVE  Earn(ch, w, n) \subseteq WiredChains
<1> SUFFICES ASSUME NEW d \in Earn(ch, w, n) PROVE d \in WiredChains
  OBVIOUS
<1> DEFINE c == ch.settController[w]
           s == ch.working[c][w]
<1>1. /\ ch \in Chains /\ Wired(ch) /\ n \in Nat /\ ch.inSett[w] \in Nat /\ n <= ch.inSett[w]
      /\ c \in Controllers
  BY DEF WiredChains, Chains
<1>2. /\ d = [ch EXCEPT !.inSett[w] = @ - n, !.inStrategy[s] = @ + n]
      /\ s # NoStrategy /\ w \in ch.vaults[c] /\ ch.strategyController[s] = c
  BY SMTT(30) DEF Earn, When
<1>3. s \in Strategies /\ Want[s] = w
  BY SMTT(30), <1>1, <1>2 DEF Chains, Wired, WorkForTheirWant
<1> HIDE DEF c, s
<1>4. ch.inSett[w] - n \in Nat /\ ch.inStrategy[s] + n \in Nat
  BY <1>1, <1>3 DEF Chains
<1>5. d \in Chains
  BY <1>1, <1>2, <1>3, <1>4 DEF Chains
<1>6. /\ d.working = ch.working /\ d.settController = ch.settController
      /\ d.strategyController = ch.strategyController /\ d.vaults = ch.vaults
      /\ \A t \in Strategies \ {s} : d.inStrategy[t] = ch.inStrategy[t]
  BY <1>1, <1>2, <1>3 DEF Chains
<1>7. WorkForTheirWant(d) /\ AddedApart(d) /\ MigratedStay(d)
  BY <1>1, <1>6 DEF Wired, WorkForTheirWant, AddedApart, MigratedStay
<1>8. InReach(d)
  <2> SUFFICES ASSUME NEW t \in Strategies, d.inStrategy[t] > 0
               PROVE  /\ d.working[d.settController[Want[t]]][Want[t]] = t
                      /\ d.strategyController[t] = d.settController[Want[t]]
                      /\ Want[t] \in d.vaults[d.settController[Want[t]]]
    BY SMTT(30) DEF InReach
  <2>1. CASE t = s
    BY ZenonT(30), <1>2, <1>3, <1>6, <2>1 DEF c, s
  <2>2. CASE t # s
    BY <1>1, <1>6, <2>2 DEF Wired, InReach
  <2> QED BY <2>1, <2>2
<1> QED BY <1>5, <1>7, <1>8 DEF Wired, WiredChains

-----------------------------------------------------------------------------
(* The calls, as recorded *)

(* The chains that the safes' calls can lead to from ch: wired, and with   *)
(* what the native Controller approved before.                             *)
From(ch) == {d \in WiredChains : d.approved[Native] = ch.approved[Native]}

LEMMA ApprovedKept ==
  ASSUME Lists, NEW ch \in WiredChains, NEW by
  PROVE  /\ \A s : \A d \in ApproveStrategy(ch, by, Experimental, s) :
              d.approved[Native] = ch.approved[Native]
         /\ \A c, w : \A d \in SetVault(ch, by, c, w) : d.approved = ch.approved
         /\ \A w, c : \A d \in SetSettController(ch, by, w, c) : d.approved = ch.approved
         /\ \A w : \A d \in Pause(ch, by, w) : d.approved = ch.approved
         /\ \A w : \A d \in Unpause(ch, by, w) : d.approved = ch.approved
         /\ \A w : \A d \in SetMin(ch, by, w) : d.approved = ch.approved
         /\ \A w : \A d \in SetKeeper(ch, by, w) : d.approved = ch.approved
         /\ \A w, a : \A d \in SetSettGovernance(ch, by, w, a) : d.approved = ch.approved
         /\ \A s : \A d \in SetFees(ch, by, s) : d.approved = ch.approved
         /\ \A s : \A d \in Upgrade(ch, by, s) : d.approved = ch.approved
         /\ \A s, c : \A d \in SetStrategyController(ch, by, s, c) : d.approved = ch.approved
         /\ \A s, a : \A d \in SetStrategyGovernance(ch, by, s, a) : d.approved = ch.approved
<1>1. ch \in Chains
  BY DEF WiredChains
<1>2. \A s : \A d \in ApproveStrategy(ch, by, Experimental, s) :
        d.approved[Native] = ch.approved[Native]
  BY <1>1, Names DEF Chains, ApproveStrategy, When
<1> QED BY <1>1, <1>2 DEF Chains, SetVault, SetSettController, Pause, Unpause, SetMin,
       SetKeeper, SetSettGovernance, SetFees, Upgrade, SetStrategyController,
       SetStrategyGovernance, When

LEMMA SetStrategyApproves ==
  ASSUME Lists, NEW ch \in WiredChains, NEW by, NEW c \in Controllers, NEW s \in Strategies
  PROVE  \A d \in SetStrategy(ch, by, c, s) : d.approved = ch.approved
<1>1. ch \in Chains
  BY DEF WiredChains
<1>2. \A t, d : d \in StrategyWithdrawAll(ch, c, t) => d.approved = ch.approved
  BY <1>1 DEF Chains, StrategyWithdrawAll, When
<1> SUFFICES ASSUME NEW d \in SetStrategy(ch, by, c, s) PROVE d.approved = ch.approved
  OBVIOUS
<1>3. ch.working[c][Want[s]] \in Strategies \cup {NoStrategy}
  BY <1>1, Names DEF Chains
<1>4. PICK e \in (IF ch.working[c][Want[s]] = NoStrategy THEN {ch}
                  ELSE StrategyWithdrawAll(ch, c, ch.working[c][Want[s]])) :
        d = [e EXCEPT !.working[c][Want[s]] = s]
  BY DEF SetStrategy
<1>5. e \in WiredChains /\ e.approved = ch.approved
  BY <1>2, <1>3, <1>4, EmptiesIt
<1> QED BY <1>4, <1>5 DEF WiredChains, Chains

LEMMA PerformedKeeps ==
  ASSUME Lists, NEW ch \in WiredChains, NEW by, NEW call \in Calls
  PROVE  Performed(ch, by, call) \subseteq From(ch)
<1>1. CASE call \in [fn : {"setVault"}, controller : {Experimental}, sett : ToAdd]
  <2>1. call.fn = "setVault" /\ call.controller = Experimental /\ call.sett \in ToAdd
    BY <1>1
  <2>2. Performed(ch, by, call) = SetVault(ch, by, Experimental, call.sett)
    BY <2>1 DEF Performed
  <2>3. SetVault(ch, by, Experimental, call.sett) \subseteq WiredChains
    BY <2>1, SetVaultKeeps, Names
  <2>4. \A d \in SetVault(ch, by, Experimental, call.sett) : d.approved[Native] = ch.approved[Native]
    BY <2>1, ApprovedKept, Names
  <2> QED BY <2>2, <2>3, <2>4 DEF From
<1>2. CASE call \in [fn : {"approveStrategy"}, controller : {Experimental}, strategy : Strategies]
  <2>1. /\ call.fn = "approveStrategy" /\ call.controller = Experimental
        /\ call.strategy \in Strategies
    BY <1>2
  <2>2. Performed(ch, by, call) = ApproveStrategy(ch, by, Experimental, call.strategy)
    BY <2>1 DEF Performed
  <2>3. ApproveStrategy(ch, by, Experimental, call.strategy) \subseteq WiredChains
    BY <2>1, ApproveKeeps, Names
  <2>4. \A d \in ApproveStrategy(ch, by, Experimental, call.strategy) : d.approved[Native] = ch.approved[Native]
    BY <2>1, ApprovedKept, Names
  <2> QED BY <2>2, <2>3, <2>4 DEF From
<1>3. CASE call \in [fn : {"setStrategy"}, controller : {Experimental}, strategy : For(ToAdd)]
  <2>1. /\ call.fn = "setStrategy" /\ call.controller = Experimental
        /\ call.strategy \in For(ToAdd)
    BY <1>3
  <2>2. Performed(ch, by, call) = SetStrategy(ch, by, Experimental, call.strategy)
    BY <2>1 DEF Performed
  <2>3. SetStrategy(ch, by, Experimental, call.strategy) \subseteq WiredChains
    BY <2>1, SetStrategyKeeps, Names DEF For
  <2>4. \A d \in SetStrategy(ch, by, Experimental, call.strategy) : d.approved[Native] = ch.approved[Native]
    BY <2>1, SetStrategyApproves, Names DEF For
  <2> QED BY <2>2, <2>3, <2>4 DEF From
<1>4. CASE call \in [fn : {"setStrategy"}, controller : {Native}, strategy : For(ToMigrate)]
  <2>1. /\ call.fn = "setStrategy" /\ call.controller = Native
        /\ call.strategy \in For(ToMigrate)
    BY <1>4
  <2>2. Performed(ch, by, call) = SetStrategy(ch, by, Native, call.strategy)
    BY <2>1 DEF Performed
  <2>3. SetStrategy(ch, by, Native, call.strategy) \subseteq WiredChains
    BY <2>1, SetStrategyKeeps, Names DEF For
  <2>4. \A d \in SetStrategy(ch, by, Native, call.strategy) : d.approved[Native] = ch.approved[Native]
    BY <2>1, SetStrategyApproves, Names DEF For
  <2> QED BY <2>2, <2>3, <2>4 DEF From
<1>5. CASE call \in [fn : {"setController"}, sett : ToAdd, controller : {Experimental}]
  <2>1. /\ call.fn = "setController" /\ call.controller = Experimental
        /\ call.sett \in ToAdd
    BY <1>5
  <2>2. Performed(ch, by, call) = SetSettController(ch, by, call.sett, Experimental)
    BY <2>1 DEF Performed
  <2>3. SetSettController(ch, by, call.sett, Experimental) \subseteq WiredChains
    BY <2>1, SetControllerKeeps, Names
  <2>4. \A d \in SetSettController(ch, by, call.sett, Experimental) : d.approved[Native] = ch.approved[Native]
    BY <2>1, ApprovedKept, Names
  <2> QED BY <2>2, <2>3, <2>4 DEF From
<1>6. CASE call \in [fn : {"pause", "unpause", "setMin", "setKeeper"}, sett : Wants]
  <2>1. call.fn \in {"pause", "unpause", "setMin", "setKeeper"} /\ call.sett \in Wants
    BY <1>6
  <2>2. CASE call.fn = "pause"
    <3>1. Performed(ch, by, call) = Pause(ch, by, call.sett)
      BY <2>2 DEF Performed
    <3>2. Pause(ch, by, call.sett) \subseteq WiredChains
      BY <2>1, SettingsKeep, Names
    <3>3. \A d \in Pause(ch, by, call.sett) : d.approved[Native] = ch.approved[Native]
      BY ApprovedKept
    <3> QED BY <3>1, <3>2, <3>3 DEF From
  <2>3. CASE call.fn = "unpause"
    <3>1. Performed(ch, by, call) = Unpause(ch, by, call.sett)
      BY <2>3 DEF Performed
    <3>2. Unpause(ch, by, call.sett) \subseteq WiredChains
      BY <2>1, SettingsKeep, Names
    <3>3. \A d \in Unpause(ch, by, call.sett) : d.approved[Native] = ch.approved[Native]
      BY ApprovedKept
    <3> QED BY <3>1, <3>2, <3>3 DEF From
  <2>4. CASE call.fn = "setMin"
    <3>1. Performed(ch, by, call) = SetMin(ch, by, call.sett)
      BY <2>4 DEF Performed
    <3>2. SetMin(ch, by, call.sett) \subseteq WiredChains
      BY <2>1, SettingsKeep, Names
    <3>3. \A d \in SetMin(ch, by, call.sett) : d.approved[Native] = ch.approved[Native]
      BY ApprovedKept
    <3> QED BY <3>1, <3>2, <3>3 DEF From
  <2>5. CASE call.fn = "setKeeper"
    <3>1. Performed(ch, by, call) = SetKeeper(ch, by, call.sett)
      BY <2>5 DEF Performed
    <3>2. SetKeeper(ch, by, call.sett) \subseteq WiredChains
      BY <2>1, SettingsKeep, Names
    <3>3. \A d \in SetKeeper(ch, by, call.sett) : d.approved[Native] = ch.approved[Native]
      BY ApprovedKept
    <3> QED BY <3>1, <3>2, <3>3 DEF From
  <2> QED BY <2>1, <2>2, <2>3, <2>4, <2>5
<1>7. CASE call \in [fn : {"setGovernance"}, sett : Wants, to : Accounts]
  <2>1. call.fn = "setGovernance" /\ call.sett \in Wants /\ call.to \in Accounts
    BY <1>7
  <2>2. Performed(ch, by, call) = SetSettGovernance(ch, by, call.sett, call.to)
    BY <2>1 DEF Performed
  <2>3. SetSettGovernance(ch, by, call.sett, call.to) \subseteq WiredChains
    BY <2>1, SettingsKeep, Names
  <2>4. \A d \in SetSettGovernance(ch, by, call.sett, call.to) : d.approved[Native] = ch.approved[Native]
    BY <2>1, ApprovedKept, Names
  <2> QED BY <2>2, <2>3, <2>4 DEF From
<1>8. CASE call \in [fn : {"setFees", "upgrade"}, strategy : Strategies]
  <2>1. call.fn \in {"setFees", "upgrade"} /\ call.strategy \in Strategies
    BY <1>8
  <2>2. CASE call.fn = "setFees"
    <3>1. Performed(ch, by, call) = SetFees(ch, by, call.strategy)
      BY <2>2 DEF Performed
    <3>2. SetFees(ch, by, call.strategy) \subseteq WiredChains
      BY <2>1, StrategySettingsKeep, Names
    <3>3. \A d \in SetFees(ch, by, call.strategy) : d.approved[Native] = ch.approved[Native]
      BY ApprovedKept
    <3> QED BY <3>1, <3>2, <3>3 DEF From
  <2>3. CASE call.fn = "upgrade"
    <3>1. Performed(ch, by, call) = Upgrade(ch, by, call.strategy)
      BY <2>3 DEF Performed
    <3>2. Upgrade(ch, by, call.strategy) \subseteq WiredChains
      BY <2>1, StrategySettingsKeep, Names
    <3>3. \A d \in Upgrade(ch, by, call.strategy) : d.approved[Native] = ch.approved[Native]
      BY ApprovedKept
    <3> QED BY <3>1, <3>2, <3>3 DEF From
  <2> QED BY <2>1, <2>2, <2>3
<1>9. CASE call \in [fn : {"setStrategyController"}, strategy : For(ToMigrate), controller : {Native}]
  <2>1. /\ call.fn = "setStrategyController" /\ call.controller = Native
        /\ call.strategy \in For(ToMigrate)
    BY <1>9
  <2>2. Performed(ch, by, call) = SetStrategyController(ch, by, call.strategy, Native)
    BY <2>1 DEF Performed
  <2>3. SetStrategyController(ch, by, call.strategy, Native) \subseteq WiredChains
    BY <2>1, SetStrategyControllerKeeps, Names
  <2>4. \A d \in SetStrategyController(ch, by, call.strategy, Native) : d.approved[Native] = ch.approved[Native]
    BY <2>1, ApprovedKept, Names
  <2> QED BY <2>2, <2>3, <2>4 DEF From
<1>10. CASE call \in [fn : {"setStrategyGovernance"}, strategy : Strategies, to : Accounts]
  <2>1. /\ call.fn = "setStrategyGovernance"
        /\ call.strategy \in Strategies /\ call.to \in Accounts
    BY <1>10
  <2>2. Performed(ch, by, call) = SetStrategyGovernance(ch, by, call.strategy, call.to)
    BY <2>1 DEF Performed
  <2>3. SetStrategyGovernance(ch, by, call.strategy, call.to) \subseteq WiredChains
    BY <2>1, StrategySettingsKeep, Names
  <2>4. \A d \in SetStrategyGovernance(ch, by, call.strategy, call.to) : d.approved[Native] = ch.approved[Native]
    BY <2>1, ApprovedKept, Names
  <2> QED BY <2>2, <2>3, <2>4 DEF From
<1>11. CASE call \in [fn : {"migrate"}, controller : {Native}, before : Strategies,
                      after : Strategies]
  <2>1. call.fn = "migrate" /\ call.controller = Native /\ call.after \in Strategies
    BY <1>11
  <2>2. Performed(ch, by, call) = Migrate(ch, by, Native, call.before, call.after)
    BY <2>1 DEF Performed
  <2>3. Migrate(ch, by, Native, call.before, call.after)
          \subseteq SetStrategy(ch, by, Native, call.after)
    BY DEF Migrate
  <2> QED BY <2>1, <2>2, <2>3, MigrateKeeps, SetStrategyApproves, Names DEF From
<1> QED BY <1>1, <1>2, <1>3, <1>4, <1>5, <1>6, <1>7, <1>8, <1>9, <1>10, <1>11 DEF Calls

(* The calls of a batch, one after the other *)
LEMMA ExecutedKeeps ==
  ASSUME Lists, NEW ch \in WiredChains, NEW by, NEW calls \in Seq(Calls)
  PROVE  Executed(ch, by, calls) \subseteq From(ch)
<1> DEFINE D == 1..Len(calls)
           P == SUBSET From(ch)
           After(i, R) == UNION {Performed(d, by, calls[i]) : d \in R}
           G(g) == g = [s \in SUBSET D |-> IF s = {} THEN {ch}
                                         ELSE LET x == Max(s) IN After(x, g[s \ {x}])]
           pick == [s \in SUBSET D |-> Max(s)]
<1>1. DOMAIN calls = D /\ IsFiniteSet(D) /\ Len(calls) \in Nat
  BY FS_Interval
<1>2. \A s \in SUBSET D : s # {} => pick[s] \in s
  BY <1>1, LargestOf DEF Max
<1>3. Executed(ch, by, calls) = (CHOOSE g : G(g))[D]
  BY <1>1 DEF Executed, FoldLeft, MapThenFoldSet
<1>4. {ch} \in P
  BY DEF From
<1>5. ASSUME NEW i \in D, NEW R \in P PROVE After(i, R) \in P
  <2>1. calls[i] \in Calls
    BY <1>1
  <2>2. \A d \in R : d \in WiredChains /\ d.approved[Native] = ch.approved[Native]
    BY DEF From
  <2>3. \A d \in R : Performed(d, by, calls[i]) \subseteq From(ch)
    BY <2>1, <2>2, PerformedKeeps DEF From
  <2> QED BY <2>3
<1> HIDE DEF D, P, After
<1>6. \E g : G(g)
  <2> DEFINE step == [i \in D |-> [R \in P |-> After(i, R)]]
  <2>1. \A i \in D, R \in P : step[i][R] = After(i, R)
    OBVIOUS
  <2> HIDE DEF pick, step
  <2>2. PICK g : FoldsIn(g, D, {ch}, step, pick)
    BY <1>1, <1>2, FoldExists
  <2>3. \A s \in SUBSET D : g[s] \in P
    <3>1. \A i \in D, R \in P : step[i][R] \in P
      BY <1>5, <2>1
    <3> HIDE DEF G
    <3> QED BY <1>1, <1>2, <1>4, <2>2, <3>1, FoldedType
  <2>4. \A s \in SUBSET D : s # {} => step[pick[s]][g[s \ {pick[s]}]] = After(pick[s], g[s \ {pick[s]}])
    BY ZenonT(30), <1>2, <2>1, <2>3
  <2>5. G(g)
    BY ZenonT(30), <2>2, <2>4 DEF FoldsIn, pick
  <2> QED BY <2>5
<1> DEFINE h == CHOOSE g : G(g)
<1>7. G(h)
  <2> HIDE DEF G
  <2> QED BY <1>6
<1> HIDE DEF h
<1>8. h[D] \in P
  <2> DEFINE Q == P \cup {h[s] : s \in SUBSET D}
             step == [i \in D |-> [R \in Q |-> After(i, R)]]
  <2>1. \A i \in D, R \in P : step[i][R] \in P
    BY <1>5
  <2>2. \A s \in SUBSET D : s # {} => step[pick[s]][h[s \ {pick[s]}]] = After(pick[s], h[s \ {pick[s]}])
    BY <1>2
  <2> HIDE DEF step
  <2>3. FoldsIn(h, D, {ch}, step, pick)
    BY <1>7, <2>2 DEF FoldsIn
  <2> HIDE DEF pick
  <2> QED BY <1>1, <1>2, <1>4, <2>1, <2>3, FoldedType
<1> QED BY <1>3, <1>8 DEF h, P

-----------------------------------------------------------------------------
(* Sessions and batches *)

LEMMA FlattenType ==
  ASSUME NEW S, NEW seqs \in Seq(Seq(S))
  PROVE  FlattenSeq(seqs) \in Seq(S)
<1>1. CASE seqs = <<>>
  BY <1>1 DEF FlattenSeq
<1>2. CASE seqs # <<>>
  <2>1. FlattenSeq(seqs) = (CHOOSE f : Joins(f, seqs, Len(seqs)))[Len(seqs)]
    BY <1>2 DEF FlattenSeq, Joins
  <2> QED BY <1>2, <2>1, JoinedType
<1> QED BY <1>1, <1>2

LEMMA ForEachType ==
  ASSUME NEW keys \in Seq(Wants), NEW f, f = [i \in DOMAIN keys |-> f[i]],
         \A i \in DOMAIN keys : f[i] \in Seq(Calls)
  PROVE  FlattenSeq(f) \in Seq(Calls)
<1>1. f \in Seq(Seq(Calls))
  OBVIOUS
<1> QED BY <1>1, FlattenType

(* The deploy file's strategies *)
StrategyOf == {f \in [Keys -> Strategies] : \A w \in Keys : Want[f[w]] = w}

LEMMA ListedWants ==
  ASSUME Lists, NEW f \in StrategyOf
  PROVE  /\ toAdd \in Seq(Wants) /\ toMigrate \in Seq(Wants)
         /\ \A i \in DOMAIN toAdd :
              toAdd[i] \in ToAdd /\ toAdd[i] \in Wants /\ f[toAdd[i]] \in For(ToAdd)
         /\ \A i \in DOMAIN toMigrate :
              /\ toMigrate[i] \in ToMigrate /\ toMigrate[i] \in Wants
              /\ f[toMigrate[i]] \in For(ToMigrate)
BY DEF Lists, ToAdd, ToMigrate, ToSet, StrategyOf, For, Keys

LEMMA CallsTyped ==
  ASSUME Lists, NEW f \in StrategyOf, NEW name \in Functions \cup {"publish"}
  PROVE  CallsOf(name, f) \in Seq(Calls)
<1>1. SetVaultsOnController \in Seq(Calls)
  <2> DEFINE g == [i \in DOMAIN toAdd |->
                    <<[fn |-> "setVault", controller |-> Experimental, sett |-> toAdd[i]]>>]
  <2>1. \A i \in DOMAIN toAdd : g[i] \in Seq(Calls)
    BY ListedWants, Names DEF Calls, For
  <2>2. SetVaultsOnController = FlattenSeq(g)
    BY DEF SetVaultsOnController, ForEach
  <2> HIDE DEF g
  <2> QED BY <2>1, <2>2, ListedWants, ForEachType DEF g
<1>2. ApproveStrategies(f) \in Seq(Calls)
  <2> DEFINE g == [i \in DOMAIN toAdd |->
                    <<[fn |-> "approveStrategy", controller |-> Experimental, strategy |-> f[toAdd[i]]],
                      [fn |-> "setStrategy", controller |-> Experimental, strategy |-> f[toAdd[i]]]>>]
  <2>1. \A i \in DOMAIN toAdd : g[i] \in Seq(Calls)
    BY ListedWants, Names DEF Calls, For
  <2>2. ApproveStrategies(f) = FlattenSeq(g)
    BY DEF ApproveStrategies, ForEach
  <2> HIDE DEF g
  <2> QED BY <2>1, <2>2, ListedWants, ForEachType DEF g
<1>3. UnpauseVaults \in Seq(Calls)
  <2> DEFINE g == [i \in DOMAIN toAdd |->
                    <<[fn |-> "unpause", sett |-> toAdd[i]]>>]
  <2>1. \A i \in DOMAIN toAdd : g[i] \in Seq(Calls)
    BY ListedWants, Names DEF Calls, For
  <2>2. UnpauseVaults = FlattenSeq(g)
    BY DEF UnpauseVaults, ForEach
  <2> HIDE DEF g
  <2> QED BY <2>1, <2>2, ListedWants, ForEachType DEF g
<1>4. SetControllerOnVaults \in Seq(Calls)
  <2> DEFINE g == [i \in DOMAIN toAdd |->
                    <<[fn |-> "unpause", sett |-> toAdd[i]],
                      [fn |-> "setController", sett |-> toAdd[i], controller |-> Experimental],
                      [fn |-> "pause", sett |-> toAdd[i]]>>]
  <2>1. \A i \in DOMAIN toAdd : g[i] \in Seq(Calls)
    BY ListedWants, Names DEF Calls, For
  <2>2. SetControllerOnVaults = FlattenSeq(g)
    BY DEF SetControllerOnVaults, ForEach
  <2> HIDE DEF g
  <2> QED BY <2>1, <2>2, ListedWants, ForEachType DEF g
<1>5. SetGovernance \in Seq(Calls)
  <2> DEFINE g == [i \in DOMAIN toAdd |->
                    <<[fn |-> "setGovernance", sett |-> toAdd[i], to |-> Dev]>>]
  <2>1. \A i \in DOMAIN toAdd : g[i] \in Seq(Calls)
    BY ListedWants, Names DEF Calls, For
  <2>2. SetGovernance = FlattenSeq(g)
    BY DEF SetGovernance, ForEach
  <2> HIDE DEF g
  <2> QED BY <2>1, <2>2, ListedWants, ForEachType DEF g
<1>6. SetControllerOnStrategies(f) \in Seq(Calls)
  <2> DEFINE g == [i \in DOMAIN toMigrate |->
                    <<[fn |-> "setStrategyController", strategy |-> f[toMigrate[i]], controller |-> Native],
                      [fn |-> "setStrategyGovernance", strategy |-> f[toMigrate[i]], to |-> Ops]>>]
  <2>1. \A i \in DOMAIN toMigrate : g[i] \in Seq(Calls)
    BY ListedWants, Names DEF Calls, For
  <2>2. SetControllerOnStrategies(f) = FlattenSeq(g)
    BY DEF SetControllerOnStrategies, ForEach
  <2> HIDE DEF g
  <2> QED BY <2>1, <2>2, ListedWants, ForEachType DEF g
<1>7. SetStrategiesOnController(f) \in Seq(Calls)
  <2> DEFINE g == [i \in DOMAIN toMigrate |->
                    <<[fn |-> "setStrategy", controller |-> Native, strategy |-> f[toMigrate[i]]]>>]
  <2>1. \A i \in DOMAIN toMigrate : g[i] \in Seq(Calls)
    BY ListedWants, Names DEF Calls, For
  <2>2. SetStrategiesOnController(f) = FlattenSeq(g)
    BY DEF SetStrategiesOnController, ForEach
  <2> HIDE DEF g
  <2> QED BY <2>1, <2>2, ListedWants, ForEachType DEF g
<1>8. SetMinOfVaults \in Seq(Calls)
  <2> DEFINE g == [i \in DOMAIN toMigrate |->
                    <<[fn |-> "setMin", sett |-> toMigrate[i]]>>]
  <2>1. \A i \in DOMAIN toMigrate : g[i] \in Seq(Calls)
    BY ListedWants, Names DEF Calls, For
  <2>2. SetMinOfVaults = FlattenSeq(g)
    BY DEF SetMinOfVaults, ForEach
  <2> HIDE DEF g
  <2> QED BY <2>1, <2>2, ListedWants, ForEachType DEF g
<1>9. SetKeeperOfVaults \in Seq(Calls)
  <2> DEFINE g == [i \in DOMAIN toMigrate |->
                    <<[fn |-> "setKeeper", sett |-> toMigrate[i]]>>]
  <2>1. \A i \in DOMAIN toMigrate : g[i] \in Seq(Calls)
    BY ListedWants, Names DEF Calls, For
  <2>2. SetKeeperOfVaults = FlattenSeq(g)
    BY DEF SetKeeperOfVaults, ForEach
  <2> HIDE DEF g
  <2> QED BY <2>1, <2>2, ListedWants, ForEachType DEF g
<1>10. /\ SetStrategyFees(f) \in Seq(Calls) /\ SetPerformanceFees(f) \in Seq(Calls)
       /\ ModifyCurveSwapAddresses(f) \in Seq(Calls)
  <2> DEFINE g == [i \in DOMAIN toAdd |-> <<[fn |-> "setFees", strategy |-> f[toAdd[i]]]>>]
  <2>1. \A i \in DOMAIN toAdd : g[i] \in Seq(Calls)
    BY ListedWants, Names DEF Calls, For
  <2>2. /\ SetStrategyFees(f) = FlattenSeq(g) /\ SetPerformanceFees(f) = FlattenSeq(g)
        /\ ModifyCurveSwapAddresses(f) = FlattenSeq(g)
    BY DEF SetStrategyFees, SetPerformanceFees, ModifyCurveSwapAddresses, ForEach
  <2> HIDE DEF g
  <2> QED BY <2>1, <2>2, ListedWants, ForEachType DEF g
<1>11. UpgradeStrategies(f) \in Seq(Calls)
  <2> DEFINE g == [i \in DOMAIN toMigrate |->
                    <<[fn |-> "upgrade", strategy |-> f[toMigrate[i]]]>>]
  <2>1. \A i \in DOMAIN toMigrate : g[i] \in Seq(Calls)
    BY ListedWants, Names DEF Calls, For
  <2>2. UpgradeStrategies(f) = FlattenSeq(g)
    BY DEF UpgradeStrategies, ForEach
  <2> HIDE DEF g
  <2> QED BY <2>1, <2>2, ListedWants, ForEachType DEF g
<1> QED BY <1>1, <1>2, <1>3, <1>4, <1>5, <1>6, <1>7, <1>8, <1>9, <1>10, <1>11
       DEF CallsOf, Functions

LEMMA MigrateCallsTyped ==
  ASSUME Lists, NEW pairs \in [ToSet(toMigrate) -> [before : Strategies, after : Strategies]]
  PROVE  MigrateCalls(pairs) \in Seq(Calls)
<1> DEFINE g == [i \in DOMAIN toMigrate |->
                  <<[fn |-> "migrate", controller |-> Native,
                     before |-> pairs[toMigrate[i]].before,
                     after |-> pairs[toMigrate[i]].after]>>]
<1>1. \A i \in DOMAIN toMigrate : pairs[toMigrate[i]] \in [before : Strategies, after : Strategies]
  BY DEF ToSet
<1>2. \A i \in DOMAIN toMigrate : g[i] \in Seq(Calls)
  BY <1>1 DEF Calls
<1>3. MigrateCalls(pairs) = FlattenSeq(g)
  BY DEF MigrateCalls, ForEach
<1> HIDE DEF g
<1>4. toMigrate \in Seq(Wants)
  BY DEF Lists
<1> QED BY <1>2, <1>3, <1>4, ForEachType DEF g

Sessions ==
  [safe : Safes, strategyOf : StrategyOf, fork : WiredChains, receipts : Seq(Calls),
   posts : Seq(Seq(Calls))]

LEMMA RanFunctionKeeps ==
  ASSUME Lists, NEW se \in Sessions, NEW name \in Functions \cup {"publish"}
  PROVE  RanFunction(se, name) \subseteq Sessions
<1> DEFINE calls == CallsOf(name, se.strategyOf)
           receipts == se.receipts \o calls
<1>1. /\ se.strategyOf \in StrategyOf /\ se.fork \in WiredChains /\ se.receipts \in Seq(Calls)
      /\ se.posts \in Seq(Seq(Calls))
  BY DEF Sessions
<1>2. calls \in Seq(Calls)
  BY <1>1, CallsTyped
<1> HIDE DEF calls
<1>3. receipts \in Seq(Calls) /\ Append(se.posts, receipts) \in Seq(Seq(Calls))
  BY <1>1, <1>2
<1>4. Executed(se.fork, se.safe, calls) \subseteq WiredChains
  BY <1>1, <1>2, ExecutedKeeps DEF From
<1> HIDE DEF receipts
<1> SUFFICES ASSUME NEW x \in RanFunction(se, name) PROVE x \in Sessions
  OBVIOUS
<1>5. PICK d \in WiredChains :
        x = [se EXCEPT !.fork = d, !.receipts = receipts,
                       !.posts = IF Publishes(name) THEN Append(@, receipts) ELSE @]
  BY <1>4 DEF RanFunction, calls, receipts
<1> QED BY <1>1, <1>3, <1>5 DEF Sessions

(* The functions of a session, one after the other *)
LEMMA RanKeeps ==
  ASSUME Lists, NEW se \in Sessions, NEW names \in Seq(Functions \cup {"publish"})
  PROVE  Ran(se, names) \subseteq Sessions
<1> DEFINE D == 1..Len(names)
           P == SUBSET Sessions
           After(i, R) == UNION {RanFunction(x, names[i]) : x \in R}
           G(g) == g = [s \in SUBSET D |-> IF s = {} THEN {se}
                                         ELSE LET x == Max(s) IN After(x, g[s \ {x}])]
           pick == [s \in SUBSET D |-> Max(s)]
<1>1. DOMAIN names = D /\ IsFiniteSet(D) /\ Len(names) \in Nat
  BY FS_Interval
<1>2. \A s \in SUBSET D : s # {} => pick[s] \in s
  BY <1>1, LargestOf DEF Max
<1>3. Ran(se, names) = (CHOOSE g : G(g))[D]
  BY <1>1 DEF Ran, FoldLeft, MapThenFoldSet
<1>4. {se} \in P
  OBVIOUS
<1>5. ASSUME NEW i \in D, NEW R \in P PROVE After(i, R) \in P
  <2>1. names[i] \in Functions \cup {"publish"}
    BY <1>1
  <2>2. \A x \in R : RanFunction(x, names[i]) \subseteq Sessions
    BY <2>1, RanFunctionKeeps
  <2> QED BY <2>2
<1> HIDE DEF D, P, After
<1>6. \E g : G(g)
  <2> DEFINE step == [i \in D |-> [R \in P |-> After(i, R)]]
  <2>1. \A i \in D, R \in P : step[i][R] = After(i, R)
    OBVIOUS
  <2> HIDE DEF pick, step
  <2>2. PICK g : FoldsIn(g, D, {se}, step, pick)
    BY <1>1, <1>2, FoldExists
  <2>3. \A s \in SUBSET D : g[s] \in P
    <3>1. \A i \in D, R \in P : step[i][R] \in P
      BY <1>5, <2>1
    <3> HIDE DEF G
    <3> QED BY <1>1, <1>2, <1>4, <2>2, <3>1, FoldedType
  <2>4. \A s \in SUBSET D : s # {} => step[pick[s]][g[s \ {pick[s]}]] = After(pick[s], g[s \ {pick[s]}])
    BY ZenonT(30), <1>2, <2>1, <2>3
  <2>5. G(g)
    BY ZenonT(30), <2>2, <2>4 DEF FoldsIn, pick
  <2> QED BY <2>5
<1> DEFINE h == CHOOSE g : G(g)
<1>7. G(h)
  <2> HIDE DEF G
  <2> QED BY <1>6
<1> HIDE DEF h
<1>8. h[D] \in P
  <2> DEFINE Q == P \cup {h[s] : s \in SUBSET D}
             step == [i \in D |-> [R \in Q |-> After(i, R)]]
  <2>1. \A i \in D, R \in P : step[i][R] \in P
    BY <1>5
  <2>2. \A s \in SUBSET D : s # {} => step[pick[s]][h[s \ {pick[s]}]] = After(pick[s], h[s \ {pick[s]}])
    BY <1>2
  <2> HIDE DEF step
  <2>3. FoldsIn(h, D, {se}, step, pick)
    BY <1>7, <2>2 DEF FoldsIn
  <2> HIDE DEF pick
  <2> QED BY <1>1, <1>2, <1>4, <2>1, <2>3, FoldedType
<1> QED BY <1>3, <1>8 DEF h, P

-----------------------------------------------------------------------------
(* The campaign *)

LEMMA Initially == Init => IInv
<1> SUFFICES ASSUME Init PROVE IInv
  OBVIOUS
<1>1. Lists
  BY ZenonT(30), CampaignsAssumption DEF Init, Lists, ToAdd, ToMigrate
<1>2. /\ Native \in Controllers /\ ToAdd \subseteq Wants /\ ToMigrate \subseteq Wants
      /\ ToAdd \cap ToMigrate = {}
      /\ Want \in [Strategies -> Wants] /\ NoStrategy \notin Strategies
      /\ Dev \in Accounts /\ Ops \in Accounts /\ Test \in Accounts
      /\ Experimental \in Controllers /\ OldStrategies \subseteq Strategies /\ MaxWant \in Nat
  BY <1>1, Names, OldAssumption, TimesAssumption
<1>3. /\ chain.vaults = [c \in Controllers |-> IF c = Native THEN ToMigrate ELSE {}]
      /\ chain.working \in [Controllers -> [Wants -> Strategies \cup {NoStrategy}]]
      /\ \A c \in Controllers, w \in Wants :
           IF c = Native /\ w \in ToMigrate
           THEN chain.working[c][w] \in OldStrategies /\ Want[chain.working[c][w]] = w
           ELSE chain.working[c][w] = NoStrategy
      /\ chain.settController \in [Wants -> Controllers]
      /\ \A w \in Wants \ ToAdd : chain.settController[w] = Native
      /\ chain.inSett \in [Wants -> 0..MaxWant]
      /\ chain.inStrategy \in [Strategies -> 0..MaxWant]
      /\ \A s \in Strategies : chain.inStrategy[s] = 0
  BY DEF Init, ToAdd, ToMigrate
<1>4. chain \in Chains
  <2>1. /\ chain.strategist \in [Controllers -> Accounts]
        /\ chain.approved \in [Controllers -> SUBSET Strategies]
        /\ chain.settGovernance \in [Wants -> Accounts]
        /\ chain.paused \in SUBSET Wants
        /\ chain.strategyController \in [Strategies -> Controllers]
        /\ chain.strategyGovernance \in [Strategies -> Accounts]
    <3>1. /\ chain.strategist = [c \in Controllers |-> IF c = Native THEN Ops ELSE Test]
          /\ chain.approved = [c \in Controllers |-> IF c = Native THEN OldStrategies ELSE {}]
          /\ chain.settGovernance = [w \in Wants |-> IF w \in ToMigrate THEN Dev ELSE Test]
          /\ chain.paused = ToAdd
          /\ chain.strategyController = [s \in Strategies |->
                                         IF s \in OldStrategies THEN Native ELSE Experimental]
          /\ chain.strategyGovernance = [s \in Strategies |->
                                         IF s \in OldStrategies THEN Dev ELSE Test]
      BY DEF Init, ToAdd, ToMigrate
    <3> QED BY <1>2, <3>1
  <2>2. /\ chain.vaults \in [Controllers -> SUBSET Wants]
        /\ chain.inSett \in [Wants -> Nat] /\ chain.inStrategy \in [Strategies -> Nat]
    BY <1>2, <1>3
  <2>3. chain = [strategist |-> chain.strategist, vaults |-> chain.vaults,
                 approved |-> chain.approved, working |-> chain.working,
                 settController |-> chain.settController,
                 settGovernance |-> chain.settGovernance, paused |-> chain.paused,
                 strategyController |-> chain.strategyController,
                 strategyGovernance |-> chain.strategyGovernance,
                 inSett |-> chain.inSett, inStrategy |-> chain.inStrategy]
    BY DEF Init
  <2> QED BY <1>3, <2>1, <2>2, <2>3 DEF Chains
<1>5. Wired(chain)
  BY <1>2, <1>3 DEF Wired, WorkForTheirWant, AddedApart, MigratedStay, InReach
<1> QED BY <1>1, <1>4, <1>5
    DEF Init, IInv, MigrationTypeOK, WiredChains, QueuedWithNotice, RemovesExecuted

(* The lists, and with them what may be called, stay. *)
LEMMA ListsStay ==
  ASSUME UNCHANGED <<toAdd, toMigrate>>
  PROVE  /\ WiredChains' = WiredChains /\ Calls' = Calls /\ TimelockTxs' = TimelockTxs
         /\ Tasks' = Tasks /\ (Lists <=> Lists')
<1>1. ToAdd' = ToAdd /\ ToMigrate' = ToMigrate /\ Keys' = Keys
  BY DEF ToAdd, ToMigrate, Keys
<1>2. TimelockTxs' = TimelockTxs
  BY <1>1 DEF TimelockTxs, TimelockCalls
<1>3. For(ToAdd)' = For(ToAdd) /\ For(ToMigrate)' = For(ToMigrate)
  BY <1>1 DEF For
<1>4. Calls' = Calls
  BY <1>1, <1>3 DEF Calls
<1>5. \A ch : (Wired(ch)' <=> Wired(ch))
  BY <1>1 DEF Wired, WorkForTheirWant, AddedApart, MigratedStay, InReach
<1>6. WiredChains' = WiredChains
  BY <1>5 DEF WiredChains, Chains
<1> QED BY <1>1, <1>2, <1>4, <1>6 DEF Tasks, Lists

(* What the timelock's transactions do *)
LEMMA TimelockKeeps ==
  ASSUME IInv, NEW tx \in TimelockTxs
  PROVE  /\ Performed(chain, Timelock, tx.call) \subseteq WiredChains
         /\ \A d \in Performed(chain, Timelock, tx.call), s \in Strategies :
              s \in d.approved[Native] /\ s \notin chain.approved[Native] =>
                tx.call = [fn |-> "approveStrategy", controller |-> Native, strategy |-> s]
<1>1. Lists /\ chain \in WiredChains /\ chain \in Chains /\ tx.call \in TimelockCalls
  BY DEF IInv, MigrationTypeOK, WiredChains, TimelockTxs
<1>2. ASSUME NEW s \in Strategies,
             tx.call = [fn |-> "approveStrategy", controller |-> Native, strategy |-> s]
      PROVE  /\ Performed(chain, Timelock, tx.call) \subseteq WiredChains
             /\ \A d \in Performed(chain, Timelock, tx.call) :
                  d.approved[Native] \subseteq chain.approved[Native] \cup {s}
  <2>1. Performed(chain, Timelock, tx.call) = ApproveStrategy(chain, Timelock, Native, s)
    BY <1>2 DEF Performed
  <2>2. ApproveStrategy(chain, Timelock, Native, s) \subseteq WiredChains
    BY <1>1, ApproveKeeps, Names
  <2>3. \A d \in ApproveStrategy(chain, Timelock, Native, s) :
          d.approved[Native] \subseteq chain.approved[Native] \cup {s}
    BY <1>1, Names DEF ApproveStrategy, When, Chains
  <2> QED BY <2>1, <2>2, <2>3
<1>3. ASSUME NEW s \in Strategies, tx.call = [fn |-> "upgrade", strategy |-> s]
      PROVE  /\ Performed(chain, Timelock, tx.call) \subseteq WiredChains
             /\ \A d \in Performed(chain, Timelock, tx.call) :
                  d.approved[Native] = chain.approved[Native]
  <2>1. Performed(chain, Timelock, tx.call) = Upgrade(chain, Timelock, s)
    BY <1>3 DEF Performed
  <2>2. Upgrade(chain, Timelock, s) \subseteq WiredChains
    BY <1>1, StrategySettingsKeep, Names
  <2>3. \A d \in Upgrade(chain, Timelock, s) : d.approved = chain.approved
    BY <1>1, ApprovedKept
  <2> QED BY <2>1, <2>2, <2>3
<1>4. \E s \in Strategies :
        \/ tx.call = [fn |-> "approveStrategy", controller |-> Native, strategy |-> s]
        \/ tx.call = [fn |-> "upgrade", strategy |-> s]
  BY <1>1 DEF TimelockCalls
<1>5. PICK s \in Strategies :
        \/ tx.call = [fn |-> "approveStrategy", controller |-> Native, strategy |-> s]
        \/ tx.call = [fn |-> "upgrade", strategy |-> s]
  BY SMTT(30), <1>4
<1> QED BY <1>2, <1>3, <1>5

(* What users, keepers and guardians do approves nothing. *)
LEMMA UsersApprove ==
  ASSUME NEW ch \in WiredChains, NEW w
  PROVE  /\ \A d \in Deposit(ch, w) : d.approved = ch.approved
         /\ \A d \in Withdraw(ch, w) : d.approved = ch.approved
         /\ \A n : \A d \in Earn(ch, w, n) : d.approved = ch.approved
<1>1. ch \in Chains
  BY DEF WiredChains
<1> QED BY ZenonT(30), <1>1 DEF Deposit, Withdraw, StrategyWithdraw, Earn, When, Chains

LEMMA RunMainPosts ==
  ASSUME IInv, NEW a \in Safes, RunMain(a)
  PROVE  batches' \in [Safes -> Seq(Seq(Calls))]
<1>1. /\ Lists /\ chain \in WiredChains /\ batches \in [Safes -> Seq(Seq(Calls))]
  BY DEF IInv, MigrationTypeOK
<1>2. PICK f \in StrategyOf :
      \E names \in BoundedSeq(InPlay(f) \cup {"publish"}, MaxFunctions) :
      \E se \in Ran([safe |-> a, strategyOf |-> f, fork |-> chain,
                     receipts |-> <<>>, posts |-> <<>>], names) :
        batches' = [batches EXCEPT ![a] = @ \o se.posts]
  BY DEF RunMain, StrategyOf
<1>3. PICK names \in BoundedSeq(InPlay(f) \cup {"publish"}, MaxFunctions) :
      \E se \in Ran([safe |-> a, strategyOf |-> f, fork |-> chain,
                     receipts |-> <<>>, posts |-> <<>>], names) :
        batches' = [batches EXCEPT ![a] = @ \o se.posts]
  BY <1>2
<1>4. names \in Seq(Functions \cup {"publish"})
  <2>1. PICK m \in 0..MaxFunctions : names \in [1..m -> InPlay(f) \cup {"publish"}]
    BY DEF BoundedSeq, SeqOf
  <2>2. names \in [1..m -> Functions \cup {"publish"}] /\ m \in Nat
    BY <2>1, TimesAssumption DEF InPlay
  <2> QED BY <2>2
<1> DEFINE begun == [safe |-> a, strategyOf |-> f, fork |-> chain,
                     receipts |-> <<>>, posts |-> <<>>]
<1>5. begun \in Sessions
  BY <1>1 DEF Sessions
<1> HIDE DEF begun
<1>6. Ran(begun, names) \subseteq Sessions
  BY <1>1, <1>4, <1>5, RanKeeps
<1>7. PICK se \in Sessions : batches' = [batches EXCEPT ![a] = @ \o se.posts]
  BY <1>3, <1>6 DEF begun
<1>8. se.posts \in Seq(Seq(Calls)) /\ batches[a] \in Seq(Seq(Calls))
  BY <1>1 DEF Sessions
<1>9. batches[a] \o se.posts \in Seq(Seq(Calls))
  BY <1>8
<1> QED BY <1>1, <1>7, <1>9

(* Every step keeps the invariant: what it does to the batches and to the  *)
(* chain, and then to the timelock's records.                              *)
LEMMA StepKeepsTheChain ==
  ASSUME IInv, [Next]_vars
  PROVE  /\ Lists' /\ chain' \in WiredChains' /\ batches' \in [Safes -> Seq(Seq(Calls))]'
         /\ UNCHANGED <<toAdd, toMigrate>>
<1>1. /\ Lists /\ chain \in WiredChains /\ batches \in [Safes -> Seq(Seq(Calls))]
      /\ queued \subseteq TimelockTxs
  BY DEF IInv, MigrationTypeOK
<1>2. UNCHANGED <<toAdd, toMigrate>>
  BY DEF Next, vars, wiringVars, RunMain, ExecuteBatch, MigrateViaMigrator, UserDeposits,
     UserWithdraws, KeeperEarns, GuardianPauses, Tick, PrepareQueue, QueueTransaction,
     WriteFile, CancelTransaction, ExecuteFromParams, ExecuteFromFile, RemoveFile, ScriptEnds
<1>3. Keys \subseteq Wants
  BY <1>1, Names DEF Keys, ToAdd, ToMigrate
<1>4. chain' \in WiredChains
  <2>1. CASE UNCHANGED chain
    BY <1>1, <2>1
  <2>2. ASSUME NEW a \in Safes, ExecuteBatch(a) PROVE chain' \in WiredChains
    <3>1. Head(batches[a]) \in Seq(Calls)
      BY <1>1, <2>2 DEF ExecuteBatch
    <3>2. Executed(chain, a, Head(batches[a])) \subseteq WiredChains
      BY <1>1, <3>1, ExecutedKeeps DEF From
    <3> QED BY <1>1, <2>2, <3>2 DEF ExecuteBatch
  <2>3. ASSUME NEW w \in Keys, UserDeposits(w) \/ UserWithdraws(w) PROVE chain' \in WiredChains
    BY <1>1, <1>3, <2>3, UsersKeep DEF UserDeposits, UserWithdraws
  <2>4. ASSUME NEW w \in Keys, KeeperEarns(w) PROVE chain' \in WiredChains
    BY <1>1, <1>3, <2>4, EarnKeeps DEF KeeperEarns
  <2>5. ASSUME NEW w \in Keys, GuardianPauses(w) PROVE chain' \in WiredChains
    BY <1>1, <1>3, <2>5, SettingsKeep, Names DEF GuardianPauses
  <2>6. ASSUME NEW tx, ExecuteTransaction(tx) PROVE chain' \in WiredChains
    BY <1>1, <2>6, TimelockKeeps DEF ExecuteTransaction
  <2> QED BY <2>1, <2>2, <2>3, <2>4, <2>5, <2>6
      DEF Next, vars, wiringVars, RunMain, MigrateViaMigrator, Tick, PrepareQueue,
          QueueTransaction, WriteFile, CancelTransaction, ExecuteFromParams, ExecuteFromFile,
          RemoveFile, ScriptEnds
<1>5. batches' \in [Safes -> Seq(Seq(Calls))]
  <2>1. CASE UNCHANGED batches
    BY <1>1, <2>1
  <2>2. ASSUME NEW a \in Safes, ExecuteBatch(a) PROVE batches' \in [Safes -> Seq(Seq(Calls))]
    BY <1>1, <2>2 DEF ExecuteBatch
  <2>3. CASE MigrateViaMigrator
    <3>1. PICK pairs \in [ToSet(toMigrate) -> [before : Strategies, after : Strategies]] :
            batches' = [batches EXCEPT ![Ops] = Append(@, MigrateCalls(pairs))]
      BY <2>3 DEF MigrateViaMigrator
    <3>2. MigrateCalls(pairs) \in Seq(Calls)
      BY <1>1, MigrateCallsTyped
    <3>3. batches[Ops] \in Seq(Seq(Calls)) /\ Ops \in Safes
      BY <1>1 DEF Safes
    <3>4. Append(batches[Ops], MigrateCalls(pairs)) \in Seq(Seq(Calls))
      BY <3>2, <3>3
    <3> QED BY <1>1, <3>1, <3>3, <3>4
  <2> QED BY <2>1, <2>2, <2>3, RunMainPosts
      DEF Next, vars, wiringVars, UserDeposits, UserWithdraws, KeeperEarns, GuardianPauses, Tick,
          PrepareQueue, QueueTransaction, WriteFile, CancelTransaction, ExecuteFromParams,
          ExecuteFromFile, RemoveFile, ScriptEnds
<1> QED BY <1>1, <1>2, <1>4, <1>5, ListsStay

LEMMA StepKeepsTheRecords ==
  ASSUME IInv, [Next]_vars
  PROVE  /\ now' \in Nat
         /\ queued' \subseteq TimelockTxs /\ executeLog' \subseteq TimelockTxs
         /\ queueLog' \subseteq [tx : TimelockTxs, at : Nat]
         /\ files' \subseteq TimelockTxs
         /\ script' # Nothing => script' \in Tasks
         /\ QueuedWithNotice' /\ RemovesExecuted'
<1> DEFINE Goal ==
         /\ now' \in Nat
         /\ queued' \subseteq TimelockTxs /\ executeLog' \subseteq TimelockTxs
         /\ queueLog' \subseteq [tx : TimelockTxs, at : Nat]
         /\ files' \subseteq TimelockTxs
         /\ script' # Nothing => script' \in Tasks
         /\ QueuedWithNotice' /\ RemovesExecuted'
<1>1. /\ now \in Nat
      /\ queued \subseteq TimelockTxs /\ executeLog \subseteq TimelockTxs
      /\ queueLog \subseteq [tx : TimelockTxs, at : Nat]
      /\ files \subseteq TimelockTxs
      /\ script # Nothing => script \in Tasks
      /\ Delay \in Nat /\ EtaAhead \in Nat
  BY TimesAssumption DEF IInv, MigrationTypeOK
<1>2. QueuedWithNotice /\ RemovesExecuted
  BY DEF IInv
<1>3. CASE UNCHANGED <<now, queued, queueLog, executeLog, files, script>>
  BY <1>1, <1>2, <1>3 DEF QueuedWithNotice, RemovesExecuted
<1>4. CASE Tick
  BY <1>1, <1>2, <1>4 DEF Tick, QueuedWithNotice, RemovesExecuted
<1>5. CASE PrepareQueue
  <2>1. PICK call \in TimelockCalls :
          script' = [at |-> "queue", tx |-> [call |-> call, eta |-> now + EtaAhead]]
    BY <1>5 DEF PrepareQueue
  <2>2. script' \in Tasks /\ script'.at = "queue"
    BY <1>1, <2>1 DEF Tasks, TimelockTxs
  <2> QED BY <1>1, <1>2, <1>5, <2>2 DEF PrepareQueue, QueuedWithNotice, RemovesExecuted
<1>6. CASE QueueTransaction
  <2>1. script \in Tasks /\ script' = [script EXCEPT !.at = "file"]
    BY <1>1, <1>6 DEF QueueTransaction
  <2>2. script' \in Tasks /\ script'.at = "file" /\ script.tx \in TimelockTxs
    BY <2>1 DEF Tasks
  <2>3. CASE script.tx.eta >= now + Delay
    <3>1. /\ queued' = queued \cup {script.tx}
          /\ queueLog' = queueLog \cup {[tx |-> script.tx, at |-> now]}
      BY <1>6, <2>3 DEF QueueTransaction
    <3>2. QueuedWithNotice'
      <4> SUFFICES ASSUME NEW tx \in queued'
                   PROVE  \E e \in queueLog' : e.tx = tx /\ e.at + Delay <= tx.eta
        BY DEF QueuedWithNotice
      <4>1. CASE tx = script.tx
        <5>1. script.tx.eta \in Nat
          BY <2>2 DEF TimelockTxs
        <5>2. now + Delay <= script.tx.eta
          BY <1>1, <2>3, <5>1
        <5>3. [tx |-> script.tx, at |-> now] \in queueLog'
          BY <3>1
        <5> QED BY <4>1, <5>2, <5>3
      <4>2. CASE tx \in queued
        BY <1>2, <3>1, <4>2 DEF QueuedWithNotice
      <4> QED BY <3>1, <4>1, <4>2
    <3> QED BY <1>1, <1>6, <2>2, <3>1, <3>2 DEF QueueTransaction, RemovesExecuted
  <2>4. CASE ~(script.tx.eta >= now + Delay)
    BY <1>1, <1>2, <1>6, <2>2, <2>4 DEF QueueTransaction, QueuedWithNotice, RemovesExecuted
  <2> QED BY <2>3, <2>4
<1>7. CASE WriteFile
  <2>1. script \in Tasks /\ script' = [script EXCEPT !.at = "wait"]
    BY <1>1, <1>7 DEF WriteFile
  <2>2. script' \in Tasks /\ script'.at = "wait" /\ script.tx \in TimelockTxs
    BY <2>1 DEF Tasks
  <2> QED BY <1>1, <1>2, <1>7, <2>2 DEF WriteFile, QueuedWithNotice, RemovesExecuted
<1>8. CASE CancelTransaction
  BY <1>1, <1>2, <1>8 DEF CancelTransaction, QueuedWithNotice, RemovesExecuted
<1>9. CASE ExecuteFromParams
  BY <1>1, <1>2, <1>9
  DEF ExecuteFromParams, ExecuteTransaction, QueuedWithNotice, RemovesExecuted
<1>10. CASE ExecuteFromFile
  <2>1. PICK tx \in files : ExecuteTransaction(tx) /\ script' = [at |-> "remove", tx |-> tx]
    BY <1>10 DEF ExecuteFromFile
  <2>2. script' \in Tasks /\ script'.tx \in executeLog'
    BY <1>1, <2>1 DEF Tasks, ExecuteTransaction
  <2> QED BY <1>1, <1>2, <1>10, <2>1, <2>2
      DEF ExecuteFromFile, ExecuteTransaction, QueuedWithNotice, RemovesExecuted
<1>11. CASE RemoveFile
  BY <1>1, <1>2, <1>11 DEF RemoveFile, QueuedWithNotice, RemovesExecuted
<1>12. CASE ScriptEnds
  BY <1>1, <1>2, <1>12 DEF ScriptEnds, QueuedWithNotice, RemovesExecuted
<1> QED BY <1>3, <1>4, <1>5, <1>6, <1>7, <1>8, <1>9, <1>10, <1>11, <1>12
    DEF Next, vars, timelockVars, RunMain, ExecuteBatch, MigrateViaMigrator, UserDeposits,
        UserWithdraws, KeeperEarns, GuardianPauses

LEMMA Preserved == IInv /\ [Next]_vars => IInv'
<1> SUFFICES ASSUME IInv, [Next]_vars PROVE IInv'
  OBVIOUS
<1>1. /\ Lists' /\ chain' \in WiredChains' /\ batches' \in [Safes -> Seq(Seq(Calls))]'
      /\ UNCHANGED <<toAdd, toMigrate>>
  BY StepKeepsTheChain
<1>2. TimelockTxs' = TimelockTxs /\ Tasks' = Tasks
  BY <1>1, ListsStay
<1> QED BY <1>1, <1>2, StepKeepsTheRecords DEF IInv, MigrationTypeOK

LEMMA Invariance == Spec => []IInv
BY Initially, Preserved, PTL DEF Spec

(* NothingOutOfReach: however the owners order the batches of the three    *)
(* safes, whatever users, keepers and the timelock do in between, and      *)
(* whichever functions of set_vaults.py were run on whichever campaign,    *)
(* the want in a strategy is what its Sett can withdraw.                   *)
THEOREM WantStaysInReach == Spec => []NothingOutOfReach
<1>1. IInv => NothingOutOfReach
  BY DEF IInv, MigrationTypeOK, WiredChains, Wired, InReach, NothingOutOfReach
<1> QED BY <1>1, Invariance, PTL

(* ApprovalHadNotice: no batch of a safe makes the native Controller       *)
(* approve a strategy; only the timelock does, for what was queued at      *)
(* least the delay before, was not cancelled and takes effect once.        *)
THEOREM NativeApprovesWithNotice == Spec => ApprovalHadNotice
<1> DEFINE Step == \A s \in chain'.approved[Native] \ chain.approved[Native] :
       \E e \in queueLog :
         /\ e.tx.call = [fn |-> "approveStrategy", controller |-> Native, strategy |-> s]
         /\ e.at + Delay <= now
         /\ e.tx \in queued \ queued'
<1>1. IInv /\ [Next]_vars => Step
  <2> SUFFICES ASSUME IInv, [Next]_vars,
                      NEW s \in chain'.approved[Native] \ chain.approved[Native]
               PROVE  \E e \in queueLog :
                        /\ e.tx.call = [fn |-> "approveStrategy", controller |-> Native,
                                         strategy |-> s]
                        /\ e.at + Delay <= now
                        /\ e.tx \in queued \ queued'
    OBVIOUS
  <2>1. /\ Lists /\ chain \in WiredChains /\ batches \in [Safes -> Seq(Seq(Calls))]
        /\ queued \subseteq TimelockTxs /\ queueLog \subseteq [tx : TimelockTxs, at : Nat]
        /\ now \in Nat /\ Delay \in Nat /\ QueuedWithNotice
    BY TimesAssumption DEF IInv, MigrationTypeOK
  <2>2. chain'.approved[Native] \subseteq Strategies
    <3>1. chain' \in WiredChains'
      BY StepKeepsTheChain
    <3>2. UNCHANGED <<toAdd, toMigrate>>
      BY StepKeepsTheChain
    <3>3. chain' \in WiredChains
      BY <3>1, <3>2, ListsStay
    <3> QED BY <2>1, <3>3, Names DEF WiredChains, Chains
  <2>3. PICK tx : ExecuteTransaction(tx)
    <3> SUFFICES ASSUME \A tx : ~ExecuteTransaction(tx) PROVE FALSE
      OBVIOUS
    <3>1. CASE UNCHANGED chain
      BY <3>1
    <3>2. ASSUME NEW a \in Safes, ExecuteBatch(a) PROVE chain'.approved[Native] = chain.approved[Native]
      <4>1. Head(batches[a]) \in Seq(Calls)
        BY <2>1, <3>2 DEF ExecuteBatch
      <4>2. \A d \in Executed(chain, a, Head(batches[a])) :
              d.approved[Native] = chain.approved[Native]
        BY <2>1, <4>1, ExecutedKeeps DEF From
      <4> QED BY <3>2, <4>2 DEF ExecuteBatch
    <3>3. ASSUME NEW w \in Keys,
                 UserDeposits(w) \/ UserWithdraws(w) \/ KeeperEarns(w) \/ GuardianPauses(w)
          PROVE  chain'.approved = chain.approved
      BY <2>1, <3>3, UsersApprove, ApprovedKept
      DEF UserDeposits, UserWithdraws, KeeperEarns, GuardianPauses
    <3> QED BY <3>1, <3>2, <3>3
        DEF Next, vars, wiringVars, RunMain, MigrateViaMigrator, Tick, PrepareQueue,
            QueueTransaction, WriteFile, CancelTransaction, ExecuteFromParams, ExecuteFromFile,
            RemoveFile, ScriptEnds
  <2>4. /\ tx \in queued /\ tx \in TimelockTxs /\ tx \notin queued' /\ now >= tx.eta
        /\ tx.eta \in Nat /\ chain' \in Performed(chain, Timelock, tx.call)
    BY <2>1, <2>3 DEF ExecuteTransaction, TimelockTxs
  <2>5. tx.call = [fn |-> "approveStrategy", controller |-> Native, strategy |-> s]
    BY <2>2, <2>4, TimelockKeeps
  <2>6. PICK e \in queueLog : e.tx = tx /\ e.at + Delay <= tx.eta
    BY <2>1, <2>4 DEF QueuedWithNotice
  <2>7. e.at + Delay <= now
    BY <2>1, <2>4, <2>6
  <2> QED BY <2>4, <2>5, <2>6, <2>7
<1> QED BY <1>1, Invariance, PTL DEF Spec, ApprovalHadNotice

(* RemovedIsExecuted: what leaves TIMELOCK_DIR has been executed by the    *)
(* timelock, also when the process ended and another was started.          *)
THEOREM OffTheRecordOnceExecuted == Spec => RemovedIsExecuted
<1>1. IInv /\ [Next]_vars => files \ files' \subseteq executeLog
  BY DEF IInv, RemovesExecuted, Next, vars, wiringVars, timelockVars, RunMain, ExecuteBatch,
     MigrateViaMigrator, UserDeposits, UserWithdraws, KeeperEarns, GuardianPauses, Tick,
     PrepareQueue, QueueTransaction, WriteFile, CancelTransaction, ExecuteFromParams,
     ExecuteFromFile, RemoveFile, ScriptEnds
<1> QED BY <1>1, Invariance, PTL DEF Spec, RemovedIsExecuted
=============================================================================
