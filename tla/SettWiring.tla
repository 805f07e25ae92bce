----------------------------- MODULE SettWiring -----------------------------
(***************************************************************************)
(* How Setts, Controllers and Strategies are wired together, and the calls *)
(* that rewire them.  A chain is a value (a record), so that a script can  *)
(* try its calls on a fork of the chain before they are sent to the chain  *)
(* itself.  A Sett is named by its want; a Strategy has one want.  Fees,   *)
(* shares and earnings are left out: the records follow where the want is. *)
(*                                                                         *)
(* A call either succeeds with one new chain or reverts: Performed is the  *)
(* set of chains it can lead to, empty when the call reverts.              *)
(***************************************************************************)
EXTENDS Naturals, SequencesExt

CONSTANTS
  Wants,        \* the wants, each with its Sett
  Strategies,
  Want,         \* Want[s]: the want of a strategy
  Controllers,
  NoStrategy,
  Accounts,     \* who sends calls: the safes and the timelock
  Governance,   \* Governance[c]: the governance of a Controller
  AdminOwner    \* AdminOwner[s]: the owner of a strategy's ProxyAdmin

ASSUME WantAssumption == Want \in [Strategies -> Wants]
ASSUME GovernanceAssumption == Governance \in [Controllers -> Accounts]
ASSUME AdminOwnerAssumption == AdminOwner \in [Strategies -> Accounts]
ASSUME NoStrategyAssumption == NoStrategy \notin Strategies

\* A call that is refused reverts, and leads nowhere.
When(allowed, ch) == IF allowed THEN {ch} ELSE {}

-----------------------------------------------------------------------------
(* Controller *)

Manages(ch, by, c) == by \in {Governance[c], ch.strategist[c]}

\* The vault of a want can be set once.
SetVault(ch, by, c, w) ==
  When(Manages(ch, by, c) /\ w \notin ch.vaults[c],
       [ch EXCEPT !.vaults[c] = @ \cup {w}])

ApproveStrategy(ch, by, c, s) ==
  When(by = Governance[c], [ch EXCEPT !.approved[c] = @ \cup {s}])

\* BaseStrategy.withdrawAll: only the strategy's controller may call it, and
\* the want goes to the vault which that controller has for it.
StrategyWithdrawAll(ch, by, s) ==
  When(ch.strategyController[s] = by /\ Want[s] \in ch.vaults[by],
       [ch EXCEPT !.inStrategy[s] = 0,
                  !.inSett[Want[s]] = @ + ch.inStrategy[s]])

\* Variant: the current strategy is left with what it holds.
SetStrategy_LeavesTheWant(ch, by, c, s) ==
  When(Manages(ch, by, c) /\ s \in ch.approved[c],
       [ch EXCEPT !.working[c][Want[s]] = s])

SetStrategy(ch, by, c, s) ==
  LET w == Want[s]
      current == ch.working[c][w]
      emptied == IF current = NoStrategy THEN {ch}
                 ELSE StrategyWithdrawAll(ch, c, current)
  IN {[d EXCEPT !.working[c][w] = s] :
        d \in {e \in emptied : Manages(ch, by, c) /\ s \in ch.approved[c]}}

-----------------------------------------------------------------------------
(* Sett and Strategy *)

\* The strategy that the Sett's controller has for the Sett's want.
Working(ch, w) == ch.working[ch.settController[w]][w]

\* Sett.balance(): it asks the working strategy, and reverts without one.
BalanceReverts(ch, w) == Working(ch, w) = NoStrategy
Balance(ch, w) == ch.inSett[w] + ch.inStrategy[Working(ch, w)]

SetSettController(ch, by, w, c) ==
  When(by = ch.settGovernance[w] /\ w \notin ch.paused,
       [ch EXCEPT !.settController[w] = c])

Pause(ch, by, w) ==
  When(by = ch.settGovernance[w] /\ w \notin ch.paused,
       [ch EXCEPT !.paused = @ \cup {w}])

Unpause(ch, by, w) ==
  When(by = ch.settGovernance[w] /\ w \in ch.paused,
       [ch EXCEPT !.paused = @ \ {w}])

\* The min decides what earn may take, which here can be any part.
SetMin(ch, by, w) == When(by = ch.settGovernance[w] /\ w \notin ch.paused, ch)

\* The keeper may earn, as anybody here may.
SetKeeper(ch, by, w) == When(by = ch.settGovernance[w], ch)

SetSettGovernance(ch, by, w, a) ==
  When(by = ch.settGovernance[w], [ch EXCEPT !.settGovernance[w] = a])

\* setWithdrawalFee, setPerformanceFee* and setCurvePoolSwap of a Strategy.
SetFees(ch, by, s) == When(by = ch.strategyGovernance[s], ch)

\* ProxyAdmin.upgrade: new logic over the same storage.
Upgrade(ch, by, s) == When(by = AdminOwner[s], ch)

SetStrategyController(ch, by, s, c) ==
  When(by = ch.strategyGovernance[s], [ch EXCEPT !.strategyController[s] = c])

SetStrategyGovernance(ch, by, s, a) ==
  When(by = ch.strategyGovernance[s], [ch EXCEPT !.strategyGovernance[s] = a])

\* A user's one unit of want; the Sett takes none while it has no strategy to
\* ask for its balance.
Deposit(ch, w) ==
  When(w \notin ch.paused /\ ~BalanceReverts(ch, w),
       [ch EXCEPT !.inSett[w] = @ + 1])

\* controller.withdraw and BaseStrategy.withdraw for one unit.
StrategyWithdraw(ch, w) ==
  LET c == ch.settController[w]
      s == ch.working[c][w]
  IN When(/\ w \in ch.vaults[c]
          /\ s # NoStrategy
          /\ ch.strategyController[s] = c
          /\ ch.inStrategy[s] > 0,
          [ch EXCEPT !.inStrategy[s] = @ - 1])

\* The Sett pays from its own want first.
Withdraw(ch, w) ==
  IF w \in ch.paused \/ BalanceReverts(ch, w) THEN {}
  ELSE IF ch.inSett[w] > 0 THEN {[ch EXCEPT !.inSett[w] = @ - 1]}
  ELSE StrategyWithdraw(ch, w)

\* Sett.earn, controller.earn and BaseStrategy.deposit: n is what the Sett's
\* min makes available.
Earn(ch, w, n) ==
  LET c == ch.settController[w]
      s == ch.working[c][w]
  IN When(/\ w \notin ch.paused
          /\ s # NoStrategy
          /\ w \in ch.vaults[c]
          /\ ch.strategyController[s] = c,
          [ch EXCEPT !.inSett[w] = @ - n, !.inStrategy[s] = @ + n])

-----------------------------------------------------------------------------
(* MigrationAssistant.migrate, run in the name of a safe *)

Migrate(ch, by, c, before, after) ==
  LET w == Want[after]
  IN {d \in IF /\ Want[before] = w
               /\ w \in ch.vaults[c]
               /\ ch.strategyController[before] = c
               /\ ch.strategyController[after] = c
               /\ ~BalanceReverts(ch, w)
            THEN SetStrategy(ch, by, c, after) ELSE {} :
        Balance(d, w) = Balance(ch, w)}

-----------------------------------------------------------------------------
(* Calls, as a script records them *)

Performed(ch, by, call) ==
  CASE call.fn = "setVault" -> SetVault(ch, by, call.controller, call.sett)
    [] call.fn = "approveStrategy" -> ApproveStrategy(ch, by, call.controller, call.strategy)
    [] call.fn = "setStrategy" -> SetStrategy(ch, by, call.controller, call.strategy)
    [] call.fn = "setController" -> SetSettController(ch, by, call.sett, call.controller)
    [] call.fn = "pause" -> Pause(ch, by, call.sett)
    [] call.fn = "unpause" -> Unpause(ch, by, call.sett)
    [] call.fn = "setMin" -> SetMin(ch, by, call.sett)
    [] call.fn = "setKeeper" -> SetKeeper(ch, by, call.sett)
    [] call.fn = "setGovernance" -> SetSettGovernance(ch, by, call.sett, call.to)
    [] call.fn = "setFees" -> SetFees(ch, by, call.strategy)
    [] call.fn = "upgrade" -> Upgrade(ch, by, call.strategy)
    [] call.fn = "setStrategyController" ->
         SetStrategyController(ch, by, call.strategy, call.controller)
    [] call.fn = "setStrategyGovernance" ->
         SetStrategyGovernance(ch, by, call.strategy, call.to)
    [] call.fn = "migrate" ->
         Migrate(ch, by, call.controller, call.before, call.after)

\* The calls one after the other, all or none.
Executed(ch, by, calls) ==
  FoldLeft(LAMBDA reached, call : UNION {Performed(d, by, call) : d \in reached},
           {ch}, calls)
=============================================================================
