------------------------------ MODULE DiggRebase ------------------------------
(***************************************************************************)
(* A DIGG rebase: anyone calls the Orchestrator, which has the             *)
(* UFragmentsPolicy read the market oracle (MedianOracle) and change the   *)
(* supply of the token (UFragments), and then notifies the contracts that  *)
(* follow the supply.  It is one transaction: if any part reverts, nothing *)
(* of it happened.                                                         *)
(*                                                                         *)
(* Rates are fixed point numbers, Unit is one.  The contracts notified and *)
(* the CPI oracle, which reports a constant, are external.                 *)
(***************************************************************************)
EXTENDS MedianOracle, Sequences

CONSTANTS
  \* of the token
  Holders, Owner, Treasury, Spenders, InitialSupply, TotalShares, MaxWord,
  MaxAllowance, MaxSupply, MintAmount, Values, Deltas,
  \* of the policy
  Unit,              \* 10 ** DECIMALS
  MaxRate,           \* MAX_RATE
  PolicyMaxSupply,   \* MAX_SUPPLY of the policy
  BaseCpi, Cpis,     \* what the CPI oracle answers
  Thresholds,        \* arguments of setDeviationThreshold
  Lags,              \* arguments of setRebaseLag
  Timings,           \* arguments of setRebaseTimingParameters
  \* of the orchestrator
  Destinations,      \* contracts a transaction can notify
  MaxTransactions    \* bound on the list of transactions

VARIABLES
  totalSupply, sharesPerFragment, shareBalances, allowedFragments,
  rebasePaused, remDiggMint,
  deviationThreshold, rebaseLag,
  timing,                   \* minRebaseTimeIntervalSec, rebaseWindowOffsetSec, ...LengthSec
  lastRebaseTimestampSec, epoch,
  transactions,
  reverting,                \* the destinations whose calls revert
  notified,                 \* the supply each destination was last told of
  rebasedAt                 \* when this timing's last rebase took place, -1 for never

Token == INSTANCE UFragments WITH Callers <- Holders

ASSUME PolicyAssumption ==
  /\ Token!TokenAssumption
  /\ Unit \in Nat \ {0} /\ BaseCpi \in Nat \ {0} /\ Cpis \subseteq Nat
  /\ \A cpi \in Cpis : (cpi * Unit) \div BaseCpi > 0
  /\ MaxRate \in Nat /\ PolicyMaxSupply \in Nat /\ MaxSupply + MintAmount <= PolicyMaxSupply
  /\ Thresholds \subseteq Nat /\ Lags \subseteq Nat
  /\ Timings \subseteq [interval : Nat, offset : Nat, length : Nat]
  /\ MaxTransactions \in Nat

tokenVars == <<totalSupply, sharesPerFragment, shareBalances, allowedFragments,
               rebasePaused, remDiggMint>>
policyVars == <<deviationThreshold, rebaseLag, timing, lastRebaseTimestampSec, epoch>>
chainVars == <<transactions, reverting, notified, rebasedAt>>
vars == <<tokenVars, now, oracleVars, policyVars, chainVars>>

Sound(t) == t.interval > 0 /\ t.offset < t.interval

Init ==
  /\ Token!Init
  /\ OracleInit
  /\ deviationThreshold \in Thresholds
  /\ rebaseLag \in Lags \ {0}
  /\ timing \in {t \in Timings : Sound(t)}
  /\ lastRebaseTimestampSec = 0 /\ epoch = 0
  /\ transactions = <<>>
  /\ reverting = {}
  /\ notified = [d \in Destinations |-> 0]
  /\ rebasedAt = -1

-----------------------------------------------------------------------------
(* The policy *)

(* Seconds into the interval, and which interval. *)
TimeOfDay == now % timing.interval
Day(time) == time \div timing.interval

InRebaseWindow ==
  /\ TimeOfDay >= timing.offset
  /\ TimeOfDay < timing.offset + timing.length

MinTimePassed_SinceWindowOpened == lastRebaseTimestampSec < now

MinTimePassed == lastRebaseTimestampSec + timing.interval < now

SnappedTime_Now == now

(* The start of this window. *)
SnappedTime == (now - TimeOfDay) + timing.offset

TargetRate(cpi) == (cpi * Unit) \div BaseCpi

Distance(a, b) == IF a >= b THEN a - b ELSE b - a

WithinDeviationThreshold(rate, targetRate) ==
  Distance(rate, targetRate) < (targetRate * deviationThreshold) \div Unit

(* Division of signed integers, which rounds towards zero. *)
Quotient(a, b) == IF a >= 0 THEN a \div b ELSE -((-a) \div b)

ComputeSupplyDelta_ByRate(rate, targetRate) ==
  IF WithinDeviationThreshold(rate, targetRate) THEN 0
  ELSE Quotient(totalSupply * (rate - targetRate), rate)

ComputeSupplyDelta(rate, targetRate) ==
  IF WithinDeviationThreshold(rate, targetRate) THEN 0
  ELSE Quotient(totalSupply * (rate - targetRate), targetRate)

(* Dampened, and capped so that the supply stays within the policy's cap. *)
SupplyDelta(rate, targetRate) ==
  LET dampened == Quotient(ComputeSupplyDelta(Token!Smaller(rate, MaxRate), targetRate), rebaseLag)
  IN  IF dampened > 0 THEN Token!Smaller(dampened, PolicyMaxSupply - totalSupply) ELSE dampened

(* UFragmentsPolicy.rebase, for an answer of the CPI oracle.               *)
PolicyRebase(cpi) ==
  /\ InRebaseWindow
  /\ MinTimePassed
  /\ lastRebaseTimestampSec' = SnappedTime
  /\ epoch' = epoch + 1
  /\ GetData.valid
  /\ Token!Rebase(SupplyDelta(GetData.value, TargetRate(cpi)))
  /\ totalSupply' <= PolicyMaxSupply
  /\ UNCHANGED <<deviationThreshold, rebaseLag, timing>>

SetDeviationThreshold(t) ==
  /\ deviationThreshold' = t
  /\ UNCHANGED <<tokenVars, now, oracleVars, rebaseLag, timing, lastRebaseTimestampSec,
                 epoch, chainVars>>

SetRebaseLag(lag) ==
  /\ lag > 0
  /\ rebaseLag' = lag
  /\ UNCHANGED <<tokenVars, now, oracleVars, deviationThreshold, timing,
                 lastRebaseTimestampSec, epoch, chainVars>>

SetRebaseTimingParameters(t) ==
  /\ Sound(t)
  /\ timing' = t
  /\ rebasedAt' = -1
  /\ UNCHANGED <<tokenVars, now, oracleVars, deviationThreshold, rebaseLag,
                 lastRebaseTimestampSec, epoch, transactions, reverting, notified>>

-----------------------------------------------------------------------------
(* The orchestrator *)

EnabledDestinations ==
  {transactions[i].destination : i \in {j \in 1..Len(transactions) : transactions[j].enabled}}

Notify ==
  notified' = [d \in Destinations |->
                 IF d \in EnabledDestinations THEN totalSupply' ELSE notified[d]]

(* Orchestrator.rebase: a transaction that fails reverts all of it. *)
Rebase(cpi) ==
  /\ PolicyRebase(cpi)
  /\ EnabledDestinations \cap reverting = {}
  /\ Notify
  /\ rebasedAt' = now
  /\ UNCHANGED <<now, oracleVars, transactions, reverting>>

SetTransactions(list) ==
  /\ transactions' = list
  /\ UNCHANGED <<tokenVars, now, oracleVars, policyVars, reverting, notified, rebasedAt>>

AddTransaction(d) ==
  /\ Len(transactions) < MaxTransactions
  /\ SetTransactions(Append(transactions, [enabled |-> TRUE, destination |-> d]))

(* The last one takes the place of the one removed. *)
RemoveTransaction(i) ==
  LET last == Len(transactions)
  IN  SetTransactions(SubSeq([transactions EXCEPT ![i] = transactions[last]], 1, last - 1))

SetTransactionEnabled(i, enabled) ==
  SetTransactions([transactions EXCEPT ![i].enabled = enabled])

(* A destination starts or stops reverting. *)
Break(d) ==
  /\ reverting' = IF d \in reverting THEN reverting \ {d} ELSE reverting \cup {d}
  /\ UNCHANGED <<tokenVars, now, oracleVars, policyVars, transactions, notified, rebasedAt>>

-----------------------------------------------------------------------------

TokenStep == Token!TokenStep /\ UNCHANGED <<now, oracleVars, policyVars, chainVars>>

OracleActs == OracleStep /\ UNCHANGED <<tokenVars, policyVars, chainVars>>

Tick == OracleTick /\ UNCHANGED <<tokenVars, policyVars, chainVars>>

SomeRebase == \E cpi \in Cpis : Rebase(cpi)

Next ==
  \/ SomeRebase
  \/ \E t \in Thresholds : SetDeviationThreshold(t)
  \/ \E lag \in Lags : SetRebaseLag(lag)
  \/ \E t \in Timings : SetRebaseTimingParameters(t)
  \/ \E d \in Destinations : AddTransaction(d)
  \/ \E i \in 1..Len(transactions) :
       RemoveTransaction(i) \/ \E e \in BOOLEAN : SetTransactionEnabled(i, e)
  \/ \E d \in Destinations : Break(d)
  \/ TokenStep
  \/ OracleActs
  \/ Tick

Spec == Init /\ [][Next]_vars

-----------------------------------------------------------------------------
(* Properties *)

(* No two rebases in one window: the time is snapped to the start of the   *)
(* window, so a second call in it comes too early.  (A change of the       *)
(* timing starts a new count.)                                             *)
OneRebasePerWindow ==
  [][epoch' # epoch => rebasedAt = -1 \/ Day(now) > Day(rebasedAt)]_vars

(* And none is missed for the one before: past the first second of a       *)
(* window without a rebase, the time since the last one is long enough.    *)
WindowOpens ==
  rebasedAt >= 0 /\ Day(now) > Day(rebasedAt) /\ InRebaseWindow /\ TimeOfDay > timing.offset
    => MinTimePassed

(* A rebase moves the supply towards the target and never past it: to the  *)
(* target at most when the rate is above, and not below it otherwise.      *)
TowardsTarget ==
  [][\A cpi \in Cpis : Rebase(cpi) =>
       LET goal == (totalSupply * GetData.value) \div TargetRate(cpi)
       IN  IF GetData.value >= TargetRate(cpi)
           THEN totalSupply' >= Token!Smaller(totalSupply, MaxSupply) /\ totalSupply' <= goal
           ELSE totalSupply' <= totalSupply /\ totalSupply' >= Token!Smaller(goal, MaxSupply)]_vars

=============================================================================
