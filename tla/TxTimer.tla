------------------------------ MODULE TxTimer ------------------------------
(***************************************************************************)
(* helpers/tx_timer.py: the one TxTimer of a keeper process.  start_timer  *)
(* notes the sender and starts a thread, end_timer clears the shared       *)
(* fields, and the thread wakes up once a tick to see whether the timer is *)
(* still on and for how long.  The fields waiting and sender are shared by *)
(* the main thread and by every thread ever started, without a lock.       *)
(*                                                                         *)
(* Time is counted in ticks, as ages: of threads since they began, and of  *)
(* timers since start_timer.  A thread that can run does so before the     *)
(* next tick, in any order with the main thread.                           *)
(***************************************************************************)
EXTENDS Naturals

CONSTANTS
  Accounts,   \* senders of transactions
  Nobody,     \* None
  Threshold   \* time_threshold, in ticks

ASSUME TimerAssumption == Threshold \in Nat \ {0} /\ Nobody \notin Accounts

VARIABLES
  waiting,    \* TxTimer.waiting
  sender,     \* TxTimer.sender
  threads,    \* the threads of track_tx
  timers,     \* the timers that were started, not ended, and not alerted of
  messages    \* the senders named in the alerts of this tick

timerVars == <<waiting, sender, threads, timers, messages>>

TimerTypeOK ==
  /\ waiting \in BOOLEAN
  /\ sender \in Accounts \cup {Nobody}
  /\ threads \subseteq [pc : {"new", "awake", "asleep", "posting"}, age : 0..Threshold]
  /\ timers \subseteq [from : Accounts, age : 0..Threshold + 1]
  /\ messages \subseteq Accounts

TimerInit ==
  /\ waiting = FALSE
  /\ sender = Nobody
  /\ threads = {}
  /\ timers = {}
  /\ messages = {}

StartTimer(a) ==
  /\ sender' = a
  /\ threads' = threads \cup {[pc |-> "new", age |-> 0]}
  /\ timers' = timers \cup {[from |-> a, age |-> 0]}
  /\ UNCHANGED <<waiting, messages>>

(* The timer that is ended is the youngest, the one of the transaction     *)
(* that has just returned.                                                 *)
Current == CHOOSE t \in timers : \A o \in timers : t.age <= o.age

EndTimer_LeavesItWaiting ==
  /\ sender' = Nobody
  /\ timers' = IF timers = {} THEN {} ELSE timers \ {Current}
  /\ UNCHANGED <<waiting, threads, messages>>

EndTimer ==
  /\ waiting' = FALSE
  /\ sender' = Nobody
  /\ timers' = IF timers = {} THEN {} ELSE timers \ {Current}
  /\ UNCHANGED <<threads, messages>>

ThreadBegins_WithoutWaiting(t) ==
  /\ t.pc = "new"
  /\ threads' = (threads \ {t}) \cup IF waiting THEN {[pc |-> "asleep", age |-> 0]} ELSE {}
  /\ UNCHANGED <<waiting, sender, timers, messages>>

(* The thread's first statements: the timer is on from here, not from start_timer. *)
ThreadBegins(t) ==
  /\ t.pc = "new"
  /\ waiting' = TRUE
  /\ threads' = (threads \ {t}) \cup {[pc |-> "asleep", age |-> 0]}
  /\ UNCHANGED <<sender, timers, messages>>

(* After its sleep the thread looks at the clock, and only then, in the    *)
(* next turn of the loop, at waiting.                                      *)
ThreadGoesOn(t) ==
  /\ t.pc = "awake" /\ t.age < Threshold
  /\ threads' = (threads \ {t}) \cup
                  (IF waiting THEN {[t EXCEPT !.pc = "asleep"]} ELSE {})
  /\ UNCHANGED <<waiting, sender, timers, messages>>

Alert(t) ==
  /\ t.pc = "awake" /\ t.age >= Threshold
  /\ sender # Nobody
  /\ messages' = messages \cup {sender}
  /\ timers' = {o \in timers : ~(o.from = sender /\ o.age >= Threshold)}
  /\ threads' = (threads \ {t}) \cup {[t EXCEPT !.pc = "posting"]}
  /\ UNCHANGED <<waiting, sender>>

(* When the request has been posted, whatever is timed by then. *)
AlertPosted(t) ==
  /\ t.pc = "posting"
  /\ waiting' = FALSE
  /\ sender' = Nobody
  /\ threads' = threads \ {t}
  /\ UNCHANGED <<timers, messages>>

(* str(self.sender.address) of None: the exception ends the thread. *)
AlertRaises(t) ==
  /\ t.pc = "awake" /\ t.age >= Threshold
  /\ sender = Nobody
  /\ threads' = threads \ {t}
  /\ UNCHANGED <<waiting, sender, timers, messages>>

ThreadStep ==
  \E t \in threads : ThreadBegins(t) \/ ThreadGoesOn(t) \/ Alert(t) \/ AlertPosted(t) \/ AlertRaises(t)

Capped(n) == IF n > Threshold THEN Threshold + 1 ELSE n

TimerTick ==
  /\ \A t \in threads : t.pc = "asleep"
  /\ threads' = {[pc |-> "awake", age |-> t.age + 1] : t \in threads}
  /\ timers' = {[t EXCEPT !.age = Capped(t.age + 1)] : t \in timers}
  /\ messages' = {}
  /\ UNCHANGED <<waiting, sender>>
=============================================================================
