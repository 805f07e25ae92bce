----------------------------- MODULE ScriptRun ------------------------------
(***************************************************************************)
(* A script that an operator runs: a program, a sequence of instructions,  *)
(* each at most one transaction.  An assertion that fails, an exception or *)
(* the end of the program ends the run, and the operator may run it again. *)
(***************************************************************************)
EXTENDS Naturals, Sequences

CONSTANTS
  Scripts,            \* the scripts under study
  MaxRuns, MaxFaults  \* bounds: runs, and what goes wrong in them

ASSUME ScriptAssumption == MaxRuns \in Nat /\ MaxFaults \in Nat

VARIABLES
  script,     \* the script that runs or ran last, to begin with the first
  todo,       \* what is left of its program
  runs, faults

scriptVars == <<script, todo, runs, faults>>

ScriptInit == script \in Scripts /\ todo = <<>> /\ runs = 0 /\ faults = 0

Starts(program) ==
  /\ todo = <<>> /\ runs < MaxRuns /\ program # <<>>
  /\ todo' = program /\ runs' = runs + 1
  /\ UNCHANGED faults

Instruction == Head(todo)
Reaches(op) == todo # <<>> /\ Instruction.op = op
Goes(on) == todo' = IF on THEN Tail(todo) ELSE <<>>

Faulty == faults < MaxFaults /\ faults' = faults + 1

(* A transaction of a Safe takes effect if its call goes through, and no   *)
(* more than fails otherwise: the Safe does not revert, and the check of   *)
(* its failure event is commented out.                                     *)
Executes(possible) == possible /\ UNCHANGED faults
Fails(possible) == IF possible THEN Faulty ELSE UNCHANGED faults
=============================================================================
