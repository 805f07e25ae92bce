------------------------------ MODULE MCKeepers ------------------------------
(* Instances of Keepers for TLC. *)
EXTENDS Keepers

CONSTANTS k1, k2

TwoSetts == <<k1, k2>>
(* The first can be priced when it is tended, and harvested; the second not. *)
CurveAndNone == [k \in Setts |-> IF k = k1 THEN {"crv"} ELSE {}]
OneOverride == [k \in {k1} |-> 2]
(* Passes further apart than the timer's threshold, except those of rebase *)
Intervals == [s \in Scripts |-> IF s = "rebase" THEN 1 ELSE 5]
SkipSecondForTend == [s \in Scripts |-> IF s = "tend" THEN {k2} ELSE {}]
=============================================================================
