----------------------------- MODULE MCDiggRebase -----------------------------
(* Values for checking DiggRebase: a rate of 5 is on target; a day has four *)
(* hours.                                                                   *)
EXTENDS DiggRebase

CONSTANTS owner, feed, pair, pool

Window(offset, length) == [interval |-> 4, offset |-> offset, length |-> length]

TwoTimings == {Window(1, 2), Window(2, 5), [interval |-> 3, offset |-> 3, length |-> 1],
               [interval |-> 3, offset |-> 0, length |-> 2]}
=============================================================================
