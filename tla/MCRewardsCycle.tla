---------------------------- MODULE MCRewardsCycle ----------------------------
(* Small instances of the rewards cycle. *)
EXTENDS RewardsCycle, FiniteSets, TLC

CONSTANTS u1, badger, digg, proposer, guardian, operator, second

(* Guardians are interchangeable. *)
GuardianSymmetry == Permutations(Guardians)

(* Every token accrues one unit per block, to every user. *)
EarnedSteadily ==
  [b \in Blocks |-> [u \in Users |-> [k \in Tokens |-> b]]]

(* digg accrues at every other block only. *)
EarnedUnevenly ==
  [b \in Blocks |-> [u \in Users |-> [k \in Tokens |->
     IF k = digg THEN b \div 2 ELSE b]]]

(* Nothing accrues in the middle: a quiet stretch of blocks. *)
EarnedWithLull ==
  [b \in Blocks |-> [u \in Users |-> [k \in Tokens |->
     Cardinality({c \in 1..b : c \notin 2..4})]]]
=============================================================================
