--------------------------- MODULE MCSettSimulation ---------------------------
(* Instances of SettSimulation for TLC. *)
EXTENDS SettSimulation, TLC

CONSTANTS u1, u2

NoApprovals == {}
NoGuestLists == {}
UserSymmetry == Permutations(Users)
=============================================================================
