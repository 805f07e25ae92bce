---------------------------- MODULE MCMedianOracle ----------------------------
(* Values for checking MedianOracle: symmetric providers. *)
EXTENDS MedianOracle, TLC

CONSTANTS p1, p2, p3

Providers == Permutations(Addresses)
=============================================================================
