---------------------------- MODULE MCDiggHolders ----------------------------
(* Values for checking DIGG among its holders: users who hold less and more *)
(* than the faucet, in shares of which 12 are an initial fragment.          *)
EXTENDS DiggHolders

CONSTANTS owner, treasury, u1, u2, sett, strategy, faucet, rewards

SmallDeltas == {-2, -1, 0, 1, 3}
HalfOfIt == {[h \in {u1, u2, faucet} |-> IF h = u1 THEN 24 ELSE 12]}
=============================================================================
