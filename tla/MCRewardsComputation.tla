------------------------- MODULE MCRewardsComputation -------------------------
(* Two holders and the tree in three Setts, the first of them native.digg;  *)
(* blocks of uneven length; everybody's shares move once.                   *)
EXTENDS RewardsComputation, TLC

CONSTANTS u1, u2, tree, badger, cvx, nativeDigg, curve, convex

TwoHolders == <<u1, u2, tree>>
ThreeSetts == <<nativeDigg, curve, convex>>
Prices == [s \in Setts |-> IF s = curve THEN 2 ELSE 1]
Wallets == [c \in {"badger", "digg"} |-> [u \in Accounts |->
              CASE c = "badger" /\ u = u1 -> 2
                [] c = "digg" /\ u \in {u1, u2} -> IF u = u1 THEN 6 ELSE 3
                [] OTHER -> 0]]
WaitingInTree == [s \in Setts |-> [u \in Accounts |-> IF s = convex /\ u = u2 THEN 1 ELSE 0]]
Timestamps == [b \in Blocks |-> b + b \div 2]

(* Shares in nativeDigg, curve and convex *)
Held(n, c, x) ==
  [s \in Setts |-> [u \in Accounts |->
    CASE s = nativeDigg -> n[u] [] s = curve -> c[u] [] s = convex -> x[u]]]
Of(a, b, t) == (u1 :> a) @@ (u2 :> b) @@ (tree :> t)

Spread == Held(Of(1, 2, 0), Of(3, 1, 0), Of(1, 2, 2))
OneSided == Held(Of(0, 3, 0), Of(2, 2, 0), Of(0, 3, 0))
Emptied == Held(Of(3, 1, 0), Of(0, 0, 0), Of(1, 0, 1))
FromTo(before, after, b0) == [b \in Blocks |-> IF b < b0 THEN before ELSE after]
Moves == {FromTo(Spread, OneSided, 3), FromTo(OneSided, Spread, 2), FromTo(Spread, Emptied, 4)}

TwoOffers ==
  {[sett |-> curve, token |-> badger, amount |-> 7, start |-> 1, duration |-> 3],
   [sett |-> convex, token |-> badger, amount |-> 5, start |-> 3, duration |-> 6]}
TwoYields ==
  {[sett |-> convex, token |-> cvx, amount |-> 11, kind |-> "tree"],
   [sett |-> curve, token |-> cvx, amount |-> 7, kind |-> "sushi"]}
=============================================================================
