---------------------------- MODULE MCOperatorScripts ----------------------------
(* Values for checking the scripts: a Sett without compounding, one that      *)
(* compounds half of its odd amount, and two that emit DIGG.                *)
EXTENDS OperatorScripts, TLC

CONSTANTS s1, s2, ren, badgerSett, diggSett, diggLp

TwoStakers == Permutations({s1, s2})
AroundNow == {-1, 0, 1}

AllKeys == <<ren, badgerSett, diggSett, diggLp>>
Weekly == [k \in Keys |->
  CASE k = ren        -> [badger |-> 3, digg |-> 0]
    [] k = badgerSett -> [badger |-> 15, digg |-> 0]
    [] k = diggSett   -> [badger |-> 0, digg |-> 16]
    [] OTHER          -> [badger |-> 0, digg |-> 29]]
OneSett == [k \in Keys |-> [badger |-> IF k = ren THEN 1 ELSE 0, digg |-> 0]]
WithGeyser == <<ren, badgerSett, diggLp>>
OnlyCompound == {<<diggSett, "digg">>}
HalfCompound == {<<badgerSett, "badger">>, <<diggLp, "digg">>}
NotListed == {diggSett}
Compounding == [badger |-> {badgerSett}, digg |-> {diggSett, diggLp}]
DaysLeft == [k \in Keys |-> IF k = diggSett THEN 6 ELSE 5]
TopUps == [badger |-> 10, digg |-> 7]
Holdings == [badger |-> 25, digg |-> 24]
ToPayments == [to |-> "payments", asset |-> "badger", amount |-> 4]

AllSetts == <<"badger", "renCrv", "sbtcCrv", "tbtcCrv", "uniBadgerWbtc", "harvest">>
OnBsc == <<"bDiggBtcb", "pancakeBnbBtcb">>
=============================================================================
