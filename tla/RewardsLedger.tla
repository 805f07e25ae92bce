---------------------------- MODULE RewardsLedger ----------------------------
(***************************************************************************)
(* What the rewards system promises to the accounts it rewards: an         *)
(* account's rewards in a token only accumulate, and it is paid, in        *)
(* instalments of its own choosing, at most what it has accumulated.       *)
(***************************************************************************)
EXTENDS Integers

CONSTANTS Users, Tokens

VARIABLES
  earned,   \* what each user has accumulated in each token
  paid      \* what each user has been paid of it

vars == <<earned, paid>>

Amount == [Users -> [Tokens -> Nat]]

AtMost(a, b) == \A u \in Users, k \in Tokens : a[u][k] <= b[u][k]

Init ==
  /\ earned \in Amount
  /\ paid = [u \in Users |-> [k \in Tokens |-> 0]]

(* Time passes and rewards accrue to anybody. *)
Accrue ==
  /\ earned' \in Amount
  /\ AtMost(earned, earned')
  /\ UNCHANGED paid

(* One user collects, any mix of tokens in one payment. *)
Pay(u) ==
  /\ paid' \in Amount
  /\ \A v \in Users \ {u} : paid'[v] = paid[v]
  /\ AtMost(paid, paid')
  /\ AtMost(paid', earned)
  /\ UNCHANGED earned

Next == Accrue \/ \E u \in Users : Pay(u)

Spec == Init /\ [][Next]_vars

(* Nobody is ever paid more than accumulated. *)
Covered == AtMost(paid, earned)
=============================================================================
