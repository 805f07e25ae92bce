------------------------------ MODULE BadgerTree ------------------------------
(***************************************************************************)
(* BadgerTreeV2: the contract that publishes, cycle by cycle, the root of  *)
(* a Merkle tree of every account's cumulative rewards, and pays claims    *)
(* proved against it.                                                      *)
(*                                                                         *)
(* A root commits to the cycle and to the cumulative amounts of every      *)
(* account (a leaf is the hash of index, account, cycle, tokens and        *)
(* cumulativeAmounts), so a root is that pair here and a proof verifies    *)
(* exactly when its leaf is in it.  The content hash is the hash of the    *)
(* root in every caller, so it has no value of its own.                    *)
(***************************************************************************)
EXTENDS Integers

CONSTANTS
  Users,     \* accounts with rewards
  Tokens,    \* tokens the tree distributes
  Amounts    \* what a claim can name in amountsToClaim, 0 to skip a token

ASSUME AmountsAssumption == Amounts \subseteq Nat

VARIABLES
  currentCycle,
  published,    \* merkleRoot, lastPublishStartBlock, ...EndBlock, ...BlockNumber
  pending,      \* pendingCycle, pendingMerkleRoot, lastPropose...
  claimed,
  paused,
  height        \* block.number

treeVars == <<currentCycle, published, pending, claimed, paused>>

Claims == [Users -> [Tokens -> Nat]]
Tree == [cycle : Nat, claims : Claims, start : Int, end : Int]
Posted == [tree : Tree, block : Nat]

TreeTypeOK ==
  /\ currentCycle \in Nat
  /\ published \in Posted
  /\ pending \in Posted
  /\ claimed \in Claims
  /\ paused \in BOOLEAN
  /\ height \in Nat

Root(t) == [cycle |-> t.cycle, claims |-> t.claims]

(* The contract after its first root, first, was approved at block n. *)
TreeInit(first, n) ==
  /\ height = n
  /\ currentCycle = first.cycle
  /\ published = [tree |-> first, block |-> n]
  /\ pending = published
  /\ claimed = [u \in Users |-> [k \in Tokens |-> 0]]
  /\ paused = FALSE

HasPendingRoot == pending.tree.cycle = currentCycle + 1

ProposeRoot(t) ==
  /\ ~paused
  /\ t.cycle = currentCycle + 1
  /\ pending' = [tree |-> t, block |-> height]
  /\ UNCHANGED <<currentCycle, published, claimed, paused>>

ApproveRoot_AnyPending(t) ==
  /\ currentCycle' = t.cycle
  /\ published' = [tree |-> t, block |-> height]
  /\ UNCHANGED <<pending, claimed, paused>>

(* Root, content hash, cycle, start and end block must be the pending ones. *)
ApproveRoot(t) ==
  /\ t = pending.tree
  /\ currentCycle' = t.cycle
  /\ published' = [tree |-> t, block |-> height]
  /\ UNCHANGED <<pending, claimed, paused>>

(* The tokens of the leaf that _tryClaim pays out. *)
Attempted(cumulative, amounts) ==
  {k \in Tokens : cumulative[k] > 0 /\ amounts[k] > 0}

Payable_AnyAmount(u, cumulative, amounts) ==
  \A k \in Attempted(cumulative, amounts) : claimed[u][k] <= cumulative[k]

(* No subtraction underflows and no token is claimed beyond its claimable. *)
Payable(u, cumulative, amounts) ==
  \A k \in Attempted(cumulative, amounts) :
    /\ claimed[u][k] <= cumulative[k]
    /\ claimed[u][k] < cumulative[k] => claimed[u][k] + amounts[k] <= cumulative[k]

(* u proves its leaf of tree t and claims amounts of it. *)
Claim(u, t, amounts) ==
  LET cumulative == t.claims[u]
      paidOut == {k \in Attempted(cumulative, amounts) : claimed[u][k] # cumulative[k]}
  IN
  /\ ~paused
  /\ t.cycle = currentCycle
  /\ Root(t) = Root(published.tree)
  /\ Payable(u, cumulative, amounts)
  /\ paidOut # {}
  /\ claimed' = [claimed EXCEPT ![u] =
                   [k \in Tokens |-> IF k \in paidOut THEN @[k] + amounts[k] ELSE @[k]]]
  /\ UNCHANGED <<currentCycle, published, pending, paused>>

Pause ==
  /\ ~paused
  /\ paused' = TRUE
  /\ UNCHANGED <<currentCycle, published, pending, claimed>>

Unpause ==
  /\ paused
  /\ paused' = FALSE
  /\ UNCHANGED <<currentCycle, published, pending, claimed>>
=============================================================================
