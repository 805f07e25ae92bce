----------------------------- MODULE RewardsCycle -----------------------------
(***************************************************************************)
(* The rewards cycle: the scripts that compute each cycle's tree off chain *)
(* and publish it through the BadgerTree, next to the accounts that claim. *)
(*                                                                         *)
(*   proposer   propose_root_auto.py: every ten minutes, compute the tree  *)
(*              that follows the published one and propose it              *)
(*   guardian   approve_root_auto.py: every ten minutes, recompute what    *)
(*              is pending and approve it                                  *)
(*   operator   rewards_combined.py: one run that proposes, waits, and     *)
(*              approves what it computed                                  *)
(*                                                                         *)
(* A script reads the chain and the file bucket one call at a time, so     *)
(* each read, computation, transaction and upload is a step of its own,    *)
(* and an exception, a reverted transaction or a crash ends the run        *)
(* between any two of them; the next run starts over.                      *)
(*                                                                         *)
(* What an account earns is a function of the block, Earned.  Time is the  *)
(* block height.  A run lasts at most MaxRun blocks.                       *)
(***************************************************************************)
EXTENDS BadgerTree

CONSTANTS
  Proposers, Guardians, Operators,  \* the script processes that run
  MaxHeight,         \* bound on block.number
  Earned,            \* Earned[b]: what everyone has earned up to block b
  Buffer,            \* blocks left to the subgraph to catch up (100)
  MinInterval,       \* rootUpdateMinInterval, in blocks
  MaxStartBlockAge,  \* maxStartBlockAge (3200)
  MaxLag,            \* a tree's end block to its publication (6500)
  MaxRun             \* bound on how many blocks one run of a script lasts

Bots == Proposers \cup Guardians \cup Operators
Blocks == 0..MaxHeight

ASSUME CycleAssumption ==
  /\ Proposers \cap Guardians = {}
  /\ Proposers \cap Operators = {}
  /\ Guardians \cap Operators = {}
  /\ MaxHeight \in Nat /\ Buffer \in 0..MaxHeight
  /\ MinInterval \in Nat /\ MaxStartBlockAge \in Nat
  /\ MaxLag \in Nat /\ MaxRun \in Nat
  /\ Earned \in [Blocks -> Claims]
  /\ \A u \in Users, k \in Tokens :
       /\ Earned[0][u][k] = 0
       /\ \A a, b \in Blocks : a <= b => Earned[a][u][k] <= Earned[b][u][k]

(* A run ends well before the interval between two updates is over, and    *)
(* early enough for the age checks on the tree it publishes.               *)
ASSUME RunAssumption == MaxRun < MinInterval /\ Buffer + MaxRun < MaxLag

VARIABLES
  files,    \* the trees in the rewards/ folder of the bucket
  served,   \* badger-tree.json, the tree the claims api serves
  bot       \* local state of each script process

vars == <<treeVars, height, files, served, bot>>

Steps == {"idle", "fetched", "ranged", "due", "generated", "proposed",
          "slept", "pending", "verified", "approved"}

Genesis == [cycle |-> 1, claims |-> Earned[0], start |-> 1, end |-> 0]

Idle == [step |-> "idle", past |-> Genesis, start |-> 1, end |-> 0,
         tree |-> Genesis, since |-> 0]

Run == [step : Steps, past : Tree, start : Int, end : Int, tree : Tree, since : Nat]

TypeOK ==
  /\ TreeTypeOK
  /\ files \subseteq Tree
  /\ served \in Tree
  /\ bot \in [Bots -> Run]

Init ==
  /\ TreeInit(Genesis, Buffer)
  /\ files = {Genesis}
  /\ served = Genesis
  /\ bot = [b \in Bots |-> Idle]

-----------------------------------------------------------------------------
(* Computing a tree *)

Rewards_SinceGenesis(start, end) == Earned[end]

Rewards(start, end) ==
  [u \in Users |-> [k \in Tokens |->
     IF start <= end THEN Earned[end][u][k] - Earned[start - 1][u][k] ELSE 0]]

(* process_cumulative_rewards *)
Cumulative(past, new) ==
  [u \in Users |-> [k \in Tokens |-> past[u][k] + new[u][k]]]

(* generate_rewards_in_range, at the cycle that follows the current one. *)
Generated(past, start, end) ==
  [cycle |-> currentCycle + 1,
   claims |-> Cumulative(past.claims, Rewards(start, end)),
   start |-> start, end |-> end]

-----------------------------------------------------------------------------
(* The steps of a script *)

At(b, step) == bot[b].step = step

Set(b, s) == bot' = [bot EXCEPT ![b] = s]

Goto(b, step) == Set(b, [bot[b] EXCEPT !.step = step])

Return(b) == Set(b, Idle)

FileOf(t) == {f \in files : Root(f) = Root(t)}

InTime(file, block) == block >= file.end /\ block - file.end < MaxLag

(* fetch_current_rewards_tree: the file of the published root. *)
FetchCurrent(b) ==
  /\ At(b, "idle") /\ b \in Proposers \cup Operators
  /\ \E f \in FileOf(published.tree) :
       /\ InTime(f, published.block)
       /\ Set(b, [Idle EXCEPT !.step = "fetched", !.past = f, !.since = height])
  /\ UNCHANGED <<treeVars, height, files, served>>

(* calc_next_cycle_range, after the fetch *)
ReadNextRange(b) ==
  /\ At(b, "fetched") /\ b \in Proposers \cup Operators
  /\ Set(b, [bot[b] EXCEPT !.step = "ranged",
                           !.start = published.tree.end + 1,
                           !.end = height - Buffer])
  /\ UNCHANGED <<treeVars, height, files, served>>

AfterUpdate(b) == IF b \in Operators THEN Goto(b, "slept") ELSE Return(b)

Recent_Never == FALSE

Recent == height - published.block < MinInterval

(* rootUpdater, which returns early after a recent publication. *)
CheckInterval(b) ==
  /\ At(b, "ranged") /\ b \in Proposers \cup Operators
  /\ IF Recent THEN AfterUpdate(b) ELSE Goto(b, "due")
  /\ UNCHANGED <<treeVars, height, files, served>>

Generate(b) ==
  /\ At(b, "due")
  /\ Set(b, [bot[b] EXCEPT !.step = "generated",
               !.tree = Generated(bot[b].past, bot[b].start, bot[b].end)])
  /\ UNCHANGED <<treeVars, height, files, served>>

Propose(b) ==
  /\ At(b, "generated")
  /\ ProposeRoot(bot[b].tree)
  /\ Goto(b, "proposed")
  /\ UNCHANGED <<height, files, served>>

UploadProposed_ToApi(b) ==
  /\ At(b, "proposed")
  /\ served' = bot[b].tree
  /\ AfterUpdate(b)
  /\ UNCHANGED <<treeVars, height, files>>

(* upload(publish=False): a file is named by the hash of its root. *)
UploadProposed(b) ==
  /\ At(b, "proposed")
  /\ files' = (files \ FileOf(bot[b].tree)) \cup {bot[b].tree}
  /\ AfterUpdate(b)
  /\ UNCHANGED <<treeVars, height, served>>

(* fetch_pending_rewards_tree: the file of the pending root. *)
FetchPending(b) ==
  /\ At(b, "idle") /\ b \in Guardians
  /\ \E f \in FileOf(pending.tree) :
       /\ InTime(f, pending.block)
       /\ Set(b, [Idle EXCEPT !.step = "fetched", !.past = f, !.since = height])
  /\ UNCHANGED <<treeVars, height, files, served>>

(* get_last_proposed_cycle, after the fetch *)
ReadProposedRange(b) ==
  LET start == pending.tree.start
      end == pending.tree.end
  IN
  /\ At(b, "fetched") /\ b \in Guardians
  /\ start > end - MaxStartBlockAge
  /\ end > height - MaxStartBlockAge
  /\ Set(b, [bot[b] EXCEPT !.step = "slept", !.start = start, !.end = end])
  /\ UNCHANGED <<treeVars, height, files, served>>

(* guardian, which returns early when nothing is pending. *)
CheckPending(b) ==
  /\ At(b, "slept")
  /\ IF HasPendingRoot THEN Goto(b, "pending") ELSE Return(b)
  /\ UNCHANGED <<treeVars, height, files, served>>

Regenerate(b) ==
  /\ At(b, "pending")
  /\ Set(b, [bot[b] EXCEPT !.step = "verified",
               !.tree = Generated(bot[b].past, bot[b].start, bot[b].end)])
  /\ UNCHANGED <<treeVars, height, files, served>>

Approve(b) ==
  /\ At(b, "verified")
  /\ ApproveRoot(bot[b].tree)
  /\ Goto(b, "approved")
  /\ UNCHANGED <<height, files, served>>

(* upload with publish left True *)
UploadApproved(b) ==
  /\ At(b, "approved")
  /\ served' = bot[b].tree
  /\ Return(b)
  /\ UNCHANGED <<treeVars, height, files>>

(* An exception, a revert or a crash ends the run. *)
Fail(b) ==
  /\ ~At(b, "idle")
  /\ Return(b)
  /\ UNCHANGED <<treeVars, height, files, served>>

-----------------------------------------------------------------------------
(* Everyone else *)

(* A claimant proves the leaf the api serves it. *)
ClaimRewards(u) ==
  /\ \E amounts \in [Tokens -> Amounts] : Claim(u, served, amounts)
  /\ UNCHANGED <<height, files, served, bot>>

PauseTree == Pause /\ UNCHANGED <<height, files, served, bot>>

UnpauseTree == Unpause /\ UNCHANGED <<height, files, served, bot>>

NextBlock ==
  /\ height < MaxHeight
  /\ \A b \in Bots : At(b, "idle") \/ height - bot[b].since < MaxRun
  /\ height' = height + 1
  /\ UNCHANGED <<treeVars, files, served, bot>>

Step(b) ==
  \/ FetchCurrent(b) \/ ReadNextRange(b) \/ CheckInterval(b) \/ Generate(b)
  \/ Propose(b) \/ UploadProposed(b)
  \/ FetchPending(b) \/ ReadProposedRange(b) \/ CheckPending(b) \/ Regenerate(b)
  \/ Approve(b) \/ UploadApproved(b)

Next ==
  \/ \E b \in Bots : Step(b) \/ Fail(b)
  \/ \E u \in Users : ClaimRewards(u)
  \/ PauseTree
  \/ UnpauseTree
  \/ NextBlock

Spec == Init /\ [][Next]_vars

(* The scripts run in a loop, so a script's run ends and another begins;   *)
(* what keeps failing is not what is asked about, so a step that is        *)
(* possible again and again is taken.  Blocks are mined.                    *)
Fairness ==
  /\ WF_vars(NextBlock)
  /\ \A b \in Bots :
       /\ WF_vars(Fail(b))
       /\ SF_vars(FetchCurrent(b)) /\ SF_vars(ReadNextRange(b))
       /\ SF_vars(CheckInterval(b)) /\ SF_vars(Generate(b))
       /\ SF_vars(Propose(b)) /\ SF_vars(UploadProposed(b))
       /\ SF_vars(CheckPending(b)) /\ SF_vars(Regenerate(b))
       /\ SF_vars(Approve(b))

FairSpec == Spec /\ Fairness

-----------------------------------------------------------------------------
(* Properties *)

(* The published tree holds exactly what everyone has earned up to its end *)
(* block: no cycle is lost or counted twice, although the file, the range, *)
(* the cycle number and the transaction are read and sent one by one while *)
(* others publish.  rootUpdateMinInterval is what keeps the file and the   *)
(* range together.                                                         *)
PublishedIsEarned ==
  published.tree.claims = Earned[published.tree.end]

(* Nobody has claimed more than the published tree holds for them, so that *)
(* no claim underflows (BadgerTreeV2.sol:311).                             *)
ClaimedWithinTree ==
  \A u \in Users, k \in Tokens : claimed[u][k] <= published.tree.claims[u][k]

(* The next cycle can always be computed: the file of the published root   *)
(* is in the bucket and recent enough for fetch_current_rewards_tree,      *)
(* wherever a script died between a transaction and its upload.            *)
NextCycleComputable ==
  \E f \in FileOf(published.tree) : InTime(f, published.block)

(* A root is only replaced by the root of the cycle that follows, or       *)
(* approved again: no two roots share a cycle and none is skipped, with    *)
(* any number of scripts racing.                                           *)
CyclesInOrder ==
  [][Root(published.tree)' # Root(published.tree)
       => published'.tree.cycle = published.tree.cycle + 1]_vars

(* What is earned in a block gets published, whatever fails in between,    *)
(* once the contract is no longer paused.  (Near the bound on the height   *)
(* there is no time left for another cycle.)                               *)
LastSettled == MaxHeight - MinInterval - MaxRun - Buffer

EarnedGetsPublished ==
  <>[]~paused => \A n \in 0..LastSettled : height >= n ~> published.tree.end >= n

(* Accounts are paid out of what they have earned so far: claims refine    *)
(* the promise of RewardsLedger.                                           *)
Ledger == INSTANCE RewardsLedger WITH earned <- Earned[height], paid <- claimed

ImplementsLedger == Ledger!Spec
=============================================================================
