-------------------------- MODULE RewardsCycleProofs --------------------------
(***************************************************************************)
(* What is proved of the rewards cycle, for any scripts, any number of     *)
(* them and any accrual: the published tree holds exactly what was earned, *)
(* roots are published in the order of their cycles, and nobody is paid    *)
(* more than earned; with one script that proposes, claims stay within the *)
(* tree; with the combined script alone, the next cycle can be computed.   *)
(*                                                                         *)
(* The argument: a script that publishes into another's run makes          *)
(* lastPublishBlockNumber fall inside that run; the interval check is      *)
(* longer than a run, so it sends that other run home.  A script that      *)
(* passes the check has therefore read the file and the range of the same  *)
(* publication, and what it generates is exact (Ready).  Everything        *)
(* pending was generated so, and only what is pending gets published.      *)
(***************************************************************************)
EXTENDS RewardsCycle, TLAPS

USE DEF Claims

(* The blocks of a range, or of the tree made of it, have been mined. *)
InRange(r) == r.start \in Int /\ r.start - 1 \in Blocks /\ r.end \in Blocks

Exact(t) ==
  /\ InRange(t)
  /\ t.end + Buffer <= height
  /\ t.claims = Earned[t.end]

(* What a run must have read for its tree to come out exact. *)
Ready(r) ==
  /\ r.start - 1 <= r.end
  /\ r.end + Buffer <= height
  /\ r.past.claims = Earned[r.start - 1]

Interrupted(r) == published.block >= r.since

RunOK(b, r) ==
  /\ InRange(r)
  /\ r.step # "idle" => r.since <= height /\ height - r.since <= MaxRun
  /\ (b \notin Guardians /\ r.step = "fetched")
       => Interrupted(r) \/ r.past.claims = published.tree.claims
  /\ (b \notin Guardians /\ r.step = "ranged") => Interrupted(r) \/ Ready(r)
  /\ r.step = "due" => Ready(r)
  /\ r.step = "generated" => Exact(r.tree)

Clock == height \in Blocks /\ Buffer <= height /\ published.block <= height

Cycles ==
  /\ currentCycle = published.tree.cycle
  /\ \/ pending.tree = published.tree
     \/ pending.tree.cycle = currentCycle + 1

IInv ==
  /\ TypeOK
  /\ Clock
  /\ Cycles
  /\ Exact(published.tree)
  /\ Exact(pending.tree)
  /\ \A b \in Bots : RunOK(b, bot[b])

-----------------------------------------------------------------------------
(* Computing a tree *)

LEMMA EarnedType ==
  ASSUME NEW n \in Blocks
  PROVE  Earned[n] \in Claims
BY CycleAssumption

LEMMA GenesisType ==
  /\ Genesis \in Tree
  /\ 0 \in Blocks
  /\ Idle \in Run /\ InRange(Idle)
<1>1. 0 \in Blocks
  BY CycleAssumption DEF Blocks
<1>2. Genesis \in Tree
  BY <1>1, EarnedType DEF Genesis, Tree
<1>. QED
  BY <1>1, <1>2 DEF Idle, Run, Steps, InRange

(* What a range is worth is a natural number for everyone. *)
LEMMA RewardsType ==
  ASSUME NEW r, InRange(r)
  PROVE  Rewards(r.start, r.end) \in Claims
<1>1. ASSUME NEW u \in Users, NEW k \in Tokens, r.start <= r.end
      PROVE  Earned[r.end][u][k] - Earned[r.start - 1][u][k] \in Nat
  <2>1. /\ Earned[r.end][u][k] \in Nat
        /\ Earned[r.start - 1][u][k] \in Nat
    BY EarnedType, <1>1 DEF InRange
  <2>2. r.start - 1 <= r.end
    BY <1>1, CycleAssumption DEF InRange, Blocks
  <2>3. Earned[r.start - 1][u][k] <= Earned[r.end][u][k]
    BY <2>2, CycleAssumption DEF InRange
  <2>. QED
    BY <2>1, <2>3
<1>. QED
  BY <1>1 DEF Rewards

LEMMA GeneratedType ==
  ASSUME TypeOK, NEW r \in Run, InRange(r)
  PROVE  Generated(r.past, r.start, r.end) \in Tree
<1>1. Rewards(r.start, r.end) \in Claims
  BY RewardsType
<1>2. r.past.claims \in Claims /\ r.start \in Int /\ r.end \in Int
  BY DEF Run, Tree
<1>3. Cumulative(r.past.claims, Rewards(r.start, r.end)) \in Claims
  BY <1>1, <1>2 DEF Cumulative
<1>4. currentCycle + 1 \in Nat
  BY DEF TypeOK, TreeTypeOK
<1>. QED
  BY <1>2, <1>3, <1>4 DEF Generated, Tree

(* Past and range fit together, so the sum telescopes. *)
LEMMA GeneratedExact ==
  ASSUME TypeOK, NEW r \in Run, InRange(r), Ready(r)
  PROVE  Exact(Generated(r.past, r.start, r.end))
<1>1. Earned[r.start - 1] \in Claims /\ Earned[r.end] \in Claims
  BY EarnedType DEF InRange
<1>2. ASSUME NEW u \in Users, NEW k \in Tokens
      PROVE  r.past.claims[u][k] + Rewards(r.start, r.end)[u][k] = Earned[r.end][u][k]
  <2>1. CASE r.start <= r.end
    BY <2>1, <1>1 DEF Rewards, Ready
  <2>2. CASE ~(r.start <= r.end)
    <3>1. r.start - 1 = r.end
      BY <2>2, CycleAssumption DEF Ready, InRange, Blocks
    <3>. QED
      BY <3>1, <2>2, <1>1 DEF Rewards, Ready
  <2>. QED
    BY <2>1, <2>2
<1>3. Cumulative(r.past.claims, Rewards(r.start, r.end))
        = [u \in Users |-> [k \in Tokens |-> Earned[r.end][u][k]]]
  BY <1>2 DEF Cumulative
<1>4. Earned[r.end] = [u \in Users |-> [k \in Tokens |-> Earned[r.end][u][k]]]
  BY <1>1
<1>. QED
  BY <1>3, <1>4 DEF Exact, Generated, InRange, Ready

LEMMA FilesAreTrees ==
  ASSUME TypeOK, NEW t, NEW f \in FileOf(t)
  PROVE  f \in Tree /\ f.claims = t.claims
BY DEF FileOf, TypeOK, Root

-----------------------------------------------------------------------------
(* The invariant is kept *)

LEMMA Initially == Init => IInv
<1>. SUFFICES ASSUME Init PROVE IInv
  OBVIOUS
<1>. USE GenesisType
<1>1. height = Buffer /\ height \in Nat /\ Buffer \in Blocks
  BY CycleAssumption DEF Init, TreeInit, Blocks
<1>2. TypeOK
  BY <1>1 DEF Init, TreeInit, TypeOK, TreeTypeOK, Posted, Tree, Genesis
<1>3. Clock
  BY <1>1, CycleAssumption DEF Init, TreeInit, Clock, Blocks
<1>4. Cycles
  BY DEF Init, TreeInit, Cycles, Genesis
<1>5. Exact(Genesis)
  BY <1>1, CycleAssumption DEF Exact, Genesis, InRange, Blocks
<1>6. \A b \in Bots : RunOK(b, bot[b])
  BY DEF Init, RunOK, Idle
<1>. QED
  BY <1>2, <1>3, <1>4, <1>5, <1>6 DEF Init, TreeInit, IInv

(* A step by which one run goes on and the contract does not change. *)
LEMMA LocalStep ==
  ASSUME IInv, NEW b \in Bots, NEW s \in Run, Set(b, s), RunOK(b, s),
         UNCHANGED <<treeVars, height>>, files' \subseteq Tree, served' \in Tree
  PROVE  IInv'
<1>1. bot' \in [Bots -> Run] /\ bot'[b] = s /\ \A c \in Bots \ {b} : bot'[c] = bot[c]
  BY DEF IInv, TypeOK, Set
<1>2. \A c \in Bots : RunOK(c, bot'[c])
  BY <1>1 DEF IInv
<1>3. (\A c \in Bots : RunOK(c, bot[c]))'
  BY <1>2 DEF RunOK, Interrupted, Ready, Exact, treeVars
<1>4. TypeOK'
  BY <1>1 DEF IInv, TypeOK, TreeTypeOK, treeVars
<1>. QED
  BY <1>3, <1>4 DEF IInv, Clock, Cycles, Exact, treeVars

(* What the invariant says of one run. *)
LEMMA RunFacts ==
  ASSUME IInv, NEW b \in Bots
  PROVE  /\ bot[b] \in Run /\ RunOK(b, bot[b]) /\ InRange(bot[b])
         /\ \A step \in Steps : [bot[b] EXCEPT !.step = step] \in Run
BY DEF IInv, TypeOK, RunOK, Run

LEMMA FailKeeps ==
  ASSUME IInv, NEW b \in Bots, Fail(b)
  PROVE  IInv'
<1>1. RunOK(b, Idle)
  BY GenesisType DEF RunOK, Idle
<1>. QED
  BY <1>1, GenesisType, LocalStep DEF Fail, Return, IInv, TypeOK

LEMMA FetchKeeps ==
  ASSUME IInv, NEW b \in Bots, FetchCurrent(b) \/ FetchPending(b)
  PROVE  IInv'
<1>1. PICK f \in files :
        /\ Set(b, [Idle EXCEPT !.step = "fetched", !.past = f, !.since = height])
        /\ b \notin Guardians => Root(f) = Root(published.tree)
  BY CycleAssumption DEF FetchCurrent, FetchPending, FileOf
<1>. DEFINE s == [Idle EXCEPT !.step = "fetched", !.past = f, !.since = height]
<1>2. f \in Tree /\ height \in Nat
  BY DEF IInv, TypeOK, TreeTypeOK
<1>3. s \in Run
  BY <1>2, GenesisType DEF Run, Steps, Idle
<1>4. RunOK(b, s)
  BY <1>1, <1>2, GenesisType, CycleAssumption DEF RunOK, Idle, Root, InRange
<1>5. Set(b, s)
  BY <1>1
<1>. QED
  BY <1>3, <1>4, <1>5, LocalStep DEF FetchCurrent, FetchPending, IInv, TypeOK

(* The range is read of the publication that is current: with the file of  *)
(* the same publication the run is ready.                                  *)
LEMMA ReadNextRangeKeeps ==
  ASSUME IInv, NEW b \in Bots, ReadNextRange(b)
  PROVE  IInv'
<1>. DEFINE s == [bot[b] EXCEPT !.step = "ranged",
                                !.start = published.tree.end + 1,
                                !.end = height - Buffer]
<1>1. /\ bot[b] \in Run /\ RunOK(b, bot[b]) /\ At(b, "fetched") /\ b \notin Guardians
  BY RunFacts, CycleAssumption DEF ReadNextRange
<1>2. /\ published.tree.end \in Blocks /\ published.tree.end + Buffer <= height
      /\ published.tree.claims = Earned[published.tree.end]
      /\ height \in Blocks /\ Buffer <= height /\ Buffer \in Nat /\ MaxHeight \in Nat
  BY CycleAssumption DEF IInv, Clock, Exact, InRange
<1>3. s \in Run
  <2>1. published.tree.end + 1 \in Int /\ height - Buffer \in Int
    BY <1>2 DEF Blocks
  <2>. QED
    BY <1>1, <2>1 DEF Run, Steps
<1>4. InRange(s)
  BY <1>1, <1>2 DEF InRange, Blocks, Run
<1>5. Interrupted(s) \/ Ready(s)
  <2>1. CASE Interrupted(bot[b])
    BY <2>1, <1>1 DEF Interrupted, Run
  <2>2. CASE bot[b].past.claims = published.tree.claims
    BY <2>2, <1>1, <1>2 DEF Ready, Run, Blocks
  <2>. QED
    BY <2>1, <2>2, <1>1 DEF RunOK, At
<1>6. RunOK(b, s)
  BY <1>1, <1>4, <1>5 DEF RunOK, Run, At
<1>. QED
  BY <1>3, <1>6, LocalStep DEF ReadNextRange, IInv, TypeOK

(* Whoever passes the interval check was not interrupted. *)
LEMMA CheckIntervalKeeps ==
  ASSUME IInv, NEW b \in Bots, CheckInterval(b)
  PROVE  IInv'
<1>1. /\ bot[b] \in Run /\ RunOK(b, bot[b]) /\ At(b, "ranged") /\ b \notin Guardians
  BY RunFacts, CycleAssumption DEF CheckInterval
<1>. DEFINE to(step) == [bot[b] EXCEPT !.step = step]
<1>2. to("due") \in Run /\ to("slept") \in Run
  BY RunFacts DEF Steps
<1>3. CASE ~Recent
  <2>1. ~Interrupted(bot[b])
    BY <1>1, <1>3, CycleAssumption, RunAssumption
    DEF IInv, TypeOK, TreeTypeOK, Posted, Recent, RunOK, At, Interrupted, Run
  <2>2. RunOK(b, to("due"))
    BY <1>1, <2>1 DEF RunOK, At, Run, InRange, Ready
  <2>. QED
    BY <1>2, <1>3, <2>2, LocalStep DEF CheckInterval, Goto, IInv, TypeOK
<1>4. CASE Recent /\ b \in Operators
  <2>1. RunOK(b, to("slept"))
    BY <1>1 DEF RunOK, At, Run, InRange
  <2>. QED
    BY <1>2, <1>4, <2>1, LocalStep DEF CheckInterval, AfterUpdate, Goto, IInv, TypeOK
<1>5. CASE Recent /\ b \notin Operators
  <2>1. RunOK(b, Idle)
    BY GenesisType DEF RunOK, Idle
  <2>. QED
    BY <1>5, <2>1, GenesisType, LocalStep DEF CheckInterval, AfterUpdate, Return, IInv, TypeOK
<1>. QED
  BY <1>3, <1>4, <1>5

LEMMA GenerateKeeps ==
  ASSUME IInv, NEW b \in Bots, Generate(b) \/ Regenerate(b)
  PROVE  IInv'
<1>. DEFINE t == Generated(bot[b].past, bot[b].start, bot[b].end)
            to(step) == [bot[b] EXCEPT !.step = step, !.tree = t]
<1>1. bot[b] \in Run /\ RunOK(b, bot[b]) /\ InRange(bot[b]) /\ TypeOK
  BY RunFacts DEF IInv
<1>2. t \in Tree
  BY <1>1, GeneratedType
<1>3. to("generated") \in Run /\ to("verified") \in Run
  BY <1>1, <1>2 DEF Run, Steps
<1>4. CASE Generate(b)
  <2>1. Ready(bot[b])
    BY <1>1, <1>4 DEF Generate, RunOK, At
  <2>2. Exact(t)
    BY <1>1, <2>1, GeneratedExact
  <2>3. RunOK(b, to("generated"))
    BY <1>1, <1>4, <2>2 DEF Generate, At, RunOK, Run, InRange
  <2>. QED
    BY <1>3, <1>4, <2>3, LocalStep DEF Generate, IInv, TypeOK
<1>5. CASE Regenerate(b)
  <2>1. RunOK(b, to("verified"))
    BY <1>1, <1>5 DEF Regenerate, At, RunOK, Run, InRange
  <2>. QED
    BY <1>3, <1>5, <2>1, LocalStep DEF Regenerate, IInv, TypeOK
<1>. QED
  BY <1>4, <1>5

(* Uploads, and the steps of the guardian that only move on. *)
LEMMA UploadKeeps ==
  ASSUME IInv, NEW b \in Bots, UploadProposed(b) \/ UploadApproved(b)
  PROVE  IInv'
<1>1. bot[b] \in Run /\ RunOK(b, bot[b]) /\ bot[b].tree \in Tree
  BY RunFacts DEF Run
<1>2. [bot[b] EXCEPT !.step = "slept"] \in Run
  BY RunFacts DEF Steps
<1>3. RunOK(b, Idle)
  BY GenesisType DEF RunOK, Idle
<1>4. At(b, "proposed") => RunOK(b, [bot[b] EXCEPT !.step = "slept"])
  BY <1>1 DEF RunOK, At, Run, InRange
<1>5. files' \subseteq Tree /\ served' \in Tree /\ UNCHANGED <<treeVars, height>>
  BY <1>1 DEF UploadProposed, UploadApproved, FileOf, IInv, TypeOK
<1>6. CASE Set(b, Idle)
  BY <1>3, <1>5, <1>6, GenesisType, LocalStep
<1>7. CASE At(b, "proposed") /\ Set(b, [bot[b] EXCEPT !.step = "slept"])
  BY <1>2, <1>4, <1>5, <1>7, LocalStep
<1>. QED
  BY <1>6, <1>7 DEF UploadProposed, UploadApproved, AfterUpdate, Return, Goto

LEMMA CheckPendingKeeps ==
  ASSUME IInv, NEW b \in Bots, CheckPending(b)
  PROVE  IInv'
<1>1. bot[b] \in Run /\ RunOK(b, bot[b])
  BY RunFacts
<1>2. [bot[b] EXCEPT !.step = "pending"] \in Run
  BY RunFacts DEF Steps
<1>3. RunOK(b, Idle)
  BY GenesisType DEF RunOK, Idle
<1>4. RunOK(b, [bot[b] EXCEPT !.step = "pending"])
  BY <1>1 DEF CheckPending, RunOK, At, Run, InRange
<1>5. CASE Set(b, Idle)
  BY <1>3, <1>5, GenesisType, LocalStep DEF CheckPending, IInv, TypeOK
<1>6. CASE Set(b, [bot[b] EXCEPT !.step = "pending"])
  BY <1>2, <1>4, <1>6, LocalStep DEF CheckPending, IInv, TypeOK
<1>. QED
  BY <1>5, <1>6 DEF CheckPending, Goto, Return

LEMMA ReadProposedRangeKeeps ==
  ASSUME IInv, NEW b \in Bots, ReadProposedRange(b)
  PROVE  IInv'
<1>. DEFINE s == [bot[b] EXCEPT !.step = "slept", !.start = pending.tree.start,
                                !.end = pending.tree.end]
<1>1. bot[b] \in Run /\ RunOK(b, bot[b]) /\ At(b, "fetched")
  BY RunFacts DEF ReadProposedRange
<1>2. InRange(pending.tree) /\ pending.tree.end \in Int
  BY DEF IInv, Exact, InRange, Blocks
<1>3. s \in Run
  BY <1>1, <1>2 DEF Run, Steps, InRange
<1>4. RunOK(b, s)
  BY <1>1, <1>2 DEF RunOK, Run, At, InRange
<1>5. Set(b, s)
  BY DEF ReadProposedRange
<1>. QED
  BY <1>3, <1>4, <1>5, LocalStep DEF ReadProposedRange, IInv, TypeOK

LEMMA ProposeKeeps ==
  ASSUME IInv, NEW b \in Bots, Propose(b)
  PROVE  IInv'
<1>. DEFINE s == [bot[b] EXCEPT !.step = "proposed"]
<1>1. bot[b] \in Run /\ RunOK(b, bot[b]) /\ bot[b].tree \in Tree
  BY RunFacts DEF Run
<1>2. s \in Run /\ RunOK(b, s)
  <2>1. s \in Run
    BY RunFacts DEF Steps
  <2>2. At(b, "generated")
    BY DEF Propose
  <2>. QED
    BY <1>1, <2>1, <2>2 DEF RunOK, At, Run, InRange
<1>3. bot' \in [Bots -> Run] /\ bot'[b] = s /\ \A c \in Bots \ {b} : bot'[c] = bot[c]
  BY <1>2 DEF Propose, Goto, Set, IInv, TypeOK
<1>4. /\ UNCHANGED <<currentCycle, published, claimed, paused, height, files, served>>
      /\ pending' = [tree |-> bot[b].tree, block |-> height]
      /\ bot[b].tree.cycle = currentCycle + 1
  BY DEF Propose, ProposeRoot
<1>5. \A c \in Bots : RunOK(c, bot'[c])
  BY <1>2, <1>3 DEF IInv
<1>6. (\A c \in Bots : RunOK(c, bot[c]))'
  BY <1>4, <1>5 DEF RunOK, Interrupted, Ready, Exact
<1>7. TypeOK'
  BY <1>1, <1>3, <1>4 DEF IInv, TypeOK, TreeTypeOK, Posted
<1>8. Exact(pending.tree)'
  BY <1>1, <1>4 DEF Propose, RunOK, At, Exact
<1>9. Exact(published.tree)' /\ Clock' /\ Cycles'
  BY <1>4 DEF IInv, Exact, Clock, Cycles
<1>. QED
  BY <1>6, <1>7, <1>8, <1>9 DEF IInv

(* Publishing interrupts every run there is. *)
LEMMA ApproveKeeps ==
  ASSUME IInv, NEW b \in Bots, Approve(b)
  PROVE  IInv'
<1>. DEFINE s == [bot[b] EXCEPT !.step = "approved"]
<1>1. bot[b] \in Run /\ RunOK(b, bot[b])
  BY RunFacts
<1>2. s \in Run /\ RunOK(b, s)
  BY <1>1, RunFacts DEF Steps, Approve, RunOK, At, Run, InRange
<1>3. bot' \in [Bots -> Run] /\ bot'[b] = s /\ \A c \in Bots \ {b} : bot'[c] = bot[c]
  BY <1>2 DEF Approve, Goto, Set, IInv, TypeOK
<1>4. /\ UNCHANGED <<pending, claimed, paused, height, files, served>>
      /\ published' = [tree |-> pending.tree, block |-> height]
      /\ currentCycle' = pending.tree.cycle
  BY DEF Approve, ApproveRoot
<1>5. TypeOK'
  BY <1>3, <1>4 DEF IInv, TypeOK, TreeTypeOK, Posted, Tree
<1>6. \A c \in Bots : RunOK(c, bot'[c])
  BY <1>2, <1>3 DEF IInv
<1>7. (\A c \in Bots : RunOK(c, bot[c]))'
  <2>. SUFFICES ASSUME NEW c \in Bots PROVE RunOK(c, bot[c])'
    OBVIOUS
  <2>1. RunOK(c, bot'[c])
    BY <1>6
  <2>2. bot'[c].step # "idle" => Interrupted(bot[c])'
    BY <1>4, <2>1 DEF RunOK, Interrupted
  <2>. QED
    BY <1>4, <2>1, <2>2 DEF RunOK, Ready, Exact
<1>8. Exact(published.tree)' /\ Exact(pending.tree)'
  BY <1>4 DEF IInv, Exact
<1>9. Clock' /\ Cycles'
  BY <1>4 DEF IInv, TypeOK, TreeTypeOK, Clock, Cycles
<1>. QED
  BY <1>5, <1>7, <1>8, <1>9 DEF IInv

LEMMA NextBlockKeeps ==
  ASSUME IInv, NextBlock
  PROVE  IInv'
<1>1. /\ height \in Nat /\ height' = height + 1 /\ height < MaxHeight
      /\ UNCHANGED <<treeVars, files, served, bot>>
  BY DEF IInv, TypeOK, TreeTypeOK, NextBlock
<1>2. TypeOK'
  BY <1>1 DEF IInv, TypeOK, TreeTypeOK, treeVars
<1>3. Clock' /\ Cycles'
  BY <1>1, CycleAssumption
  DEF IInv, TypeOK, TreeTypeOK, Posted, Clock, Cycles, treeVars, Blocks
<1>4. ASSUME NEW t, Exact(t) PROVE Exact(t)'
  BY <1>1, <1>4, CycleAssumption DEF Exact, InRange, Blocks
<1>5. ASSUME NEW c \in Bots PROVE RunOK(c, bot[c])'
  <2>1. bot[c] \in Run /\ RunOK(c, bot[c])
    BY RunFacts
  <2>2. (bot[c].step # "idle" => bot[c].since <= height /\ height - bot[c].since <= MaxRun)'
    BY <1>1, <2>1, CycleAssumption DEF NextBlock, RunOK, At, Run
  <2>3. Ready(bot[c]) => Ready(bot[c])'
    BY <1>1, <2>1, CycleAssumption DEF Ready, RunOK, InRange, Blocks
  <2>4. Exact(bot[c].tree) => Exact(bot[c].tree)'
    BY <1>1, <1>4
  <2>5. Interrupted(bot[c]) => Interrupted(bot[c])'
    BY <1>1 DEF Interrupted, treeVars
  <2>6. InRange(bot[c])' /\ UNCHANGED <<bot[c], published>>
    BY <1>1, <2>1 DEF RunOK, InRange, treeVars
  <2>. QED
    BY <2>1, <2>2, <2>3, <2>4, <2>5, <2>6 DEF RunOK
<1>6. Exact(published.tree)' /\ Exact(pending.tree)'
  BY <1>1, <1>4 DEF IInv, treeVars
<1>. QED
  BY <1>2, <1>3, <1>5, <1>6 DEF IInv

(* A claim, a pause: the trees and the runs stay as they are. *)
LEMMA ClaimTypes ==
  ASSUME IInv, NEW u \in Users, ClaimRewards(u)
  PROVE  claimed' \in Claims
<1>1. PICK amounts \in [Tokens -> Amounts] : Claim(u, served, amounts)
  BY DEF ClaimRewards
<1>2. \A k \in Tokens : amounts[k] \in Nat
  BY <1>1, AmountsAssumption
<1>3. PICK paidOut : claimed' = [claimed EXCEPT ![u] =
         [k \in Tokens |-> IF k \in paidOut THEN @[k] + amounts[k] ELSE @[k]]]
  BY <1>1 DEF Claim
<1>. QED
  BY <1>2, <1>3 DEF IInv, TypeOK, TreeTypeOK

LEMMA OthersKeep ==
  ASSUME IInv, (\E u \in Users : ClaimRewards(u)) \/ PauseTree \/ UnpauseTree \/ UNCHANGED vars
  PROVE  IInv'
<1>1. /\ UNCHANGED <<currentCycle, published, pending, height, files, served, bot>>
      /\ paused' \in BOOLEAN
  BY DEF ClaimRewards, Claim, PauseTree, Pause, UnpauseTree, Unpause, vars, treeVars,
         IInv, TypeOK, TreeTypeOK
<1>2. claimed' \in Claims
  BY ClaimTypes
  DEF PauseTree, Pause, UnpauseTree, Unpause, vars, treeVars, IInv, TypeOK, TreeTypeOK
<1>. QED
  BY <1>1, <1>2
  DEF IInv, TypeOK, TreeTypeOK, Clock, Cycles, Exact, RunOK, Interrupted, Ready

LEMMA Inductive == IInv /\ [Next]_vars => IInv'
<1>. SUFFICES ASSUME IInv, [Next]_vars PROVE IInv'
  OBVIOUS
<1>1. CASE \E b \in Bots : Step(b) \/ Fail(b)
  BY <1>1, FailKeeps, FetchKeeps, ReadNextRangeKeeps, CheckIntervalKeeps, GenerateKeeps,
     ProposeKeeps, UploadKeeps, CheckPendingKeeps, ReadProposedRangeKeeps, ApproveKeeps
  DEF Step
<1>2. CASE NextBlock
  BY <1>2, NextBlockKeeps
<1>. QED
  BY <1>1, <1>2, OthersKeep DEF Next

-----------------------------------------------------------------------------
(* The theorems *)

LEMMA InvariantHolds == Spec => []IInv
BY Initially, Inductive, PTL DEF Spec

(* Every variable keeps its type, in any run of any number of scripts. *)
THEOREM TypeCorrect == Spec => []TypeOK
<1>1. IInv => TypeOK
  BY DEF IInv
<1>. QED
  BY <1>1, InvariantHolds, PTL

(* The published tree is exact: rootUpdateMinInterval is longer than a run *)
(* of a script, and that is all it takes, however many scripts race.       *)
THEOREM PublishedExact == Spec => []PublishedIsEarned
<1>1. IInv => PublishedIsEarned
  BY DEF IInv, Exact, PublishedIsEarned
<1>. QED
  BY <1>1, InvariantHolds, PTL

(* One root per cycle, and no cycle skipped, although approveRoot compares *)
(* with the pending cycle only.                                            *)
THEOREM RootsInOrder == Spec => CyclesInOrder
<1>. DEFINE InOrder == Root(published.tree)' # Root(published.tree)
                         => published'.tree.cycle = published.tree.cycle + 1
<1>1. ASSUME IInv, [Next]_vars PROVE [InOrder]_vars
  <2>1. CASE UNCHANGED published
    BY <2>1 DEF Root
  <2>2. CASE \E b \in Bots : Approve(b)
    <3>1. published'.tree = pending.tree
      BY <2>2 DEF Approve, ApproveRoot
    <3>. QED
      BY <1>1, <3>1 DEF IInv, Cycles, Root
  <2>3. UNCHANGED published \/ \E b \in Bots : Approve(b)
    BY <1>1 DEF Next, Step, Fail, FetchCurrent, ReadNextRange, CheckInterval, Generate,
       Propose, ProposeRoot, UploadProposed, FetchPending, ReadProposedRange, CheckPending,
       Regenerate, UploadApproved, ClaimRewards, Claim, PauseTree, Pause, UnpauseTree,
       Unpause, NextBlock, vars, treeVars
  <2>. QED
    BY <2>1, <2>2, <2>3
<1>. QED
  BY <1>1, InvariantHolds, PTL DEF Spec, CyclesInOrder

-----------------------------------------------------------------------------
(* Claims stay within the tree.  A script that is overtaken between its    *)
(* interval check and its transaction proposes an older range under a      *)
(* newer cycle, so this is about one script that proposes, as deployed.    *)

OneProposer == \A a, b \in Proposers \cup Operators : a = b

EndOK(b, r) ==
  /\ b \in Guardians => r.step \notin {"ranged", "due", "generated", "proposed"}
  /\ r.step \in {"ranged", "due"} => pending.tree.end <= r.end
  /\ r.step = "generated" => pending.tree.end <= r.tree.end

(* Ranges only move on: from what is published to what is pending to what  *)
(* the proposer works on.                                                  *)
EndsOrdered ==
  /\ published.tree.end <= pending.tree.end
  /\ \A b \in Bots : EndOK(b, bot[b])

LEMMA EndsLocal ==
  ASSUME IInv, EndsOrdered, NEW b \in Bots, NEW s, Set(b, s),
         UNCHANGED <<published, pending>>, EndOK(b, s)
  PROVE  EndsOrdered'
<1>1. bot'[b] = s /\ \A c \in Bots \ {b} : bot'[c] = bot[c]
  BY DEF IInv, TypeOK, Set
<1>2. \A c \in Bots : EndOK(c, bot'[c])
  BY <1>1 DEF EndsOrdered
<1>3. (\A c \in Bots : EndOK(c, bot[c]))'
  BY <1>2 DEF EndOK
<1>. QED
  BY <1>3 DEF EndsOrdered

LEMMA EndsKeptByRun ==
  ASSUME IInv, EndsOrdered, NEW b \in Bots, UNCHANGED <<published, pending>>,
         Step(b) \/ Fail(b)
  PROVE  EndsOrdered'
<1>1. bot[b] \in Run /\ EndOK(b, bot[b])
  BY RunFacts DEF EndsOrdered
<1>2. CASE FetchCurrent(b) \/ FetchPending(b)
  <2>1. PICK f : Set(b, [Idle EXCEPT !.step = "fetched", !.past = f, !.since = height])
    BY <1>2 DEF FetchCurrent, FetchPending
  <2>2. EndOK(b, [Idle EXCEPT !.step = "fetched", !.past = f, !.since = height])
    BY DEF EndOK, Idle
  <2>. QED
    BY <2>1, <2>2, EndsLocal
<1>3. CASE ReadNextRange(b)
  <2>. DEFINE s == [bot[b] EXCEPT !.step = "ranged", !.start = published.tree.end + 1,
                                  !.end = height - Buffer]
  <2>1. /\ pending.tree.end + Buffer <= height /\ pending.tree.end \in Blocks
        /\ height \in Blocks /\ Buffer \in Nat /\ MaxHeight \in Nat
    BY CycleAssumption DEF IInv, Exact, InRange, Clock
  <2>2. s.step = "ranged" /\ s.end = height - Buffer /\ b \notin Guardians
    BY <1>1, <1>3, CycleAssumption DEF Run, ReadNextRange
  <2>3. EndOK(b, s)
    BY <2>1, <2>2 DEF EndOK, Blocks
  <2>. QED
    BY <1>3, <2>3, EndsLocal DEF ReadNextRange
<1>4. CASE ReadProposedRange(b)
  <2>. DEFINE s == [bot[b] EXCEPT !.step = "slept", !.start = pending.tree.start,
                                  !.end = pending.tree.end]
  <2>1. EndOK(b, s)
    BY <1>1 DEF EndOK, Run
  <2>. QED
    BY <1>4, <2>1, EndsLocal DEF ReadProposedRange
<1>5. ASSUME NEW step \in Steps, Goto(b, step), step # "ranged",
             step \in {"due", "generated", "proposed"} => b \notin Guardians,
             step = "due" => At(b, "ranged"), step # "generated"
      PROVE  EndsOrdered'
  <2>. DEFINE s == [bot[b] EXCEPT !.step = step]
  <2>1. s.step = step /\ s.end = bot[b].end /\ s.tree = bot[b].tree
    BY <1>1 DEF Run
  <2>2. EndOK(b, s)
    BY <1>1, <1>5, <2>1 DEF EndOK, At
  <2>. QED
    BY <1>5, <2>2, EndsLocal DEF Goto
<1>6. ASSUME Return(b) PROVE EndsOrdered'
  <2>1. EndOK(b, Idle)
    BY DEF EndOK, Idle
  <2>. QED
    BY <1>6, <2>1, EndsLocal DEF Return
<1>7. CASE \/ CheckInterval(b) \/ UploadProposed(b) \/ UploadApproved(b) \/ CheckPending(b)
           \/ Fail(b) \/ Approve(b)
  <2>1. \/ Return(b) \/ Goto(b, "slept") \/ Goto(b, "pending") \/ Goto(b, "approved")
        \/ Goto(b, "due") /\ At(b, "ranged") /\ b \notin Guardians
    BY <1>7, CycleAssumption
    DEF CheckInterval, UploadProposed, UploadApproved, CheckPending, Fail, Approve, AfterUpdate
  <2>. QED
    BY <1>5, <1>6, <2>1 DEF Steps
<1>8. CASE Propose(b)
  <2>1. Goto(b, "proposed") /\ b \notin Guardians
    BY <1>1, <1>8 DEF Propose, At, EndOK
  <2>. QED
    BY <1>5, <2>1 DEF Steps
<1>9. CASE Generate(b) \/ Regenerate(b)
  <2>. DEFINE t == Generated(bot[b].past, bot[b].start, bot[b].end)
              to(step) == [bot[b] EXCEPT !.step = step, !.tree = t]
  <2>1. t.end = bot[b].end
    BY DEF Generated
  <2>. HIDE DEF t
  <2>2. \A step \in Steps : to(step).step = step /\ to(step).tree = t
    BY <1>1 DEF Run
  <2>3. CASE Generate(b)
    <3>1. EndOK(b, to("generated"))
      BY <1>1, <2>1, <2>2, <2>3 DEF Generate, At, EndOK, Steps
    <3>. QED
      BY <2>3, <3>1, EndsLocal DEF Generate, t
  <2>4. CASE Regenerate(b)
    <3>1. EndOK(b, to("verified"))
      BY <2>2 DEF EndOK, Steps
    <3>. QED
      BY <2>4, <3>1, EndsLocal DEF Regenerate, t
  <2>. QED
    BY <1>9, <2>3, <2>4
<1>. QED
  BY <1>2, <1>3, <1>4, <1>7, <1>8, <1>9 DEF Step

LEMMA EndsKept ==
  ASSUME OneProposer, IInv, EndsOrdered, [Next]_vars
  PROVE  EndsOrdered'
<1>1. ASSUME NEW b \in Bots, Propose(b) PROVE EndsOrdered'
  <2>1. /\ bot[b] \in Run /\ EndOK(b, bot[b]) /\ At(b, "generated")
        /\ pending'.tree = bot[b].tree /\ published' = published
    BY <1>1, RunFacts DEF EndsOrdered, Propose, ProposeRoot
  <2>2. /\ bot'[b].step = "proposed"
        /\ \A c \in Bots \ {b} : bot'[c] = bot[c]
    BY <1>1, <2>1 DEF IInv, TypeOK, Propose, Goto, Set, Run
  <2>3. b \notin Guardians /\ pending.tree.end <= bot[b].tree.end
    BY <2>1 DEF EndOK, At
  <2>4. ASSUME NEW c \in Bots PROVE EndOK(c, bot[c])'
    <3>1. CASE c = b
      BY <2>2, <2>3, <3>1 DEF EndOK
    <3>2. CASE c # b
      <4>1. c \in Guardians
        BY <2>3, <3>2 DEF OneProposer, Bots
      <4>. QED
        BY <2>2, <3>2, <4>1 DEF EndsOrdered, EndOK
    <3>. QED
      BY <3>1, <3>2
  <2>5. published.tree.end <= bot[b].tree.end
    <3>1. published.tree.end \in Int /\ pending.tree.end \in Int /\ bot[b].tree.end \in Int
      BY <2>1 DEF IInv, TypeOK, TreeTypeOK, Posted, Tree, Run
    <3>. QED
      BY <2>3, <3>1 DEF EndsOrdered
  <2>. QED
    BY <2>1, <2>4, <2>5 DEF EndsOrdered
<1>2. ASSUME NEW b \in Bots, Approve(b) PROVE EndsOrdered'
  <2>1. published'.tree = pending.tree /\ pending' = pending
    BY <1>2 DEF Approve, ApproveRoot
  <2>2. bot[b] \in Run
    BY RunFacts
  <2>3. /\ bot'[b].step = "approved"
        /\ \A c \in Bots \ {b} : bot'[c] = bot[c]
    BY <1>2, <2>2 DEF IInv, TypeOK, Approve, Goto, Set, Run
  <2>4. ASSUME NEW c \in Bots PROVE EndOK(c, bot[c])'
    BY <2>1, <2>3 DEF EndsOrdered, EndOK
  <2>5. pending.tree.end \in Int
    BY DEF IInv, TypeOK, TreeTypeOK, Posted, Tree
  <2>. QED
    BY <2>1, <2>4, <2>5 DEF EndsOrdered
<1>3. ASSUME NEW b \in Bots, Step(b) \/ Fail(b), ~Propose(b), ~Approve(b) PROVE EndsOrdered'
  <2>1. UNCHANGED <<published, pending>>
    BY <1>3 DEF Step, Fail, FetchCurrent, ReadNextRange, CheckInterval, Generate,
       UploadProposed, FetchPending, ReadProposedRange, CheckPending, Regenerate,
       UploadApproved, treeVars
  <2>. QED
    BY <1>3, <2>1, EndsKeptByRun
<1>4. CASE UNCHANGED <<published, pending, bot>>
  BY <1>4 DEF EndsOrdered, EndOK
<1>5. \/ \E b \in Bots : Step(b) \/ Fail(b)
      \/ UNCHANGED <<published, pending, bot>>
  BY DEF Next, ClaimRewards, Claim, PauseTree, Pause, UnpauseTree, Unpause, NextBlock,
         vars, treeVars
<1>. QED
  BY <1>1, <1>2, <1>3, <1>4, <1>5

LEMMA EndsInitially == Init => EndsOrdered /\ ClaimedWithinTree
<1>. SUFFICES ASSUME Init PROVE EndsOrdered /\ ClaimedWithinTree
  OBVIOUS
<1>1. published.tree = Genesis /\ pending.tree = Genesis /\ \A b \in Bots : bot[b] = Idle
  BY DEF Init, TreeInit
<1>2. EndsOrdered
  BY <1>1 DEF EndsOrdered, EndOK, Idle, Genesis
<1>3. ClaimedWithinTree
  BY <1>1, CycleAssumption DEF Init, TreeInit, ClaimedWithinTree, Genesis
<1>. QED
  BY <1>2, <1>3

(* A claim takes what the leaf of the published root has left.             *)
LEMMA ClaimWithinLeaf ==
  ASSUME IInv, ClaimedWithinTree, NEW u \in Users, ClaimRewards(u)
  PROVE  ClaimedWithinTree'
<1>. DEFINE leaf == published.tree.claims
<1>1. PICK amounts \in [Tokens -> Amounts] : Claim(u, served, amounts)
  BY DEF ClaimRewards
<1>2. served.claims = leaf /\ published' = published /\ claimed \in Claims /\ leaf \in Claims
  BY <1>1 DEF Claim, Root, IInv, TypeOK, TreeTypeOK, Posted, Tree
<1>. HIDE DEF leaf
<1>3. PICK paidOut :
        /\ paidOut \subseteq Attempted(leaf[u], amounts)
        /\ \A k \in paidOut : claimed[u][k] # leaf[u][k]
        /\ claimed' = [claimed EXCEPT ![u] =
             [k \in Tokens |-> IF k \in paidOut THEN @[k] + amounts[k] ELSE @[k]]]
  BY <1>1, <1>2 DEF Claim
<1>4. \A k \in Tokens : amounts[k] \in Nat
  BY <1>1, AmountsAssumption
<1>5. ASSUME NEW v \in Users, NEW k \in Tokens PROVE claimed'[v][k] <= leaf[v][k]
  <2>1. claimed[v][k] \in Nat /\ leaf[v][k] \in Nat /\ claimed[v][k] <= leaf[v][k]
    BY <1>2 DEF ClaimedWithinTree, leaf
  <2>2. CASE v = u /\ k \in paidOut
    <3>1. claimed[u][k] < leaf[u][k]
      BY <1>3, <2>1, <2>2
    <3>2. claimed[u][k] + amounts[k] <= leaf[u][k]
      BY <1>1, <1>2, <1>3, <2>2, <3>1 DEF Claim, Payable
    <3>. QED
      BY <1>2, <1>3, <2>2, <3>2
  <2>3. CASE ~(v = u /\ k \in paidOut)
    BY <1>2, <1>3, <2>1, <2>3
  <2>. QED
    BY <2>2, <2>3
<1>. QED
  BY <1>2, <1>5 DEF ClaimedWithinTree, leaf

LEMMA WithinKept ==
  ASSUME IInv, EndsOrdered, ClaimedWithinTree, [Next]_vars
  PROVE  ClaimedWithinTree'
<1>1. ASSUME NEW b \in Bots, Approve(b) PROVE ClaimedWithinTree'
  <2>1. published'.tree = pending.tree /\ claimed' = claimed
    BY <1>1 DEF Approve, ApproveRoot
  <2>2. /\ published.tree.end \in Blocks /\ published.tree.claims = Earned[published.tree.end]
        /\ pending.tree.end \in Blocks /\ pending.tree.claims = Earned[pending.tree.end]
        /\ published.tree.end <= pending.tree.end
    BY DEF IInv, Exact, InRange, EndsOrdered
  <2>3. ASSUME NEW u \in Users, NEW k \in Tokens
        PROVE  claimed[u][k] <= pending.tree.claims[u][k]
    <3>1. Earned[published.tree.end][u][k] <= Earned[pending.tree.end][u][k]
      BY <2>2, CycleAssumption
    <3>2. claimed[u][k] <= Earned[published.tree.end][u][k]
      BY <2>2 DEF ClaimedWithinTree
    <3>3. /\ claimed[u][k] \in Nat /\ Earned[published.tree.end][u][k] \in Nat
          /\ Earned[pending.tree.end][u][k] \in Nat
      BY <2>2, EarnedType DEF IInv, TypeOK, TreeTypeOK
    <3>. QED
      BY <2>2, <3>1, <3>2, <3>3
  <2>. QED
    BY <2>1, <2>3 DEF ClaimedWithinTree
<1>2. ASSUME NEW u \in Users, ClaimRewards(u) PROVE ClaimedWithinTree'
  BY <1>2, ClaimWithinLeaf
<1>3. CASE UNCHANGED <<published, claimed>>
  BY <1>3 DEF ClaimedWithinTree
<1>4. \/ \E b \in Bots : Approve(b)
      \/ \E u \in Users : ClaimRewards(u)
      \/ UNCHANGED <<published, claimed>>
  BY DEF Next, Step, Fail, FetchCurrent, ReadNextRange, CheckInterval, Generate,
     Propose, ProposeRoot, UploadProposed, FetchPending, ReadProposedRange, CheckPending,
     Regenerate, UploadApproved, PauseTree, Pause, UnpauseTree, Unpause, NextBlock,
     vars, treeVars
<1>. QED
  BY <1>1, <1>2, <1>3, <1>4

(* With one script that proposes, and any number that approve, every       *)
(* account's claims stay within the published tree: the subtraction in     *)
(* _tryClaim never underflows.                                             *)
THEOREM ClaimsFitTree == ASSUME OneProposer PROVE Spec => []ClaimedWithinTree
<1>1. Init => EndsOrdered /\ ClaimedWithinTree
  BY EndsInitially
<1>2. IInv /\ EndsOrdered /\ ClaimedWithinTree /\ [Next]_vars
        => (EndsOrdered /\ ClaimedWithinTree)'
  BY EndsKept, WithinKept
<1>. QED
  BY <1>1, <1>2, InvariantHolds, PTL DEF Spec

-----------------------------------------------------------------------------
(* The next cycle can be computed.  The combined script uploads what it    *)
(* proposed before it approves it; this is about that script alone, since  *)
(* a guardian approves what it recomputed, whether or not the proposer     *)
(* lived to upload it.                                                     *)

OneScript == Proposers = {} /\ Guardians = {} /\ \A a, b \in Operators : a = b

(* What the run r knows of the pending root. *)
UploadedFirst(r) ==
  /\ r.step \in {"ranged", "due"} => r.end >= r.since - Buffer
  /\ r.step \in {"generated", "proposed"} => r.tree.end >= r.since - Buffer
  /\ r.step \in {"generated", "proposed", "verified"} => r.tree.cycle = currentCycle + 1
  /\ r.step \in {"due", "generated"} => ~Recent
  /\ r.step = "proposed" => pending.tree = r.tree
  /\ r.step \in {"slept", "pending", "verified"} /\ HasPendingRoot =>
       pending.tree \in files /\ pending.tree.end >= r.since - Buffer

(* Nothing is pending while the last publication is recent: whoever finds  *)
(* it so has nothing to approve.                                           *)
ScriptInv ==
  /\ HasPendingRoot => ~Recent
  /\ NextCycleComputable
  /\ \A b \in Bots : UploadedFirst(bot[b])

LEMMA ScriptLocal ==
  ASSUME OneScript, IInv, ScriptInv, NEW b \in Bots, NEW s, Set(b, s),
         UNCHANGED <<treeVars, height>>, NextCycleComputable', UploadedFirst(s)'
  PROVE  ScriptInv'
<1>1. bot'[b] = s /\ \A c \in Bots : c = b
  BY DEF IInv, TypeOK, Set, OneScript, Bots
<1>2. (\A c \in Bots : UploadedFirst(bot[c]))'
  BY <1>1
<1>3. (HasPendingRoot => ~Recent)'
  BY DEF ScriptInv, HasPendingRoot, Recent, treeVars
<1>. QED
  BY <1>2, <1>3 DEF ScriptInv

(* A step that reads or computes, and leaves the bucket as it is. *)
LEMMA ScriptReads ==
  ASSUME OneScript, IInv, ScriptInv, NEW b \in Bots, NEW s, Set(b, s),
         UNCHANGED <<treeVars, height, files>>, UploadedFirst(s)
  PROVE  ScriptInv'
<1>1. NextCycleComputable'
  BY DEF ScriptInv, NextCycleComputable, FileOf, InTime, treeVars
<1>2. UploadedFirst(s)'
  BY DEF UploadedFirst, Recent, HasPendingRoot, treeVars
<1>. QED
  BY <1>1, <1>2, ScriptLocal

LEMMA ScriptKeptByRun ==
  ASSUME OneScript, IInv, ScriptInv, NEW b \in Bots, ~Propose(b), ~Approve(b),
         Step(b) \/ Fail(b)
  PROVE  ScriptInv'
<1>1. /\ bot[b] \in Run /\ RunOK(b, bot[b]) /\ UploadedFirst(bot[b])
      /\ height \in Nat /\ Buffer \in Nat /\ b \notin Guardians /\ b \in Operators
  BY RunFacts, CycleAssumption
  DEF ScriptInv, IInv, TypeOK, TreeTypeOK, Blocks, OneScript, Bots
<1>2. CASE FetchCurrent(b) \/ FetchPending(b)
  <2>1. PICK f : Set(b, [Idle EXCEPT !.step = "fetched", !.past = f, !.since = height])
    BY <1>2 DEF FetchCurrent, FetchPending
  <2>2. UploadedFirst([Idle EXCEPT !.step = "fetched", !.past = f, !.since = height])
    BY DEF UploadedFirst, Idle
  <2>. QED
    BY <1>2, <2>1, <2>2, ScriptReads DEF FetchCurrent, FetchPending
<1>3. CASE ReadNextRange(b)
  <2>. DEFINE s == [bot[b] EXCEPT !.step = "ranged", !.start = published.tree.end + 1,
                                  !.end = height - Buffer]
  <2>1. s.step = "ranged" /\ s.end = height - Buffer /\ s.since = bot[b].since
    BY <1>1 DEF Run
  <2>2. bot[b].since <= height /\ bot[b].since \in Nat
    BY <1>1, <1>3 DEF ReadNextRange, At, RunOK, Run
  <2>3. UploadedFirst(s)
    BY <1>1, <2>1, <2>2 DEF UploadedFirst
  <2>. QED
    BY <1>3, <2>3, ScriptReads DEF ReadNextRange
<1>4. ASSUME Return(b), UNCHANGED <<treeVars, height, files>> PROVE ScriptInv'
  <2>1. UploadedFirst(Idle)
    BY DEF UploadedFirst, Idle
  <2>. QED
    BY <1>4, <2>1, ScriptReads DEF Return
<1>5. CASE CheckInterval(b)
  <2>. DEFINE to(step) == [bot[b] EXCEPT !.step = step]
  <2>1. \A step \in Steps : /\ to(step).step = step /\ to(step).end = bot[b].end
                            /\ to(step).since = bot[b].since
    BY <1>1 DEF Run
  <2>2. CASE Recent
    <3>1. ~HasPendingRoot
      BY <2>2 DEF ScriptInv
    <3>2. UploadedFirst(to("slept"))
      BY <2>1, <3>1 DEF UploadedFirst, Steps
    <3>. QED
      BY <1>1, <1>5, <2>2, <3>2, ScriptReads DEF CheckInterval, AfterUpdate, Goto
  <2>3. CASE ~Recent
    <3>1. UploadedFirst(to("due"))
      BY <1>1, <1>5, <2>1, <2>3 DEF UploadedFirst, Steps, CheckInterval, At
    <3>. QED
      BY <1>5, <2>3, <3>1, ScriptReads DEF CheckInterval, Goto
  <2>. QED
    BY <2>2, <2>3
<1>6. CASE Generate(b) \/ Regenerate(b)
  <2>. DEFINE t == Generated(bot[b].past, bot[b].start, bot[b].end)
              to(step) == [bot[b] EXCEPT !.step = step, !.tree = t]
  <2>1. t.end = bot[b].end /\ t.cycle = currentCycle + 1
    BY DEF Generated
  <2>. HIDE DEF t
  <2>2. \A step \in Steps : /\ to(step).step = step /\ to(step).tree = t
                            /\ to(step).since = bot[b].since
    BY <1>1 DEF Run
  <2>3. CASE Generate(b)
    <3>1. UploadedFirst(to("generated"))
      BY <1>1, <2>1, <2>2, <2>3 DEF Generate, At, UploadedFirst, Steps
    <3>. QED
      BY <2>3, <3>1, ScriptReads DEF Generate, t
  <2>4. CASE Regenerate(b)
    <3>1. UploadedFirst(to("verified"))
      BY <1>1, <2>1, <2>2, <2>4 DEF Regenerate, At, UploadedFirst, Steps
    <3>. QED
      BY <2>4, <3>1, ScriptReads DEF Regenerate, t
  <2>. QED
    BY <1>6, <2>3, <2>4
<1>7. CASE UploadProposed(b)
  <2>0. PICK s, t : s = [bot[b] EXCEPT !.step = "slept"] /\ t = bot[b].tree
    OBVIOUS
  <2>1. /\ Set(b, s) /\ UNCHANGED <<treeVars, height>>
        /\ files' = (files \ FileOf(t)) \cup {t}
    BY <1>1, <1>7, <2>0 DEF UploadProposed, AfterUpdate, Goto
  <2>2. /\ s.step = "slept" /\ s.since = bot[b].since
        /\ pending.tree = t /\ t.cycle = currentCycle + 1 /\ t.end >= bot[b].since - Buffer
    BY <1>1, <1>7, <2>0 DEF Run, UploadProposed, At, UploadedFirst
  <2>3. UploadedFirst(s)'
    BY <2>1, <2>2 DEF UploadedFirst, treeVars
  <2>4. NextCycleComputable'
    <3>1. PICK f \in FileOf(published.tree) : InTime(f, published.block)
      BY DEF ScriptInv, NextCycleComputable
    <3>2. f.cycle = published.tree.cycle /\ published.tree.cycle = currentCycle
          /\ currentCycle \in Nat
      BY <3>1 DEF FileOf, Root, IInv, Cycles, TypeOK, TreeTypeOK
    <3>3. f \notin FileOf(t)
      BY <2>2, <3>2 DEF FileOf, Root
    <3>4. f \in FileOf(published.tree)'
      BY <2>1, <3>1, <3>3 DEF FileOf, treeVars
    <3>. QED
      BY <2>1, <3>1, <3>4 DEF NextCycleComputable, InTime, treeVars
  <2>. QED
    BY <2>1, <2>3, <2>4, ScriptLocal
<1>8. CASE CheckPending(b)
  <2>. DEFINE s == [bot[b] EXCEPT !.step = "pending"]
  <2>1. s.step = "pending" /\ s.since = bot[b].since
    BY <1>1 DEF Run
  <2>2. UploadedFirst(s)
    BY <1>1, <1>8, <2>1 DEF UploadedFirst, CheckPending, At
  <2>3. UNCHANGED <<treeVars, height, files>>
    BY <1>8 DEF CheckPending
  <2>. QED
    BY <1>4, <1>8, <2>2, <2>3, ScriptReads DEF CheckPending, Goto
<1>9. CASE UploadApproved(b) \/ Fail(b)
  BY <1>4, <1>9 DEF UploadApproved, Fail
<1>10. ~ReadProposedRange(b)
  BY <1>1 DEF ReadProposedRange
<1>. QED
  BY <1>2, <1>3, <1>5, <1>6, <1>7, <1>8, <1>9, <1>10 DEF Step

LEMMA ScriptPublishes ==
  ASSUME OneScript, IInv, ScriptInv, NEW b \in Bots, Propose(b) \/ Approve(b)
  PROVE  ScriptInv'
<1>1. /\ bot[b] \in Run /\ RunOK(b, bot[b]) /\ UploadedFirst(bot[b])
      /\ height \in Nat /\ Buffer \in Nat /\ currentCycle \in Nat
      /\ \A c \in Bots : c = b
  BY RunFacts, CycleAssumption
  DEF ScriptInv, IInv, TypeOK, TreeTypeOK, Blocks, OneScript, Bots
<1>2. UNCHANGED <<height, files>>
  BY DEF Propose, Approve
<1>3. CASE Propose(b)
  <2>1. /\ pending'.tree = bot[b].tree /\ UNCHANGED <<published, currentCycle>>
        /\ At(b, "generated")
    BY <1>3 DEF Propose, ProposeRoot
  <2>2. /\ bot'[b].step = "proposed" /\ bot'[b].tree = bot[b].tree
        /\ bot'[b].since = bot[b].since
    BY <1>1, <1>3 DEF Propose, Goto, Set, IInv, TypeOK, Run
  <2>3. (HasPendingRoot => ~Recent)'
    BY <1>1, <1>2, <2>1 DEF At, UploadedFirst, Recent
  <2>4. UploadedFirst(bot[b])'
    BY <1>1, <2>1, <2>2 DEF UploadedFirst, At
  <2>5. NextCycleComputable'
    BY <1>2, <2>1 DEF ScriptInv, NextCycleComputable, FileOf, InTime
  <2>. QED
    BY <1>1, <2>3, <2>4, <2>5 DEF ScriptInv
<1>4. CASE Approve(b)
  <2>1. /\ published' = [tree |-> pending.tree, block |-> height] /\ pending' = pending
        /\ currentCycle' = pending.tree.cycle /\ bot[b].tree = pending.tree
        /\ At(b, "verified")
    BY <1>4 DEF Approve, ApproveRoot
  <2>2. HasPendingRoot /\ pending.tree \in files /\ pending.tree.end >= bot[b].since - Buffer
    BY <1>1, <2>1 DEF At, UploadedFirst, HasPendingRoot
  <2>3. ~HasPendingRoot'
    BY <1>1, <2>1, <2>2 DEF HasPendingRoot
  <2>4. bot'[b].step = "approved"
    BY <1>1, <1>4 DEF Approve, Goto, Set, IInv, TypeOK, Run
  <2>5. UploadedFirst(bot[b])'
    BY <2>4 DEF UploadedFirst
  <2>6. InTime(pending.tree, height)
    <3>1. /\ pending.tree.end \in Int /\ pending.tree.end + Buffer <= height
          /\ bot[b].since \in Nat /\ height - bot[b].since <= MaxRun
          /\ MaxRun \in Nat /\ MaxLag \in Nat
      BY <1>1, <2>1, CycleAssumption
      DEF RunOK, At, Run, IInv, Exact, TypeOK, TreeTypeOK, Posted, Tree
    <3>. QED
      BY <1>1, <2>2, <3>1, RunAssumption DEF InTime
  <2>7. NextCycleComputable'
    BY <1>2, <2>1, <2>2, <2>6 DEF NextCycleComputable, FileOf, InTime
  <2>. QED
    BY <1>1, <2>3, <2>5, <2>7 DEF ScriptInv
<1>. QED
  BY <1>3, <1>4

LEMMA ScriptKept ==
  ASSUME OneScript, IInv, ScriptInv, [Next]_vars
  PROVE  ScriptInv'
<1>1. CASE \E b \in Bots : Step(b) \/ Fail(b)
  BY <1>1, ScriptKeptByRun, ScriptPublishes
<1>2. CASE UNCHANGED <<currentCycle, published, pending, height, files, bot>>
  BY <1>2 DEF ScriptInv, UploadedFirst, HasPendingRoot, Recent, NextCycleComputable,
              FileOf, InTime
<1>3. CASE NextBlock
  <2>1. /\ height \in Nat /\ height' = height + 1 /\ published.block \in Nat
        /\ UNCHANGED <<currentCycle, published, pending, files, bot>> /\ MinInterval \in Nat
    BY <1>3, CycleAssumption DEF NextBlock, treeVars, IInv, TypeOK, TreeTypeOK, Posted
  <2>2. Recent' => Recent
    BY <2>1 DEF Recent
  <2>. QED
    BY <2>1, <2>2 DEF ScriptInv, UploadedFirst, HasPendingRoot, NextCycleComputable,
                      FileOf, InTime
<1>4. \/ \E b \in Bots : Step(b) \/ Fail(b)
      \/ UNCHANGED <<currentCycle, published, pending, height, files, bot>>
      \/ NextBlock
  BY DEF Next, ClaimRewards, Claim, PauseTree, Pause, UnpauseTree, Unpause, vars, treeVars
<1>. QED
  BY <1>1, <1>2, <1>3, <1>4

LEMMA ScriptInitially == Init => ScriptInv
<1>. SUFFICES ASSUME Init PROVE ScriptInv
  OBVIOUS
<1>1. /\ published = [tree |-> Genesis, block |-> Buffer] /\ pending = published
      /\ currentCycle = Genesis.cycle /\ files = {Genesis} /\ \A b \in Bots : bot[b] = Idle
      /\ Buffer \in Nat
  BY CycleAssumption DEF Init, TreeInit, Blocks
<1>2. ~HasPendingRoot
  BY <1>1 DEF HasPendingRoot, Genesis
<1>3. InTime(Genesis, Buffer)
  BY <1>1, RunAssumption, CycleAssumption DEF InTime, Genesis
<1>4. NextCycleComputable
  BY <1>1, <1>3 DEF NextCycleComputable, FileOf
<1>5. UploadedFirst(Idle)
  BY DEF UploadedFirst, Idle
<1>. QED
  BY <1>1, <1>2, <1>4, <1>5 DEF ScriptInv

(* Wherever the combined script dies, and however long it is away, the     *)
(* next run finds the file it starts from, young enough for its checks.    *)
THEOREM NextAlwaysComputable == ASSUME OneScript PROVE Spec => []NextCycleComputable
<1>1. Init => ScriptInv
  BY ScriptInitially
<1>2. IInv /\ ScriptInv /\ [Next]_vars => ScriptInv'
  BY ScriptKept
<1>3. ScriptInv => NextCycleComputable
  BY DEF ScriptInv
<1>. QED
  BY <1>1, <1>2, <1>3, InvariantHolds, PTL DEF Spec

-----------------------------------------------------------------------------
(* Refinement *)

(* Nobody has claimed more than earned so far. *)
LedgerInv == IInv /\ Ledger!Covered

LEMMA EarnedGrows ==
  ASSUME NEW m \in Blocks, NEW n \in Blocks, m <= n, NEW u \in Users, NEW k \in Tokens
  PROVE  Earned[m][u][k] <= Earned[n][u][k]
BY CycleAssumption

LEMMA ClaimPays ==
  ASSUME LedgerInv, NEW u \in Users, ClaimRewards(u)
  PROVE  Ledger!Pay(u)
<1>. DEFINE cumulative == served.claims[u]
            now == Earned[height]
<1>1. PICK amounts \in [Tokens -> Amounts] : Claim(u, served, amounts)
  BY DEF ClaimRewards
<1>2. UNCHANGED height /\ claimed \in Claims /\ claimed' \in Claims
  BY ClaimTypes DEF ClaimRewards, LedgerInv, IInv, TypeOK, TreeTypeOK
<1>3. height \in Blocks /\ now \in Claims
  BY EarnedType DEF LedgerInv, IInv, Clock
<1>4. \A k \in Tokens : cumulative[k] <= now[u][k] /\ cumulative[k] \in Nat
  <2>1. served.claims = Earned[published.tree.end]
    BY <1>1 DEF Claim, Root, LedgerInv, IInv, Exact
  <2>2. published.tree.end \in Blocks /\ published.tree.end <= height
    BY <1>3, CycleAssumption DEF LedgerInv, IInv, Exact, InRange, Blocks
  <2>. QED
    BY <1>3, <2>1, <2>2, EarnedGrows, EarnedType
<1>5. PICK paidOut :
        /\ paidOut \subseteq Attempted(cumulative, amounts)
        /\ \A k \in paidOut : claimed[u][k] # cumulative[k]
        /\ claimed' = [claimed EXCEPT ![u] =
             [k \in Tokens |-> IF k \in paidOut THEN @[k] + amounts[k] ELSE @[k]]]
  BY <1>1 DEF Claim
<1>6. \A k \in Tokens : amounts[k] \in Nat
  BY <1>1, AmountsAssumption
<1>7. ASSUME NEW k \in Tokens
      PROVE  claimed[u][k] <= claimed'[u][k] /\ claimed'[u][k] <= now[u][k]
  <2>1. claimed[u][k] \in Nat /\ claimed[u][k] <= now[u][k] /\ now[u][k] \in Nat
    BY <1>2, <1>3 DEF LedgerInv, Ledger!Covered, Ledger!AtMost
  <2>2. CASE k \in paidOut
    <3>1. claimed[u][k] + amounts[k] <= cumulative[k]
      <4>1. claimed[u][k] <= cumulative[k]
        BY <1>1, <1>5, <2>2 DEF Claim, Payable
      <4>2. claimed[u][k] < cumulative[k]
        BY <1>4, <1>5, <2>1, <2>2, <4>1
      <4>. QED
        BY <1>1, <1>5, <2>2, <4>2 DEF Claim, Payable
    <3>2. claimed'[u][k] = claimed[u][k] + amounts[k]
      BY <1>2, <1>5, <2>2
    <3>. QED
      BY <1>4, <1>6, <2>1, <3>1, <3>2
  <2>3. CASE k \notin paidOut
    BY <1>2, <1>5, <2>1, <2>3
  <2>. QED
    BY <2>2, <2>3
<1>8. ASSUME NEW v \in Users \ {u}
      PROVE  claimed'[v] = claimed[v]
  BY <1>2, <1>5
<1>9. ASSUME NEW v \in Users, NEW k \in Tokens
      PROVE  claimed[v][k] <= claimed'[v][k] /\ claimed'[v][k] <= now[v][k]
  <2>1. CASE v = u
    BY <1>7, <2>1
  <2>2. CASE v # u
    BY <1>2, <1>8, <2>2 DEF LedgerInv, Ledger!Covered, Ledger!AtMost
  <2>. QED
    BY <2>1, <2>2
<1>. QED
  BY <1>2, <1>8, <1>9 DEF Ledger!Pay, Ledger!Amount, Ledger!AtMost

LEMMA BlockAccrues ==
  ASSUME LedgerInv, NextBlock
  PROVE  Ledger!Accrue
<1>1. height \in Blocks /\ height' \in Blocks /\ height <= height' /\ UNCHANGED claimed
  BY CycleAssumption DEF NextBlock, treeVars, LedgerInv, IInv, Clock, Blocks
<1>2. Earned[height'] \in Claims
  BY <1>1, EarnedType
<1>3. \A u \in Users, k \in Tokens : Earned[height][u][k] <= Earned[height'][u][k]
  BY <1>1, EarnedGrows
<1>. QED
  BY <1>1, <1>2, <1>3 DEF Ledger!Accrue, Ledger!Amount, Ledger!AtMost

(* Everything else leaves what is earned and what is paid alone. *)
LEMMA StepRefines ==
  ASSUME LedgerInv, [Next]_vars
  PROVE  [Ledger!Next]_(Ledger!vars)
<1>1. CASE NextBlock
  BY <1>1, BlockAccrues DEF Ledger!Next
<1>2. CASE \E u \in Users : ClaimRewards(u)
  BY <1>2, ClaimPays DEF Ledger!Next
<1>3. CASE UNCHANGED <<height, claimed>>
  BY <1>3 DEF Ledger!vars
<1>4. \/ NextBlock \/ \E u \in Users : ClaimRewards(u)
      \/ UNCHANGED <<height, claimed>>
  BY DEF Next, Step, Fail, FetchCurrent, ReadNextRange, CheckInterval, Generate,
     Propose, ProposeRoot, UploadProposed, FetchPending, ReadProposedRange, CheckPending,
     Regenerate, Approve, ApproveRoot, UploadApproved, PauseTree, Pause, UnpauseTree,
     Unpause, vars, treeVars
<1>. QED
  BY <1>1, <1>2, <1>3, <1>4

LEMMA LedgerInitially == Init => Ledger!Init /\ Ledger!Covered
<1>. SUFFICES ASSUME Init PROVE Ledger!Init /\ Ledger!Covered
  OBVIOUS
<1>1. height \in Blocks /\ claimed = [u \in Users |-> [k \in Tokens |-> 0]]
  BY CycleAssumption DEF Init, TreeInit, Blocks
<1>2. Earned[height] \in Claims
  BY <1>1, EarnedType
<1>. QED
  BY <1>1, <1>2 DEF Ledger!Init, Ledger!Amount, Ledger!Covered, Ledger!AtMost

(* A payment and an accrual both keep everyone covered. *)
LEMMA CoveredKept ==
  ASSUME LedgerInv, [Next]_vars
  PROVE  LedgerInv'
<1>1. IInv' /\ height \in Blocks /\ claimed \in Claims /\ height' \in Blocks /\ claimed' \in Claims
  BY Inductive DEF LedgerInv, IInv, Clock, TypeOK, TreeTypeOK
<1>2. CASE \E u \in Users : Ledger!Pay(u)
  BY <1>1, <1>2 DEF LedgerInv, Ledger!Pay, Ledger!Covered, Ledger!AtMost
<1>3. CASE Ledger!Accrue
  <2>1. ASSUME NEW u \in Users, NEW k \in Tokens
        PROVE  claimed'[u][k] <= Earned[height'][u][k]
    <3>1. claimed[u][k] <= Earned[height][u][k] /\ claimed'[u][k] = claimed[u][k]
      BY <1>3 DEF Ledger!Accrue, LedgerInv, Ledger!Covered, Ledger!AtMost
    <3>2. Earned[height][u][k] <= Earned[height'][u][k]
      BY <1>3 DEF Ledger!Accrue, Ledger!AtMost
    <3>3. claimed[u][k] \in Nat /\ Earned[height][u][k] \in Nat /\ Earned[height'][u][k] \in Nat
      BY <1>1, EarnedType
    <3>. QED
      BY <3>1, <3>2, <3>3
  <2>. QED
    BY <1>1, <2>1 DEF LedgerInv, Ledger!Covered, Ledger!AtMost
<1>4. CASE UNCHANGED Ledger!vars
  BY <1>1, <1>4 DEF Ledger!vars, LedgerInv, Ledger!Covered, Ledger!AtMost
<1>5. [Ledger!Next]_(Ledger!vars)
  BY StepRefines
<1>. QED
  BY <1>1, <1>2, <1>3, <1>4, <1>5 DEF Ledger!Next, LedgerInv

(* The rewards cycle keeps the promise of the ledger: accounts are paid    *)
(* in instalments and never more than they have earned so far, whatever    *)
(* the scripts do to each other.                                           *)
THEOREM CycleImplementsLedger == Spec => ImplementsLedger
<1>1. Init => LedgerInv
  BY Initially, LedgerInitially DEF LedgerInv
<1>2. LedgerInv /\ [Next]_vars => LedgerInv'
  BY CoveredKept
<1>3. LedgerInv /\ [Next]_vars => [Ledger!Next]_(Ledger!vars)
  BY StepRefines
<1>4. Init => Ledger!Init
  BY LedgerInitially
<1>. QED
  BY <1>1, <1>2, <1>3, <1>4, PTL DEF Spec, ImplementsLedger, Ledger!Spec
=============================================================================
