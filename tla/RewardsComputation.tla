-------------------------- MODULE RewardsComputation --------------------------
(***************************************************************************)
(* What a cycle of the rewards scripts computes: for a range of blocks,    *)
(* the emissions of the unlock schedules and the harvests of the           *)
(* strategies, shared out among the holders of each Sett, with a boost for *)
(* those who also hold Badger or DIGG.  RewardsCycle takes the outcome as  *)
(* given and is about publishing it; here the ranges follow one another    *)
(* without failures between the reads.                                     *)
(*                                                                         *)
(* calculate_sett_balances is cached for the life of the process and hands *)
(* out the same objects each time, which the boost then changes in place:  *)
(* cache[b] holds the balances as they are now, over a common denominator. *)
(* Dollars and token amounts are small integers; a division that the code  *)
(* makes in floating point and truncates is a division of integers.        *)
(***************************************************************************)
EXTENDS MerkleTree, FiniteSets, FiniteSetsExt, Functions

CONSTANTS
  Accounts, Tokens,
  Tree,            \* BADGER_TREE, which may hold shares for others
  AccountOrder,    \* the accounts as the subgraph lists them
  Order,           \* the keys of badger.sett_system.vaults, in order
  DiggSetts, BadgerSetts,  \* the native Setts
  Boosted,         \* NON_NATIVE_SETTS
  Uncounted,       \* experimental.digg
  NoRewards,       \* native.digg and experimental.digg
  Redistributed,   \* native.cvx and native.cvxCrv
  Price,           \* dollars per share, with the Sett's boost ratio
  Wallet,          \* dollars of "badger", shares of "digg" held by each account
  SharesPerFragment,
  Claimable,       \* shares of a Sett that wait in the tree for each account
  MaxBoost,        \* MAX_BOOST
  Dust,            \* one dollar
  TimeOf,          \* timestamp of each block
  Histories,       \* the balances at each block that are considered
  Offers,          \* the unlock schedules that may be set
  Yields,          \* the harvests that may happen
  SanityBase, SanityRate,  \* get_expected_total_rewards
  MaxHeight, Buffer, MaxSchedules, MaxHarvests

Setts == {Order[i] : i \in DOMAIN Order}
Blocks == 0..MaxHeight

(* Order is the order of the keys of a dict.  An offer lasts for some time: *)
(* the code divides by its duration.                                        *)
ASSUME ComputationAssumption ==
  /\ AccountOrder \in Seq(Accounts) /\ Accounts = {AccountOrder[i] : i \in DOMAIN AccountOrder}
  /\ Order \in Seq(Setts) /\ \A i, j \in DOMAIN Order : Order[i] = Order[j] => i = j
  /\ Tree \in Accounts
  /\ Price \in [Setts -> Nat] /\ Wallet \in [{"badger", "digg"} -> [Accounts -> Nat]]
  /\ Claimable \in [Setts -> [Accounts -> Nat]]
  /\ MaxBoost \in Nat \ {0} /\ SharesPerFragment \in Nat /\ Dust \in Nat
  /\ MaxHeight \in Nat /\ Buffer \in 1..MaxHeight
  /\ Histories \subseteq [Blocks -> [Setts -> [Accounts -> Nat]]]
  /\ TimeOf \in [Blocks -> Nat]
  /\ \A a, b \in Blocks : a < b => TimeOf[a] < TimeOf[b]
  /\ \A offer \in Offers : /\ offer.amount \in Nat /\ offer.start \in Nat
                           /\ offer.duration \in Nat \ {0}
  /\ \A yield \in Yields : /\ yield.sett \in Setts /\ yield.token \in Tokens
                            /\ yield.amount \in Nat /\ yield.kind \in {"tree", "sushi"}

VARIABLES
  balances,    \* shares at each block, staked or not
  height,      \* block.number
  schedules,   \* RewardsLogger: all the unlock schedules
  harvests,    \* TreeDistribution and Sushi harvest events
  cache,       \* what calculate_sett_balances returns for each block
  run,         \* the computation under way
  pending,     \* the tree proposed last
  recomputed,  \* what the same process computes when it verifies it
  trees        \* the published trees

chain == <<balances, height, schedules, harvests>>
published == <<pending, recomputed, trees>>
vars == <<chain, cache, run, published>>

Total(S, f(_)) == SumFunctionOnSet([x \in S |-> f(x)], S)

NoClaims == [u \in Accounts |-> [k \in Tokens |-> 0]]
Genesis == [cycle |-> 1, claims |-> NoClaims, start |-> 0, end |-> 0]
NoTree == [Genesis EXCEPT !.cycle = 0]

Idle == [for |-> "nothing", at |-> 0, start |-> 0, end |-> 0,
         one |-> 1, boost |-> [u \in Accounts |-> 1], new |-> NoClaims]

Fetched == [b \in Blocks |-> [scale |-> 1, of |-> balances[b]]]

Init ==
  /\ balances \in Histories
  /\ height = Buffer
  /\ schedules = <<>>
  /\ harvests = {}
  /\ cache = Fetched
  /\ run = Idle
  /\ pending = NoTree /\ recomputed = NoTree
  /\ trees = <<Genesis>>

-----------------------------------------------------------------------------
(* The boost (boost.py) *)

Category(s) == IF s \in DiggSetts THEN "digg"
               ELSE IF s \in BadgerSetts THEN "badger" ELSE "nonNative"

CountedWith(c) == {s \in Setts \ Uncounted : Category(s) = c}

(* convert_balances_to_usd *)
Usd(held, s, u) == held.of[s][u] * Price[s]

(* fetch_wallet_balances divides by the shares, so that more of them count *)
(* for less.                                                               *)
FragmentBalance(held) == IF held = 0 THEN 0 ELSE SharesPerFragment \div held

WalletValue(c, u) ==
  CASE c = "badger" -> Wallet[c][u]
    [] c = "digg" -> FragmentBalance(Wallet[c][u])
    [] c = "nonNative" -> 0

(* combine_balances over the Setts of a category and the wallets *)
Value(held, c, u) ==
  Total(CountedWith(c), LAMBDA s : Usd(held, s, u)) + held.scale * WalletValue(c, u)

(* filter_dust *)
Counted(held, c, u) ==
  LET value == Value(held, c, u) IN IF value > held.scale * Dust THEN value ELSE 0

(* What an account is worth in Badger and DIGG, and elsewhere *)
Worths(held) ==
  [u \in Accounts |->
     [native |-> Counted(held, "digg", u) + Counted(held, "badger", u),
      nonNative |-> Counted(held, "nonNative", u)]]

NonNativeTotal(worth) == Total(Accounts, LAMBDA u : worth[u].nonNative)

(* calc_stake_ratio, compared as native / nonNative; zero for an account   *)
(* that holds nothing else.                                                *)
HigherStake(worth, u, v) ==
  /\ worth[u].nonNative > 0
  /\ IF worth[v].nonNative = 0 THEN worth[u].native > 0
     ELSE worth[u].native * worth[v].nonNative > worth[v].native * worth[u].nonNative

Listed(u) == CHOOSE i \in DOMAIN AccountOrder : AccountOrder[i] = u

RanksBefore_LowestFirst(worth, u, v) ==
  \/ HigherStake(worth, v, u)
  \/ ~HigherStake(worth, u, v) /\ Listed(u) < Listed(v)

(* Sorted by stake ratio, the highest first *)
RanksBefore(worth, u, v) ==
  \/ HigherStake(worth, u, v)
  \/ ~HigherStake(worth, v, u) /\ Listed(u) < Listed(v)

One(worth) == IF NonNativeTotal(worth) = 0 THEN 1 ELSE NonNativeTotal(worth)

(* calc_cumulative *)
Cumulative(worth, u) ==
  Total({v \in Accounts : v = u \/ RanksBefore(worth, v, u)},
        LAMBDA v : worth[v].nonNative)

(* calc_boost, in units of One.  One for an account with no stake ratio.   *)
Boosts(worth) ==
  LET one == One(worth)
      boost(u) == MaxBoost * one - (MaxBoost - 1) * Cumulative(worth, u)
  IN  [u \in Accounts |->
         IF worth[u].nonNative = 0 \/ worth[u].native = 0 THEN one
         ELSE Max({one, boost(u)})]

Place(s) == CHOOSE i \in DOMAIN Order : Order[i] = s

(* The balance of the first Sett of a category that has an account becomes *)
(* the object to which the others and the wallet are added.                *)
Collects(held, s, u) ==
  /\ held.of[s][u] > 0
  /\ \A t \in CountedWith(Category(s)) : Place(t) < Place(s) => held.of[t][u] = 0

(* What badger_boost leaves in the cache, in units of one *)
InDollars(held, one) ==
  [scale |-> held.scale * one,
   of |-> [s \in Setts |-> [u \in Accounts |->
     one * (IF s \in Uncounted THEN held.of[s][u]
            ELSE IF Collects(held, s, u) THEN Value(held, Category(s), u)
            ELSE Usd(held, s, u))]]]

(* boost_balance, for every holder of a Sett *)
BoostedIn(held, s) ==
  IF s \in Boosted
  THEN [held EXCEPT !.of[s] = [u \in Accounts |-> (held.of[s][u] * run.boost[u]) \div run.one]]
  ELSE held

-----------------------------------------------------------------------------
(* The rewards of a range (calc_snapshot.py, tree_rewards.py, sushi.py) *)

Distributed_PastItsEnd(schedule, time) ==
  IF time < schedule.start THEN 0
  ELSE (schedule.amount * (time - schedule.start)) \div schedule.duration

(* get_distributed_for_token_at, of one schedule *)
Distributed(schedule, time) ==
  IF time < schedule.start THEN 0
  ELSE Min({schedule.amount,
            (schedule.amount * (time - schedule.start)) \div schedule.duration})

(* The schedules of a Sett and token, over the times of the two blocks *)
TokenDistribution(s, k, start, end) ==
  Total({i \in DOMAIN schedules : schedules[i].sett = s /\ schedules[i].token = k},
        LAMBDA i : Distributed(schedules[i], TimeOf[end])
                     - Distributed(schedules[i], TimeOf[start]))

SumBalances(held, s) == Total(Accounts, LAMBDA u : held.of[s][u])
TotalClaimable(s) == Total(Accounts, LAMBDA u : Claimable[s][u])

PassesOn(held, s) == s \in Redistributed /\ held.of[s][Tree] > 0

(* calc_snapshot.  A holder gets a share; the share of the tree goes to    *)
(* those for whom it holds the shares of two of the Setts, and to nobody   *)
(* in the others.                                                          *)
SnapshotRewards(held, s, k, start, end) ==
  LET dist == TokenDistribution(s, k, start, end)
      sum == SumBalances(held, s)
      waiting == TotalClaimable(s)
      own(u) == IF u = Tree THEN 0 ELSE (dist * held.of[s][u]) \div sum
      passedOn(u) == IF PassesOn(held, s)
                     THEN (dist * held.of[s][Tree] * Claimable[s][u]) \div (sum * waiting)
                     ELSE 0
  IN  [u \in Accounts |-> IF s \in NoRewards \/ dist <= 0 THEN 0 ELSE own(u) + passedOn(u)]

(* A division by the balances of a Sett without holders, or by the claims  *)
(* of nobody, raises.                                                      *)
Divides(held, s, start, end) ==
  \/ s \in NoRewards
  \/ \A k \in Tokens : TokenDistribution(s, k, start, end) <= 0
  \/ SumBalances(held, s) > 0 /\ (PassesOn(held, s) => TotalClaimable(s) > 0)

Processed_BeforeEnd(start, end) ==
  {h \in harvests : h.block > start /\ h.block < end}

(* fetch_tree_distributions: after the start block, up to the end block    *)
TreeDistributions(start, end) ==
  {h \in harvests : h.kind = "tree" /\ h.block > start /\ h.block <= end}

(* fetch_sushi_harvest_events: strictly between the two                    *)
SushiHarvests(start, end) ==
  {h \in harvests : h.kind = "sushi" /\ h.block > start /\ h.block < end}

Processed(start, end) == TreeDistributions(start, end) \cup SushiHarvests(start, end)

(* By the balances at the block of the harvest *)
HarvestRewards(h) ==
  LET held == cache[h.block]
      sum == SumBalances(held, h.sett)
  IN  [u \in Accounts |-> (h.amount * held.of[h.sett][u]) \div sum]

(* calc_all_sushi_rewards and calc_tree_rewards *)
FromHarvests(start, end) ==
  LET processed == Processed(start, end)
      rewards == [h \in processed |-> HarvestRewards(h)]
  IN  [u \in Accounts |-> [k \in Tokens |->
         Total({h \in processed : h.token = k}, LAMBDA h : rewards[h][u])]]

(* combine_rewards, process_cumulative_rewards *)
Plus(claims, new) ==
  [u \in Accounts |-> [k \in Tokens |-> claims[u][k] + new[u][k]]]

Last == trees[Len(trees)]

TokenTotal(tree, k) == Total(Accounts, LAMBDA u : tree.claims[u][k])

(* verify_rewards: the totals against what is expected by then *)
Sane(tree) ==
  \A k \in Tokens : TokenTotal(tree, k) < SanityBase + SanityRate * TimeOf[tree.end]

-----------------------------------------------------------------------------
(* The process *)

HarvestsDivide(start, end) ==
  \A h \in Processed(start, end) : SumBalances(cache[h.block], h.sett) > 0

(* generate_rewards_in_range begins with the harvests, whose balances are  *)
(* those of their blocks, and the boost.                                   *)
Begin(purpose, start, end) ==
  LET worth == Worths(cache[end])
      one == One(worth)
  IN
  /\ run.for = "nothing"
  /\ HarvestsDivide(start, end)
  /\ run' = [for |-> purpose, at |-> 1, start |-> start, end |-> end, one |-> one,
             boost |-> Boosts(worth), new |-> FromHarvests(start, end)]
  /\ cache' = [cache EXCEPT ![end] = InDollars(cache[end], one)]
  /\ UNCHANGED <<chain, published>>

Done == [Idle EXCEPT !.end = run.end]

(* rootUpdater over calc_next_cycle_range; the next one of a process comes *)
(* some blocks later.                                                      *)
BeginProposal ==
  /\ Last.end + 1 < height - Buffer /\ run.end < height - Buffer
  /\ Begin("proposal", Last.end + 1, height - Buffer)

(* The guardian half of rewards_combined: the same range, in the same      *)
(* process                                                                 *)
BeginRecomputation ==
  /\ pending.cycle = Len(trees) + 1 /\ run.end = pending.end
  /\ recomputed.end < pending.end
  /\ Begin("verification", pending.start, pending.end)

(* What raises ends a run; the loop of the proposer goes on, the combined  *)
(* script does not.                                                        *)
Raise(kept) ==
  IF run.for = "proposal" THEN run' = Done /\ cache' = kept
                          ELSE run' = Idle /\ cache' = Fetched

(* calc_snapshot of the next Sett *)
Snapshot ==
  LET s == Order[run.at]
      boosted == BoostedIn(cache[run.end], s)
      rewards == [k \in Tokens |-> SnapshotRewards(boosted, s, k, run.start, run.end)]
  IN
  /\ run.at \in DOMAIN Order
  /\ IF s \in NoRewards
     THEN run' = [run EXCEPT !.at = @ + 1] /\ UNCHANGED cache
     ELSE IF Divides(boosted, s, run.start, run.end)
     THEN /\ cache' = [cache EXCEPT ![run.end] = boosted]
          /\ run' = [run EXCEPT !.at = @ + 1,
                       !.new = Plus(@, [u \in Accounts |-> [k \in Tokens |-> rewards[k][u]]])]
     ELSE Raise([cache EXCEPT ![run.end] = boosted])
  /\ UNCHANGED <<chain, published>>

Computed ==
  [cycle |-> Len(trees) + 1, claims |-> Plus(Last.claims, run.new),
   start |-> run.start, end |-> run.end]

(* The tree is proposed, or compared with the one that is, if it is sane.  *)
Finish ==
  /\ run.at = Len(Order) + 1
  /\ IF Sane(Computed)
     THEN /\ IF run.for = "proposal"
             THEN pending' = Computed /\ UNCHANGED recomputed
             ELSE recomputed' = Computed /\ UNCHANGED pending
          /\ run' = Done /\ UNCHANGED cache
     ELSE Raise(cache) /\ UNCHANGED <<pending, recomputed>>
  /\ UNCHANGED <<chain, trees>>

(* The pending root is approved. *)
Publish ==
  /\ run.for = "nothing"
  /\ pending.cycle = Len(trees) + 1
  /\ trees' = Append(trees, pending)
  /\ UNCHANGED <<chain, cache, run, pending, recomputed>>

(* The process is started anew. *)
Restart ==
  /\ cache' = Fetched
  /\ run' = Idle
  /\ UNCHANGED <<chain, published>>

-----------------------------------------------------------------------------
(* The chain.  A run reads it at fixed blocks, all but the schedules.      *)

Mine ==
  /\ run.for = "nothing" /\ height < MaxHeight
  /\ height' = height + 1
  /\ UNCHANGED <<balances, schedules, harvests, cache, run, published>>

SetUnlockSchedule(offer) ==
  /\ Len(schedules) < MaxSchedules
  /\ schedules' = Append(schedules, offer)
  /\ UNCHANGED <<balances, height, harvests, cache, run, published>>

Harvest(yield) ==
  /\ run.for = "nothing" /\ Cardinality(harvests) < MaxHarvests
  /\ harvests' = harvests \cup
       {[block |-> height, sett |-> yield.sett, token |-> yield.token,
         amount |-> yield.amount, kind |-> yield.kind]}
  /\ UNCHANGED <<balances, height, schedules, cache, run, published>>

Next ==
  \/ BeginProposal \/ BeginRecomputation \/ Snapshot \/ Finish
  \/ Publish \/ Restart \/ Mine
  \/ \E offer \in Offers : SetUnlockSchedule(offer)
  \/ \E yield \in Yields : Harvest(yield)

Spec == Init /\ [][Next]_vars

-----------------------------------------------------------------------------
(* Properties *)

Released(schedule, time) ==
  IF time >= schedule.start + schedule.duration THEN schedule.amount
  ELSE IF time <= schedule.start THEN 0
  ELSE (schedule.amount * (time - schedule.start)) \div schedule.duration

(* However ranges, boosts and late schedules fall, the totals of a tree    *)
(* that is published never exceed what the schedules have released by its  *)
(* end block plus what was harvested: no block is paid twice and no boost  *)
(* is paid out of nothing (calc_snapshot.py:60-127, tree_rewards.py:42-73).*)
WithinReleased(tree) ==
  \A k \in Tokens :
    TokenTotal(tree, k)
      <= Total({i \in DOMAIN schedules : schedules[i].token = k},
               LAMBDA i : Released(schedules[i], TimeOf[tree.end]))
         + Total({h \in harvests : h.token = k /\ h.block <= tree.end},
                 LAMBDA h : h.amount)

PaidWithinReleased == [][Publish => WithinReleased(pending)]_vars

AtABoundary(h, tree) ==
  h.block = tree.start \/ (h.kind = "sushi" /\ h.block = tree.end)

(* What was harvested in a range that is published is paid once and in     *)
(* full, up to rounding; only what was harvested in the first block of a   *)
(* range, or for Sushi in its last, falls between two ranges               *)
(* (calc_meta_rewards.py:13, subgraph/client.py:57).                       *)
HarvestsPaid(before, tree) ==
  \A k \in Tokens :
    LET due == {h \in harvests : /\ h.token = k /\ h.block \in tree.start..tree.end
                                 /\ ~AtABoundary(h, tree)}
        paid == TokenTotal(tree, k) - TokenTotal(before, k)
    IN  paid > Total(due, LAMBDA h : h.amount - Cardinality(Accounts)) - 1

HarvestsArePaid == [][Publish => HarvestsPaid(Last, pending)]_vars

(* Every entry of a published tree comes with a proof that the BadgerTree  *)
(* accepts, in whatever order the hashes put the leaves                    *)
(* (MerkleTree.py:28, BadgerTreeV2.sol:283).                               *)
Entries(tree) ==
  SelectSeq(AccountOrder, LAMBDA u : \E k \in Tokens : tree.claims[u][k] > 0)

Arrangements(n) == {f \in [1..n -> 1..n] : \A i, j \in 1..n : f[i] = f[j] => i = j}

Proven(tree) ==
  LET users == Entries(tree)
      n == Len(users)
      entries == [i \in 1..n |-> <<users[i], tree.claims[users[i]]>>]
  IN  \A order \in Arrangements(n) :
        LET leaves == [i \in 1..n |-> Leaf(entries[order[i]])]
        IN  \A i \in 1..n :
              Verifies(GetProof(leaves, entries, i), MerkleRoot(leaves), Leaf(entries[i]))

EntriesAreProven == [][Publish => Proven(pending)]_vars

(* More Badger or DIGG for each dollar elsewhere, as the script counts     *)
(* them, never means a lower boost, and no boost is below one or above     *)
(* MAX_BOOST (boost.py:43-50, 132-136).                                    *)
BoostFollowsStake ==
  LET worth == Worths([scale |-> 1, of |-> balances[run.end]]) IN
  run.for = "proposal" /\ run.at = 1 =>
    \A u, v \in Accounts :
      /\ run.boost[u] \in run.one..MaxBoost * run.one
      /\ HigherStake(worth, u, v) => run.boost[u] >= run.boost[v]
=============================================================================
