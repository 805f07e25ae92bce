----------------------- MODULE RewardsComputationProofs -----------------------
(***************************************************************************)
(* What is proved of the computation of the rewards, for any accounts,     *)
(* Setts, balances, schedules and harvests: a boost follows the stake,     *)
(* whatever is published keeps within what was released and harvested, and *)
(* what was harvested in a range is paid, up to rounding.                  *)
(*                                                                         *)
(* The sums over accounts, schedules and harvests come first, as facts     *)
(* about operators of constants; the inductive invariant IInv follows what *)
(* a run has given out so far, Sett by Sett.                               *)
(***************************************************************************)
EXTENDS RewardsComputation, Arithmetic

Held == [scale : Nat, of : [Setts -> [Accounts -> Nat]]]
Worth == [Accounts -> [native : Nat, nonNative : Nat]]
Claims == [Accounts -> [Tokens -> Nat]]

LEMMA ElementsFinite ==
  ASSUME NEW S, NEW q \in Seq(S), S = {q[i] : i \in DOMAIN q}
  PROVE  IsFiniteSet(S)
<1>1. DOMAIN q = 1..Len(q) /\ Len(q) \in Nat
  OBVIOUS
<1>2. q \in Surjection(1..Len(q), S)
  BY <1>1 DEF Surjection
<1> QED BY <1>1, <1>2, FS_Interval, FS_Surjection

LEMMA AccountsFinite == IsFiniteSet(Accounts)
BY ComputationAssumption, ElementsFinite

LEMMA SettsFinite == IsFiniteSet(Setts)
<1>1. Order \in Seq(Setts) /\ Setts = {Order[i] : i \in DOMAIN Order}
  BY ComputationAssumption DEF Setts
<1> QED BY <1>1, ElementsFinite

LEMMA NatSum ==
  ASSUME NEW S, IsFiniteSet(S), NEW f, \A x \in S : f[x] \in Nat
  PROVE  SumFunctionOnSet(f, S) \in Nat
<1>1. SumFunctionOnSet(f, S) \in Int /\ SumFunctionOnSet(f, S) >= 0
  BY SumType
<1> QED BY <1>1

LEMMA MaxOfTwo ==
  ASSUME NEW a \in Int, NEW b \in Int
  PROVE  Max({a, b}) = IF a >= b THEN a ELSE b
<1>1. PICK m \in {a, b} : \A y \in {a, b} : m >= y
  OBVIOUS
<1>2. Max({a, b}) \in {a, b} /\ \A y \in {a, b} : Max({a, b}) >= y
  BY <1>1 DEF Max
<1> QED BY <1>2

LEMMA MinOfTwo ==
  ASSUME NEW a \in Int, NEW b \in Int
  PROVE  Min({a, b}) = IF a <= b THEN a ELSE b
<1>1. PICK m \in {a, b} : \A y \in {a, b} : m <= y
  OBVIOUS
<1>2. Min({a, b}) \in {a, b} /\ \A y \in {a, b} : Min({a, b}) <= y
  BY <1>1 DEF Min
<1> QED BY <1>2

-----------------------------------------------------------------------------
(* The boost *)

LEMMA ValueType ==
  ASSUME NEW held \in Held, NEW c \in {"badger", "digg", "nonNative"}, NEW u \in Accounts
  PROVE  Value(held, c, u) \in Nat
<1> DEFINE usd == [s \in CountedWith(c) |-> Usd(held, s, u)]
<1>1. IsFiniteSet(CountedWith(c))
  <2>1. CountedWith(c) \in SUBSET Setts
    BY DEF CountedWith
  <2> QED BY <2>1, SettsFinite, FS_Subset
<1>2. ASSUME NEW s \in CountedWith(c) PROVE usd[s] \in Nat
  <2>1. s \in Setts
    BY DEF CountedWith
  <2>2. held.of \in [Setts -> [Accounts -> Nat]] /\ Price \in [Setts -> Nat]
    BY ComputationAssumption DEF Held
  <2>3. held.of[s][u] * Price[s] \in Nat
    BY <2>1, <2>2, MulNat
  <2>4. usd[s] = held.of[s][u] * Price[s]
    BY DEF Usd
  <2> QED BY <2>3, <2>4
<1>3. SumFunctionOnSet(usd, CountedWith(c)) \in Nat
  <2> HIDE DEF usd
  <2> QED BY <1>1, <1>2, NatSum
<1>4. WalletValue(c, u) \in Nat
  <2>1. Wallet["badger"][u] \in Nat /\ Wallet["digg"][u] \in Nat /\ SharesPerFragment \in Nat
    BY ComputationAssumption
  <2>2. FragmentBalance(Wallet["digg"][u]) \in Nat
    BY <2>1, FloorBounds DEF FragmentBalance
  <2> QED BY <2>1, <2>2 DEF WalletValue
<1>5. held.scale * WalletValue(c, u) \in Nat
  BY <1>4, MulNat DEF Held
<1> QED BY <1>3, <1>5 DEF Value, Total

LEMMA WorthsType == ASSUME NEW held \in Held PROVE Worths(held) \in Worth
<1>1. ASSUME NEW c \in {"badger", "digg", "nonNative"}, NEW u \in Accounts
      PROVE Counted(held, c, u) \in Nat
  BY ValueType DEF Counted
<1> QED BY <1>1 DEF Worths, Worth

LEMMA OneType ==
  ASSUME NEW worth \in Worth
  PROVE  One(worth) \in Nat \ {0}
<1> DEFINE f == [u \in Accounts |-> worth[u].nonNative]
<1>1. \A u \in Accounts : f[u] \in Nat
  BY DEF Worth
<1>2. SumFunctionOnSet(f, Accounts) \in Nat
  <2> HIDE DEF f
  <2> QED BY <1>1, AccountsFinite, NatSum
<1> QED BY <1>2 DEF One, NonNativeTotal, Total

(* A set of accounts has at least what a part of it has. *)
LEMMA CumulativeFacts ==
  ASSUME NEW worth \in Worth, NEW u \in Accounts, NEW v \in Accounts
  PROVE  /\ Cumulative(worth, u) \in Nat
         /\ (\A w \in Accounts : w = u \/ RanksBefore(worth, w, u) => w = v \/ RanksBefore(worth, w, v))
              => Cumulative(worth, u) <= Cumulative(worth, v)
<1> DEFINE before(x) == {w \in Accounts : w = x \/ RanksBefore(worth, w, x)}
           part(S) == [w \in S |-> worth[w].nonNative]
<1>1. ASSUME NEW S \in SUBSET Accounts
      PROVE /\ SumFunctionOnSet(part(S), S) = SumFunctionOnSet(part(Accounts), S)
            /\ SumFunctionOnSet(part(S), S) \in Nat
            /\ IsFiniteSet(S)
  <2>1. IsFiniteSet(S)
    BY AccountsFinite, FS_Subset
  <2> DEFINE f == part(S)
             g == part(Accounts)
  <2>2. \A x \in S : f[x] \in Nat /\ f[x] = g[x]
    BY DEF Worth
  <2> HIDE DEF f, g
  <2>3. SumFunctionOnSet(f, S) = SumFunctionOnSet(g, S)
    BY <2>1, <2>2, SumSame
  <2>4. SumFunctionOnSet(f, S) \in Nat
    BY <2>1, <2>2, NatSum
  <2> QED BY <2>1, <2>3, <2>4 DEF f, g
<1>2. Cumulative(worth, u) = SumFunctionOnSet(part(before(u)), before(u))
  BY DEF Cumulative, Total
<1>3. Cumulative(worth, v) = SumFunctionOnSet(part(before(v)), before(v))
  BY DEF Cumulative, Total
<1>4. ASSUME before(u) \subseteq before(v)
      PROVE  Cumulative(worth, u) <= Cumulative(worth, v)
  <2> DEFINE f == part(Accounts)
             bu == before(u)
             bv == before(v)
  <2>1. bu \in SUBSET bv /\ bv \in SUBSET Accounts /\ bu \in SUBSET Accounts
    BY <1>4
  <2>2. \A x \in bv : f[x] \in Int /\ f[x] >= 0
    BY DEF Worth
  <2>3. IsFiniteSet(bv)
    BY <1>1
  <2>4. Cumulative(worth, u) = SumFunctionOnSet(f, bu) /\ Cumulative(worth, v) = SumFunctionOnSet(f, bv)
    BY <1>1, <1>2, <1>3, <2>1
  <2> HIDE DEF f, bu, bv
  <2> QED BY <2>1, <2>2, <2>3, <2>4, SumWithin
<1>5. Cumulative(worth, u) \in Nat
  BY <1>1, <1>2
<1> QED BY <1>4, <1>5

(* Who ranks before an account of higher stake ranks before one of lower.  *)
LEMMA HigherGoesOn ==
  ASSUME NEW worth \in Worth, NEW u \in Accounts, NEW v \in Accounts, NEW w \in Accounts,
         HigherStake(worth, u, v), RanksBefore(worth, w, u), worth[v].nonNative > 0
  PROVE  RanksBefore(worth, w, v)
<1> DEFINE nu == worth[u].native
           du == worth[u].nonNative
           nv == worth[v].native
           dv == worth[v].nonNative
           nw == worth[w].native
           dw == worth[w].nonNative
<1>1. nu \in Nat /\ du \in Nat /\ nv \in Nat /\ dv \in Nat /\ nw \in Nat /\ dw \in Nat
  BY DEF Worth
<1>2. du > 0 /\ dv > 0 /\ nu * dv > nv * du
  BY DEF HigherStake
<1>3. nu > 0
  <2>1. nv * du \in Nat
    BY <1>1, MulNat
  <2>2. CASE nu = 0
    <3>1. nu * dv = 0
      BY <1>1, <2>2
    <3> HIDE DEF nu, du, nv, dv
    <3> QED BY <3>1, <2>1, <1>2
  <2> QED BY <1>1, <2>2
<1>4. HigherStake(worth, w, u) \/ ~HigherStake(worth, u, w)
  BY DEF RanksBefore
<1>5. dw > 0 /\ nw * du >= nu * dw
  <2>1. nw * du \in Nat /\ nu * dw \in Nat
    BY <1>1, MulNat
  <2>2. CASE HigherStake(worth, w, u)
    <3>1. dw > 0 /\ nw * du > nu * dw
      BY <2>2, <1>2 DEF HigherStake
    <3> HIDE DEF nu, du, nw, dw
    <3> QED BY <3>1, <2>1
  <2>3. CASE ~HigherStake(worth, u, w)
    <3>1. dw > 0 /\ ~(nu * dw > nw * du)
      BY <2>3, <1>1, <1>2, <1>3 DEF HigherStake
    <3> HIDE DEF nu, du, nw, dw
    <3> QED BY <3>1, <2>1
  <2> QED BY <1>4, <2>2, <2>3
<1>6. nw * dv > nv * dw
  <2> HIDE DEF nu, du, nv, dv, nw, dw
  <2>1. ASSUME nw * dv <= nv * dw PROVE FALSE
    <3>1. (nw * dv) * du <= (nv * dw) * du
      BY <2>1, <1>1, MulNat, MulMono
    <3>2. (nu * dw) * dv <= (nw * du) * dv
      BY <1>1, <1>5, MulNat, MulMono
    <3>3. nv * du + 1 <= nu * dv /\ nv * du \in Nat /\ nu * dv \in Nat
      BY <1>1, <1>2, MulNat
    <3>4. (nv * du + 1) * dw <= (nu * dv) * dw
      BY <3>3, <1>1, MulMono
    <3>5. (nv * du + 1) * dw = (nv * du) * dw + dw
      BY <1>1, <3>3
    <3>6. (nv * dw) * du = (nv * du) * dw /\ (nu * dw) * dv = (nu * dv) * dw
          /\ (nw * dv) * du = (nw * du) * dv
      BY <1>1
    <3>7. (nv * du) * dw \in Nat /\ (nu * dv) * dw \in Nat /\ (nw * du) * dv \in Nat
      BY <1>1, MulNat
    <3> QED BY <3>1, <3>2, <3>4, <3>5, <3>6, <3>7, <1>1, <1>5
  <2>2. nw * dv \in Nat /\ nv * dw \in Nat
    BY <1>1, MulNat
  <2> QED BY <2>1, <2>2
<1>7. HigherStake(worth, w, v)
  BY <1>2, <1>5, <1>6 DEF HigherStake
<1> QED BY <1>7 DEF RanksBefore

LEMMA HigherRanksBefore ==
  ASSUME NEW worth \in Worth, NEW u \in Accounts, NEW v \in Accounts,
         HigherStake(worth, u, v)
  PROVE  RanksBefore(worth, u, v)
BY DEF RanksBefore

LEMMA BoostsAre ==
  ASSUME NEW worth \in Worth, NEW u \in Accounts
  PROVE  /\ Boosts(worth)[u] \in Nat
         /\ Boosts(worth)[u] >= One(worth)
         /\ Boosts(worth)[u] <= MaxBoost * One(worth)
         /\ worth[u].nonNative = 0 \/ worth[u].native = 0 => Boosts(worth)[u] = One(worth)
         /\ worth[u].nonNative > 0 /\ worth[u].native > 0
              => Boosts(worth)[u] >= MaxBoost * One(worth) - (MaxBoost - 1) * Cumulative(worth, u)
         /\ Boosts(worth)[u] = One(worth)
            \/ Boosts(worth)[u] = MaxBoost * One(worth) - (MaxBoost - 1) * Cumulative(worth, u)
<1> DEFINE one == One(worth)
           cum == Cumulative(worth, u)
           down == (MaxBoost - 1) * cum
           boost == MaxBoost * one - down
<1>1. one \in Nat \ {0} /\ cum \in Nat /\ MaxBoost \in Nat \ {0}
  BY OneType, CumulativeFacts, ComputationAssumption
<1>2. MaxBoost * one \in Nat /\ down \in Nat
  BY <1>1, MulNat
<1>3. one <= MaxBoost * one
  <2> HIDE DEF one
  <2>1. 1 * one <= MaxBoost * one
    BY <1>1, MulMono
  <2> QED BY <2>1, <1>1
<1>4. worth[u].nonNative \in Nat /\ worth[u].native \in Nat
  BY DEF Worth
<1>5. Boosts(worth)[u] = IF worth[u].nonNative = 0 \/ worth[u].native = 0 THEN one
                         ELSE Max({one, boost})
  BY DEF Boosts
<1>6. Max({one, boost}) = IF one >= boost THEN one ELSE boost
  BY <1>1, <1>2, MaxOfTwo
<1> HIDE DEF one, cum, down
<1>7. /\ Max({one, boost}) \in Nat /\ Max({one, boost}) >= one /\ Max({one, boost}) <= MaxBoost * one
      /\ Max({one, boost}) >= boost /\ Max({one, boost}) \in {one, boost}
  BY <1>1, <1>2, <1>3, <1>6
<1> HIDE DEF boost
<1>8. /\ Boosts(worth)[u] \in Nat /\ Boosts(worth)[u] >= one /\ Boosts(worth)[u] <= MaxBoost * one
      /\ worth[u].nonNative = 0 \/ worth[u].native = 0 => Boosts(worth)[u] = one
      /\ worth[u].nonNative > 0 /\ worth[u].native > 0 => Boosts(worth)[u] >= boost
      /\ Boosts(worth)[u] \in {one, boost}
  BY <1>1, <1>3, <1>4, <1>5, <1>7
<1> QED BY <1>8 DEF one, boost, down, cum

LEMMA HigherStakeBoosts ==
  ASSUME NEW worth \in Worth, NEW u \in Accounts, NEW v \in Accounts,
         HigherStake(worth, u, v)
  PROVE  Boosts(worth)[u] >= Boosts(worth)[v]
<1> DEFINE one == One(worth)
           cu == Cumulative(worth, u)
           cv == Cumulative(worth, v)
<1>1. one \in Nat \ {0} /\ cu \in Nat /\ cv \in Nat /\ MaxBoost \in Nat \ {0}
  BY OneType, CumulativeFacts, ComputationAssumption
<1>2. worth[u].nonNative \in Nat /\ worth[u].native \in Nat
      /\ worth[v].nonNative \in Nat /\ worth[v].native \in Nat
  BY DEF Worth
<1>3. worth[u].nonNative > 0 /\ worth[u].native > 0
  <2>1. worth[v].native * worth[u].nonNative \in Nat
    BY <1>2, MulNat
  <2>2. CASE worth[u].native = 0
    <3>1. worth[u].native * worth[v].nonNative = 0
      BY <1>2, <2>2
    <3> QED BY <3>1, <2>1, <2>2 DEF HigherStake
  <2> QED BY <2>2, <1>2 DEF HigherStake
<1>4. CASE worth[v].nonNative = 0 \/ worth[v].native = 0
  BY <1>4, <1>1, BoostsAre
<1>5. CASE worth[v].nonNative > 0 /\ worth[v].native > 0
  <2>1. \A w \in Accounts : w = u \/ RanksBefore(worth, w, u) => w = v \/ RanksBefore(worth, w, v)
    BY <1>5, HigherGoesOn, HigherRanksBefore
  <2>2. cu <= cv
    BY <2>1, CumulativeFacts
  <2> HIDE DEF one, cu, cv
  <2>3. (MaxBoost - 1) * cu <= (MaxBoost - 1) * cv
    BY <1>1, <2>2, MulMono
  <2>4. (MaxBoost - 1) * cu \in Nat /\ (MaxBoost - 1) * cv \in Nat /\ MaxBoost * one \in Nat
    BY <1>1, MulNat
  <2>5. /\ Boosts(worth)[u] \in Nat /\ Boosts(worth)[v] \in Nat
        /\ Boosts(worth)[u] >= one
        /\ Boosts(worth)[u] >= MaxBoost * one - (MaxBoost - 1) * cu
        /\ Boosts(worth)[v] = one \/ Boosts(worth)[v] = MaxBoost * one - (MaxBoost - 1) * cv
    BY <1>3, BoostsAre DEF one, cu, cv
  <2> QED BY <1>1, <2>3, <2>4, <2>5
<1> QED BY <1>2, <1>4, <1>5

-----------------------------------------------------------------------------
(* Sums and shares *)

LEMMA SumTimes ==
  ASSUME NEW S, IsFiniteSet(S), NEW g, NEW h, NEW k \in Int,
         \A x \in S : g[x] \in Int /\ h[x] = k * g[x]
  PROVE  SumFunctionOnSet(h, S) = k * SumFunctionOnSet(g, S)
<1> DEFINE zero == [x \in S |-> 0]
<1>1. \A x \in S : zero[x] \in Int /\ g[x] \in Int /\ h[x] = zero[x] + k * g[x]
  OBVIOUS
<1>2. \A x \in S : zero[x] = 0
  OBVIOUS
<1> HIDE DEF zero
<1>3. SumFunctionOnSet(zero, S) = 0
  BY <1>2, SumOfZeros
<1>4. SumFunctionOnSet(h, S) = SumFunctionOnSet(zero, S) + k * SumFunctionOnSet(g, S)
  BY <1>1, SumLinear
<1>5. SumFunctionOnSet(g, S) \in Int
  BY SumType
<1> QED BY <1>3, <1>4, <1>5

LEMMA SumOfOnes ==
  ASSUME NEW S, IsFiniteSet(S)
  PROVE  SumFunctionOnSet([x \in S |-> 1], S) = Cardinality(S)
<1> DEFINE ones == [x \in S |-> 1]
           Good(U) == SumFunctionOnSet(ones, U) = Cardinality(U)
           T == {U \in SUBSET S : ~Good(U)}
<1> SUFFICES ASSUME T # {} PROVE FALSE
  OBVIOUS
<1>1. PICK U \in T : \A y \in T : y \subseteq U => y = U
  <2>1. T \in SUBSET SUBSET S
    OBVIOUS
  <2> HIDE DEF T
  <2> QED BY <2>1, LeastSubset
<1>2. U # {}
  BY SumOfNone, FS_EmptySet
<1> DEFINE c == First(U)
           rest == U \ {c}
<1>3. c \in U /\ IsFiniteSet(U) /\ rest \in SUBSET S
  BY <1>2, FS_Subset DEF First
<1>4. Good(rest)
  BY <1>1, <1>3
<1>5. SumFunctionOnSet(ones, U) = ones[c] + SumFunctionOnSet(ones, rest)
  BY <1>2, <1>3, SumOfFirst
<1>6. Cardinality(rest) = Cardinality(U) - 1 /\ Cardinality(U) \in Nat
  BY <1>3, FS_RemoveElement, FS_CardinalityType
<1>7. ones[c] = 1 /\ ~Good(U)
  BY <1>3
<1> HIDE DEF ones, c, rest, T
<1> QED BY <1>4, <1>5, <1>6, <1>7

(* More to add up, none of it negative. *)
LEMMA SumGrows ==
  ASSUME NEW T, IsFiniteSet(T), NEW S \in SUBSET T, NEW f, NEW g,
         \A x \in T : g[x] \in Int /\ g[x] >= 0,
         \A x \in S : f[x] = g[x]
  PROVE  SumFunctionOnSet(f, S) <= SumFunctionOnSet(g, T)
<1>1. IsFiniteSet(S) /\ \A x \in S : f[x] \in Int
  BY FS_Subset
<1>2. SumFunctionOnSet(f, S) = SumFunctionOnSet(g, S)
  BY <1>1, SumSame
<1> QED BY <1>2, SumWithin

(* What is shared out by balances is what there is, up to one unit for each *)
(* account.                                                                 *)
LEMMA Shares ==
  ASSUME NEW n \in Nat, NEW f, \A u \in Accounts : f[u] \in Nat,
         NEW sum, sum = SumFunctionOnSet(f, Accounts), sum > 0,
         NEW r, \A u \in Accounts : r[u] = (n * f[u]) \div sum
  PROVE  /\ \A u \in Accounts : r[u] \in Nat
         /\ SumFunctionOnSet(r, Accounts) <= n
         /\ n - Cardinality(Accounts) <= SumFunctionOnSet(r, Accounts)
<1> DEFINE A == Accounts
           total == SumFunctionOnSet(r, A)
           card == Cardinality(A)
           nf == [u \in A |-> n * f[u]]
           sr == [u \in A |-> sum * r[u]]
           ones == [u \in A |-> 1]
           up == [u \in A |-> sr[u] + sum * ones[u]]
<1>1. IsFiniteSet(A) /\ sum \in Nat /\ card \in Nat
  BY AccountsFinite, NatSum, FS_CardinalityType
<1>2. ASSUME NEW u \in A
      PROVE  r[u] \in Nat /\ r[u] * sum <= n * f[u] /\ n * f[u] < r[u] * sum + sum /\ n * f[u] \in Nat
  <2>1. n * f[u] \in Nat
    BY MulNat
  <2> QED BY <2>1, <1>1, FloorBounds
<1>3. \A u \in A : r[u] \in Int
  BY <1>2
<1>4. total \in Nat
  BY <1>1, <1>2, NatSum
<1>5. SumFunctionOnSet(nf, A) = n * sum
  <2>1. \A u \in A : f[u] \in Int /\ nf[u] = n * f[u]
    OBVIOUS
  <2> HIDE DEF nf
  <2> QED BY <1>1, <2>1, SumTimes
<1>6. SumFunctionOnSet(sr, A) = sum * total
  <2>1. \A u \in A : sr[u] = sum * r[u]
    OBVIOUS
  <2> HIDE DEF sr
  <2> QED BY <1>1, <1>3, <2>1, SumTimes
<1>7. SumFunctionOnSet(up, A) = sum * total + sum * card
  <2>1. \A u \in A : sr[u] \in Int /\ ones[u] \in Int /\ up[u] = sr[u] + sum * ones[u]
    BY <1>1, <1>2, MulNat
  <2>2. SumFunctionOnSet(ones, A) = card
    BY <1>1, SumOfOnes
  <2> HIDE DEF up, ones, sr
  <2> QED BY <1>1, <1>6, <2>1, <2>2, SumLinear
<1>8. \A u \in A : nf[u] \in Int /\ sr[u] \in Int /\ up[u] \in Int /\ sr[u] <= nf[u] /\ nf[u] <= up[u]
  <2>1. ASSUME NEW u \in A PROVE sr[u] <= nf[u] /\ nf[u] <= up[u] /\ sr[u] \in Int /\ nf[u] \in Int /\ up[u] \in Int
    <3>1. sum * r[u] = r[u] * sum /\ r[u] * sum \in Nat
      BY <1>1, <1>2, MulNat
    <3>2. sr[u] = sum * r[u] /\ nf[u] = n * f[u] /\ up[u] = sr[u] + sum
      BY <1>1
    <3> HIDE DEF sr, nf, up
    <3> QED BY <1>1, <1>2, <3>1, <3>2
  <2> QED BY <2>1
<1> HIDE DEF nf, sr, up, total, card, ones
<1>9. sum * total <= n * sum
  BY <1>1, <1>5, <1>6, <1>8, SumMono
<1>10. n * sum <= sum * total + sum * card
  BY <1>1, <1>5, <1>7, <1>8, SumMono
<1>11. total <= n
  <2>1. total * sum <= n * sum
    BY <1>1, <1>4, <1>9
  <2> QED BY <2>1, <1>1, <1>4, MulCancel
<1>12. n <= total + card
  <2>1. n * sum <= (total + card) * sum
    BY <1>1, <1>4, <1>10
  <2> QED BY <2>1, <1>1, <1>4, MulCancel
<1>13. \A u \in Accounts : r[u] \in Nat
  BY <1>2
<1> QED BY <1>1, <1>4, <1>11, <1>12, <1>13 DEF total, card

-----------------------------------------------------------------------------
(* What schedules and harvests release *)

Offered(o) == o.amount \in Nat /\ o.start \in Nat /\ o.duration \in Nat \ {0}

(* The schedules of a token *)
For(sch, k) == {i \in DOMAIN sch : sch[i].token = k}

(* Those of them in the first n - 1 Setts *)
Slots(sch, n, k) ==
  {i \in For(sch, k) : \E j \in 1..n - 1 : j \in DOMAIN Order /\ Order[j] = sch[i].sett}

In(sch, s, k) == {i \in DOMAIN sch : sch[i].sett = s /\ sch[i].token = k}

Accrued(sch, S, a, b) ==
  SumFunctionOnSet([i \in S |-> Distributed(sch[i], TimeOf[b]) - Distributed(sch[i], TimeOf[a])], S)

ReleasedBy(sch, k, b) ==
  SumFunctionOnSet([i \in For(sch, k) |-> Released(sch[i], TimeOf[b])], For(sch, k))

Harvested(S) == SumFunctionOnSet([h \in S |-> h.amount], S)

LEMMA DistributedFacts ==
  ASSUME NEW o, Offered(o), NEW t \in Nat
  PROVE  Distributed(o, t) = Released(o, t) /\ Distributed(o, t) \in Nat /\ Distributed(o, t) <= o.amount
<1> DEFINE a == o.amount
           d == o.duration
           x == t - o.start
<1>1. a \in Nat /\ d \in Nat /\ d > 0 /\ x \in Int /\ o.start \in Nat
  BY DEF Offered
<1>2. CASE t < o.start
  BY <1>1, <1>2 DEF Distributed, Released
<1>3. CASE t >= o.start
  <2>1. x \in Nat /\ a * x \in Nat
    BY <1>1, <1>3, MulNat
  <2> DEFINE q == (a * x) \div d
  <2>2. q \in Nat
    BY <1>1, <2>1, FloorBounds
  <2>3. Distributed(o, t) = Min({a, q})
    BY <1>1, <1>3 DEF Distributed
  <2>4. Min({a, q}) = IF a <= q THEN a ELSE q
    BY <1>1, <2>2, MinOfTwo
  <2>5. CASE x >= d
    <3>1. a * d <= a * x
      BY <1>1, <2>1, <2>5, MulMono
    <3>2. a <= q
      BY <1>1, <2>1, <3>1, FloorAtLeast
    <3>3. Released(o, t) = a
      BY <1>1, <2>5 DEF Released
    <3> QED BY <1>1, <2>2, <2>3, <2>4, <3>2, <3>3
  <2>6. CASE x < d
    <3>1. a * x <= a * d
      BY <1>1, <2>1, <2>6, MulMono
    <3>2. q <= a
      BY <1>1, <2>1, <3>1, FloorAtMost
    <3>3. Released(o, t) = IF t <= o.start THEN 0 ELSE q
      BY <1>1, <2>6 DEF Released
    <3>4. CASE t = o.start
      <4>1. x = 0 /\ a * x = 0
        BY <1>1, <3>4
      <4>2. q = 0
        BY <1>1, <4>1
      <4> QED BY <1>1, <2>2, <2>3, <2>4, <3>2, <3>3, <3>4, <4>2
    <3>5. CASE t > o.start
      <4>1. Released(o, t) = q
        BY <1>1, <3>3, <3>5
      <4> HIDE DEF q
      <4> QED BY <1>1, <2>2, <2>3, <2>4, <3>2, <4>1
    <3> QED BY <1>1, <1>3, <3>4, <3>5
  <2> QED BY <1>1, <2>1, <2>5, <2>6
<1> QED BY <1>1, <1>2, <1>3

LEMMA DistributedMono ==
  ASSUME NEW o, Offered(o), NEW s \in Nat, NEW t \in Nat, s <= t
  PROVE  Distributed(o, s) <= Distributed(o, t)
<1> DEFINE a == o.amount
           d == o.duration
           x == s - o.start
           y == t - o.start
<1>1. a \in Nat /\ d \in Nat /\ d > 0 /\ x \in Int /\ y \in Int /\ o.start \in Nat /\ x <= y
  BY DEF Offered
<1>2. Distributed(o, s) \in Nat /\ Distributed(o, t) \in Nat
  BY DistributedFacts
<1>3. CASE s < o.start
  <2>1. Distributed(o, s) = 0
    BY <1>3 DEF Distributed
  <2> QED BY <1>2, <2>1
<1>4. CASE s >= o.start
  <2>1. x \in Nat /\ y \in Nat /\ a * x \in Nat /\ a * y \in Nat /\ a * x <= a * y
    BY <1>1, <1>4, MulNat, MulMono
  <2> DEFINE p == (a * x) \div d
             q == (a * y) \div d
  <2>2. p \in Nat /\ q \in Nat /\ p <= q
    BY <1>1, <2>1, FloorBounds, FloorMono
  <2>3. Distributed(o, s) = Min({a, p}) /\ Distributed(o, t) = Min({a, q})
    BY <1>1, <1>4 DEF Distributed
  <2> HIDE DEF p, q, a
  <2>4. Min({a, p}) = (IF a <= p THEN a ELSE p) /\ Min({a, q}) = (IF a <= q THEN a ELSE q)
    BY <1>1, <2>2, MinOfTwo
  <2> QED BY <1>1, <2>2, <2>3, <2>4
<1> QED BY <1>1, <1>3, <1>4

LEMMA TimesOrdered ==
  ASSUME NEW a \in Blocks, NEW b \in Blocks, a <= b
  PROVE  TimeOf[a] \in Nat /\ TimeOf[b] \in Nat /\ TimeOf[a] <= TimeOf[b]
<1>1. a \in Nat /\ b \in Nat /\ TimeOf \in [Blocks -> Nat]
      /\ \A x, y \in Blocks : x < y => TimeOf[x] < TimeOf[y]
  BY ComputationAssumption DEF Blocks
<1>2. TimeOf[a] \in Nat /\ TimeOf[b] \in Nat
  BY <1>1
<1>3. CASE a = b
  BY <1>2, <1>3
<1>4. CASE a < b
  BY <1>1, <1>2, <1>4
<1> QED BY <1>1, <1>3, <1>4

LEMMA OffersOffered == ASSUME NEW o \in Offers PROVE Offered(o)
BY ComputationAssumption DEF Offered

LEMMA SchedulesFinite ==
  ASSUME NEW sch \in Seq(Offers)
  PROVE  /\ IsFiniteSet(DOMAIN sch)
         /\ \A i \in DOMAIN sch : sch[i] \in Offers
         /\ \A S \in SUBSET DOMAIN sch : IsFiniteSet(S)
<1>1. DOMAIN sch = 1..Len(sch) /\ Len(sch) \in Nat /\ \A i \in DOMAIN sch : sch[i] \in Offers
  OBVIOUS
<1>2. IsFiniteSet(DOMAIN sch)
  BY <1>1, FS_Interval
<1> QED BY <1>1, <1>2, FS_Subset

LEMMA AccruedFacts ==
  ASSUME NEW sch \in Seq(Offers), NEW i \in DOMAIN sch, NEW a \in Blocks, NEW b \in Blocks, a <= b
  PROVE  /\ Distributed(sch[i], TimeOf[b]) - Distributed(sch[i], TimeOf[a]) \in Nat
         /\ Released(sch[i], TimeOf[a]) \in Nat
         /\ Released(sch[i], TimeOf[b]) = Released(sch[i], TimeOf[a])
              + (Distributed(sch[i], TimeOf[b]) - Distributed(sch[i], TimeOf[a]))
<1>1. Offered(sch[i])
  BY SchedulesFinite, OffersOffered
<1>2. TimeOf[a] \in Nat /\ TimeOf[b] \in Nat /\ TimeOf[a] <= TimeOf[b]
  BY TimesOrdered
<1> DEFINE da == Distributed(sch[i], TimeOf[a])
           db == Distributed(sch[i], TimeOf[b])
<1>3. /\ da \in Nat /\ da = Released(sch[i], TimeOf[a])
      /\ db \in Nat /\ db = Released(sch[i], TimeOf[b])
  BY <1>1, <1>2, DistributedFacts
<1>4. da <= db
  BY <1>1, <1>2, DistributedMono
<1> HIDE DEF da, db
<1>5. db - da \in Nat /\ da \in Nat /\ db = da + (db - da)
  BY <1>3, <1>4
<1> QED BY <1>3, <1>5 DEF da, db

LEMMA AccruedNat ==
  ASSUME NEW sch \in Seq(Offers), NEW S \in SUBSET DOMAIN sch,
         NEW a \in Blocks, NEW b \in Blocks, a <= b
  PROVE  Accrued(sch, S, a, b) \in Nat
<1> DEFINE f == [i \in S |-> Distributed(sch[i], TimeOf[b]) - Distributed(sch[i], TimeOf[a])]
<1>1. IsFiniteSet(S) /\ \A i \in S : f[i] \in Nat
  BY SchedulesFinite, AccruedFacts
<1> HIDE DEF f
<1>2. SumFunctionOnSet(f, S) \in Nat
  BY <1>1, NatSum
<1> QED BY <1>2 DEF f, Accrued

LEMMA ReleasedNat ==
  ASSUME NEW sch \in Seq(Offers), NEW k, NEW b \in Blocks
  PROVE  ReleasedBy(sch, k, b) \in Nat
<1> DEFINE S == For(sch, k)
           f == [i \in S |-> Released(sch[i], TimeOf[b])]
<1>1. S \in SUBSET DOMAIN sch
  BY DEF For
<1>2. b <= b
  BY DEF Blocks
<1>3. IsFiniteSet(S) /\ \A i \in S : f[i] \in Nat
  BY <1>1, <1>2, SchedulesFinite, AccruedFacts
<1> HIDE DEF f, S
<1>4. SumFunctionOnSet(f, S) \in Nat
  BY <1>3, NatSum
<1> QED BY <1>4 DEF f, S, ReleasedBy

(* A range adds at most what is released in it. *)
LEMMA RangeFits ==
  ASSUME NEW sch \in Seq(Offers), NEW k, NEW n \in Nat,
         NEW z \in Blocks, NEW a \in Blocks, NEW b \in Blocks, z <= a, a <= b
  PROVE  ReleasedBy(sch, k, z) + Accrued(sch, Slots(sch, n, k), a, b) <= ReleasedBy(sch, k, b)
<1> DEFINE S == For(sch, k)
           P == Slots(sch, n, k)
           rz == [i \in S |-> Released(sch[i], TimeOf[z])]
           rb == [i \in S |-> Released(sch[i], TimeOf[b])]
           acc(X) == [i \in X |-> Distributed(sch[i], TimeOf[b]) - Distributed(sch[i], TimeOf[a])]
           both == [i \in S |-> rz[i] + 1 * acc(S)[i]]
<1>1. S \in SUBSET DOMAIN sch /\ P \in SUBSET S
  BY DEF For, Slots
<1>2. IsFiniteSet(S) /\ IsFiniteSet(P)
  BY <1>1, SchedulesFinite
<1>3. z \in Nat /\ a \in Nat /\ b \in Nat
  BY DEF Blocks
<1>4. ASSUME NEW i \in S
      PROVE  /\ rz[i] \in Nat /\ rb[i] \in Nat /\ acc(S)[i] \in Nat /\ both[i] \in Nat
             /\ both[i] = rz[i] + 1 * acc(S)[i] /\ both[i] <= rb[i]
  <2>1. i \in DOMAIN sch
    BY <1>1
  <2> DEFINE D(x) == Distributed(sch[i], TimeOf[x])
             R(x) == Released(sch[i], TimeOf[x])
  <2>2. D(b) - D(a) \in Nat /\ R(a) \in Nat /\ R(b) = R(a) + (D(b) - D(a))
    BY <2>1, AccruedFacts
  <2>3. D(a) - D(z) \in Nat /\ R(z) \in Nat /\ R(a) = R(z) + (D(a) - D(z))
    BY <2>1, AccruedFacts
  <2>4. rz[i] = R(z) /\ rb[i] = R(b) /\ acc(S)[i] = D(b) - D(a) /\ both[i] = rz[i] + 1 * acc(S)[i]
    OBVIOUS
  <2> HIDE DEF rz, rb, acc, both, D, R
  <2> QED BY <2>2, <2>3, <2>4
<1> DEFINE accS == acc(S)
           accP == acc(P)
<1>5. \A i \in P : accP[i] = accS[i]
  BY <1>1
<1>6. /\ \A i \in S : accS[i] \in Int /\ accS[i] >= 0
      /\ \A i \in S : rz[i] \in Int /\ accS[i] \in Int /\ both[i] = rz[i] + 1 * accS[i]
      /\ \A i \in S : both[i] \in Int /\ rb[i] \in Int /\ both[i] <= rb[i]
  BY <1>4
<1>7. /\ ReleasedBy(sch, k, z) = SumFunctionOnSet(rz, S)
      /\ ReleasedBy(sch, k, b) = SumFunctionOnSet(rb, S)
      /\ Accrued(sch, P, a, b) = SumFunctionOnSet(accP, P)
  BY DEF ReleasedBy, Accrued
<1> HIDE DEF S, P, rz, rb, accS, accP, both
<1>8. SumFunctionOnSet(accP, P) <= SumFunctionOnSet(accS, S)
  BY <1>1, <1>2, <1>5, <1>6, SumGrows
<1>9. SumFunctionOnSet(both, S) = SumFunctionOnSet(rz, S) + 1 * SumFunctionOnSet(accS, S)
  BY <1>2, <1>6, SumLinear
<1>10. SumFunctionOnSet(both, S) <= SumFunctionOnSet(rb, S)
  BY <1>2, <1>6, SumMono
<1>11. /\ SumFunctionOnSet(accP, P) \in Int /\ SumFunctionOnSet(accS, S) \in Int
       /\ SumFunctionOnSet(rz, S) \in Int /\ SumFunctionOnSet(rb, S) \in Int
       /\ SumFunctionOnSet(both, S) \in Int
  <2>1. \A i \in P : accP[i] \in Int
    BY <1>1, <1>5, <1>6
  <2> QED BY <1>2, <1>6, <2>1, SumType
<1>12. SumFunctionOnSet(rz, S) + SumFunctionOnSet(accP, P) <= SumFunctionOnSet(rb, S)
  BY <1>8, <1>9, <1>10, <1>11
<1> QED BY <1>7, <1>12 DEF P

(* The next Sett adds its schedules, which no earlier one has. *)
LEMMA NextSlots ==
  ASSUME NEW sch \in Seq(Offers), NEW k, NEW n \in DOMAIN Order,
         NEW a \in Blocks, NEW b \in Blocks, a <= b
  PROVE  /\ Accrued(sch, Slots(sch, n + 1, k), a, b)
              = Accrued(sch, Slots(sch, n, k), a, b) + Accrued(sch, In(sch, Order[n], k), a, b)
<1> DEFINE S == Slots(sch, n + 1, k)
           P == Slots(sch, n, k)
           Q == In(sch, Order[n], k)
           acc(X) == [i \in X |-> Distributed(sch[i], TimeOf[b]) - Distributed(sch[i], TimeOf[a])]
           accS == acc(S)
           accP == acc(P)
           accQ == acc(Q)
<1>1. DOMAIN Order = 1..Len(Order) /\ Len(Order) \in Nat
      /\ \A i, j \in DOMAIN Order : Order[i] = Order[j] => i = j
  BY ComputationAssumption
<1>2. S \in SUBSET DOMAIN sch /\ P \in SUBSET S /\ Q = S \ P
  <2>1. 1..n + 1 - 1 = (1..n - 1) \cup {n} /\ n \notin 1..n - 1
    BY <1>1
  <2>2. S \in SUBSET DOMAIN sch /\ P \in SUBSET S
    BY <2>1 DEF Slots, For
  <2>3. \A i \in Q : i \in S /\ i \notin P
    BY <1>1, <2>1 DEF Slots, For, In
  <2>4. \A i \in S \ P : i \in Q
    BY <1>1, <2>1 DEF Slots, For, In
  <2> QED BY <2>2, <2>3, <2>4
<1>3. IsFiniteSet(S) /\ IsFiniteSet(P) /\ IsFiniteSet(Q)
  BY <1>2, SchedulesFinite
<1>4. \A i \in S : accS[i] \in Int
  BY <1>2, AccruedFacts
<1>5. (\A i \in P : accP[i] \in Int /\ accP[i] = accS[i]) /\ (\A i \in Q : accQ[i] \in Int /\ accQ[i] = accS[i])
  <2>1. (\A i \in P : accP[i] = accS[i]) /\ (\A i \in Q : accQ[i] = accS[i])
    BY <1>2
  <2> HIDE DEF accP, accS, accQ
  <2> QED BY <1>2, <1>4, <2>1
<1>6. /\ Accrued(sch, S, a, b) = SumFunctionOnSet(accS, S)
      /\ Accrued(sch, P, a, b) = SumFunctionOnSet(accP, P)
      /\ Accrued(sch, Q, a, b) = SumFunctionOnSet(accQ, Q)
  BY DEF Accrued
<1> HIDE DEF S, P, Q, accS, accP, accQ
<1>7. SumFunctionOnSet(accP, P) = SumFunctionOnSet(accS, P) /\ SumFunctionOnSet(accQ, Q) = SumFunctionOnSet(accS, Q)
  BY <1>3, <1>5, SumSame
<1>8. SumFunctionOnSet(accS, S) = SumFunctionOnSet(accS, P) + SumFunctionOnSet(accS, Q)
  BY SMTT(30), <1>2, <1>3, <1>4, SumSplit
<1>9. Accrued(sch, S, a, b) = Accrued(sch, P, a, b) + Accrued(sch, Q, a, b)
  BY <1>6, <1>7, <1>8
<1> QED BY <1>9 DEF S, P, Q

(* A schedule that is set later takes nothing back. *)
LEMMA OfferAdds ==
  ASSUME NEW sch \in Seq(Offers), NEW o \in Offers, NEW k, NEW n \in Nat,
         NEW a \in Blocks, NEW b \in Blocks, a <= b
  PROVE  /\ ReleasedBy(sch, k, b) <= ReleasedBy(Append(sch, o), k, b)
         /\ Accrued(sch, Slots(sch, n, k), a, b)
              <= Accrued(Append(sch, o), Slots(Append(sch, o), n, k), a, b)
<1> DEFINE new == Append(sch, o)
<1>1. new \in Seq(Offers) /\ DOMAIN sch \subseteq DOMAIN new /\ \A i \in DOMAIN sch : new[i] = sch[i]
  OBVIOUS
<1> HIDE DEF new
<1>2. ReleasedBy(sch, k, b) <= ReleasedBy(new, k, b)
  <2> DEFINE S == For(sch, k)
             T == For(new, k)
             f == [i \in S |-> Released(sch[i], TimeOf[b])]
             g == [i \in T |-> Released(new[i], TimeOf[b])]
  <2>1. S \in SUBSET T /\ T \in SUBSET DOMAIN new /\ S \in SUBSET DOMAIN sch
    BY <1>1 DEF For
  <2>2. b <= b
    BY DEF Blocks
  <2>3. \A i \in T : g[i] \in Nat
    BY <1>1, <2>1, <2>2, AccruedFacts
  <2>4. \A i \in S : f[i] = g[i]
    BY <1>1, <2>1
  <2>5. IsFiniteSet(T)
    BY <1>1, <2>1, SchedulesFinite
  <2>6. ReleasedBy(sch, k, b) = SumFunctionOnSet(f, S) /\ ReleasedBy(new, k, b) = SumFunctionOnSet(g, T)
    BY DEF ReleasedBy
  <2>7. \A i \in T : g[i] \in Int /\ g[i] >= 0
    BY <2>3
  <2> HIDE DEF S, T, f, g
  <2> QED BY <2>1, <2>4, <2>5, <2>6, <2>7, SumGrows
<1>3. Accrued(sch, Slots(sch, n, k), a, b) <= Accrued(new, Slots(new, n, k), a, b)
  <2> DEFINE S == Slots(sch, n, k)
             T == Slots(new, n, k)
             f == [i \in S |-> Distributed(sch[i], TimeOf[b]) - Distributed(sch[i], TimeOf[a])]
             g == [i \in T |-> Distributed(new[i], TimeOf[b]) - Distributed(new[i], TimeOf[a])]
  <2>1. S \in SUBSET T /\ T \in SUBSET DOMAIN new /\ S \in SUBSET DOMAIN sch
    BY <1>1 DEF For, Slots
  <2>3. \A i \in T : g[i] \in Nat
    BY <1>1, <2>1, AccruedFacts
  <2>4. \A i \in S : f[i] = g[i]
    BY <1>1, <2>1
  <2>5. IsFiniteSet(T)
    BY <1>1, <2>1, SchedulesFinite
  <2>6. Accrued(sch, S, a, b) = SumFunctionOnSet(f, S) /\ Accrued(new, T, a, b) = SumFunctionOnSet(g, T)
    BY DEF Accrued
  <2>7. \A i \in T : g[i] \in Int /\ g[i] >= 0
    BY <2>3
  <2>8. SumFunctionOnSet(f, S) <= SumFunctionOnSet(g, T)
    <3> HIDE DEF S, T, f, g
    <3> QED BY <2>1, <2>4, <2>5, <2>7, SumGrows
  <2> HIDE DEF f, g
  <2> QED BY <2>6, <2>8
<1> QED BY <1>2, <1>3 DEF new

(* Harvests of two ranges that follow one another *)
LEMMA HarvestedFacts ==
  ASSUME NEW T, IsFiniteSet(T), \A h \in T : h.amount \in Nat, NEW S \in SUBSET T
  PROVE  Harvested(S) \in Nat /\ Harvested(S) <= Harvested(T)
         /\ Harvested(T) = Harvested(S) + Harvested(T \ S)
<1> DEFINE g(X) == [h \in X |-> h.amount]
           gT == g(T)
           gS == g(S)
           gR == g(T \ S)
<1>1. IsFiniteSet(S) /\ IsFiniteSet(T \ S)
  BY FS_Subset
<1>2. /\ \A h \in T : gT[h] \in Int /\ gT[h] >= 0
      /\ \A h \in S : gS[h] \in Nat /\ gS[h] \in Int /\ gS[h] = gT[h]
      /\ \A h \in T \ S : gR[h] \in Int /\ gR[h] = gT[h]
  OBVIOUS
<1>3. Harvested(S) = SumFunctionOnSet(gS, S) /\ Harvested(T) = SumFunctionOnSet(gT, T)
      /\ Harvested(T \ S) = SumFunctionOnSet(gR, T \ S)
  BY DEF Harvested
<1> HIDE DEF gT, gS, gR
<1>4. SumFunctionOnSet(gS, S) = SumFunctionOnSet(gT, S)
      /\ SumFunctionOnSet(gR, T \ S) = SumFunctionOnSet(gT, T \ S)
  BY <1>1, <1>2, SumSame
<1>5. SumFunctionOnSet(gS, S) \in Nat
  BY <1>1, <1>2, NatSum
<1>6. SumFunctionOnSet(gS, S) <= SumFunctionOnSet(gT, T)
  BY <1>2, SumGrows
<1>7. SumFunctionOnSet(gT, T) = SumFunctionOnSet(gT, S) + SumFunctionOnSet(gT, T \ S)
  BY <1>2, SumSplit
<1> QED BY <1>3, <1>4, <1>5, <1>6, <1>7

-----------------------------------------------------------------------------
(* Types *)

TreeType == [cycle : Nat, claims : Claims, start : Nat, end : Blocks]

RunType ==
  [for : {"nothing", "proposal", "verification"}, at : 0..Len(Order) + 1, start : Nat,
   end : Blocks, one : Nat \ {0}, boost : [Accounts -> Nat], new : Claims]

Yielded(h) ==
  /\ h.sett \in Setts /\ h.token \in Tokens /\ h.amount \in Nat /\ h.block \in Blocks
  /\ h.kind \in {"tree", "sushi"}

Ranged(r) == r.start \in Blocks /\ r.start <= r.end

TypeOK ==
  /\ balances \in Histories
  /\ height \in Buffer..MaxHeight
  /\ schedules \in Seq(Offers)
  /\ IsFiniteSet(harvests) /\ \A h \in harvests : Yielded(h)
  /\ cache \in [Blocks -> Held]
  /\ run \in RunType /\ Ranged(run) /\ Ranged(pending)
  /\ (run.for = "nothing") = (run.at = 0)
  /\ pending \in TreeType /\ recomputed \in TreeType
  /\ trees \in Seq(TreeType) /\ trees # <<>>

LEMMA BlockFacts ==
  ASSUME TypeOK
  PROVE  /\ 0 \in Blocks /\ height \in Blocks /\ height - Buffer \in Blocks
         /\ Buffer \in Nat /\ Buffer >= 1 /\ MaxHeight \in Nat /\ Blocks \subseteq Nat
BY ComputationAssumption DEF TypeOK, Blocks

LEMMA FetchedType == ASSUME balances \in Histories PROVE Fetched \in [Blocks -> Held]
<1>1. balances \in [Blocks -> [Setts -> [Accounts -> Nat]]]
  BY ComputationAssumption
<1> QED BY <1>1 DEF Fetched, Held

LEMMA IdleType ==
  /\ Idle \in RunType /\ Ranged(Idle)
  /\ Idle.for = "nothing" /\ Idle.at = 0 /\ Idle.end = 0
<1>1. 0 \in Blocks
  BY ComputationAssumption DEF Blocks
<1>2. NoClaims \in Claims /\ 1 \in Nat \ {0} /\ [u \in Accounts |-> 1] \in [Accounts -> Nat]
  BY DEF NoClaims, Claims
<1>3. Len(Order) \in Nat
  BY ComputationAssumption
<1>4. 0 \in 0..Len(Order) + 1
  BY <1>3
<1> QED BY <1>1, <1>2, <1>4 DEF Idle, RunType, Ranged

LEMMA DoneType ==
  ASSUME run \in RunType
  PROVE  /\ Done \in RunType /\ Ranged(Done)
         /\ Done.for = "nothing" /\ Done.at = 0 /\ Done.end = run.end
BY IdleType DEF Done, RunType, Idle, Ranged, Blocks

LEMMA LastType == ASSUME TypeOK PROVE Last \in TreeType /\ Len(trees) \in Nat
BY DEF TypeOK, Last

LEMMA PlusType ==
  ASSUME NEW a \in Claims, NEW b \in Claims
  PROVE  /\ Plus(a, b) \in Claims
         /\ \A u \in Accounts, k \in Tokens : Plus(a, b)[u][k] = a[u][k] + b[u][k]
<1>1. \A u \in Accounts, k \in Tokens : a[u][k] \in Nat /\ b[u][k] \in Nat
  BY DEF Claims
<1> QED BY <1>1 DEF Plus, Claims

(* The shares of a harvest *)
LEMMA HarvestShared ==
  ASSUME TypeOK, NEW h \in harvests, SumBalances(cache[h.block], h.sett) > 0
  PROVE  /\ HarvestRewards(h) \in [Accounts -> Nat]
         /\ SumFunctionOnSet(HarvestRewards(h), Accounts) <= h.amount
         /\ h.amount - Cardinality(Accounts) <= SumFunctionOnSet(HarvestRewards(h), Accounts)
         /\ SumFunctionOnSet(HarvestRewards(h), Accounts) \in Nat
<1> DEFINE held == cache[h.block]
           f == [u \in Accounts |-> held.of[h.sett][u]]
           sum == SumBalances(held, h.sett)
           r == HarvestRewards(h)
<1>1. h.amount \in Nat /\ h.block \in Blocks /\ h.sett \in Setts
  BY DEF TypeOK, Yielded
<1>2. held \in Held
  BY <1>1 DEF TypeOK
<1>3. \A u \in Accounts : f[u] \in Nat
  BY <1>1, <1>2 DEF Held
<1>4. sum = SumFunctionOnSet(f, Accounts)
  BY DEF SumBalances, Total
<1>5. \A u \in Accounts : r[u] = (h.amount * f[u]) \div sum
  BY DEF HarvestRewards
<1>6. DOMAIN r = Accounts /\ r = [u \in Accounts |-> r[u]]
  BY DEF HarvestRewards
<1>7. sum > 0
  OBVIOUS
<1> HIDE DEF f, sum, r
<1>8. /\ \A u \in Accounts : r[u] \in Nat
      /\ SumFunctionOnSet(r, Accounts) <= h.amount
      /\ h.amount - Cardinality(Accounts) <= SumFunctionOnSet(r, Accounts)
  BY <1>1, <1>3, <1>4, <1>5, <1>7, Shares
<1>9. SumFunctionOnSet(r, Accounts) \in Nat
  BY <1>8, AccountsFinite, NatSum
<1> QED BY <1>6, <1>8, <1>9 DEF r

ProcessedOf(k, start, end) == {h \in Processed(start, end) : h.token = k}

LEMMA ProcessedAre ==
  ASSUME TypeOK, NEW k, NEW start \in Nat, NEW end \in Blocks
  PROVE  /\ ProcessedOf(k, start, end) \in SUBSET harvests
         /\ IsFiniteSet(ProcessedOf(k, start, end))
         /\ \A h \in ProcessedOf(k, start, end) : h.token = k /\ h.block > start /\ h.block <= end
<1>1. Processed(start, end) \subseteq harvests
  BY DEF Processed, TreeDistributions, SushiHarvests
<1>2. ProcessedOf(k, start, end) \in SUBSET harvests
  BY <1>1 DEF ProcessedOf
<1>3. \A h \in harvests : h.block \in Nat
  BY BlockFacts DEF TypeOK, Yielded
<1>4. end \in Nat
  BY BlockFacts
<1>5. \A h \in ProcessedOf(k, start, end) : h.token = k /\ h.block > start /\ h.block <= end
  BY <1>2, <1>3, <1>4 DEF ProcessedOf, Processed, TreeDistributions, SushiHarvests
<1>6. IsFiniteSet(harvests)
  BY DEF TypeOK
<1>7. IsFiniteSet(ProcessedOf(k, start, end))
  BY <1>2, <1>6, FS_Subset
<1> QED BY <1>2, <1>5, <1>7

TokenSum(claims, k) == SumFunctionOnSet([u \in Accounts |-> claims[u][k]], Accounts)

(* The harvests of a range are shared out once, up to one unit for each of  *)
(* the accounts.                                                            *)
LEMMA FromHarvestsFacts ==
  ASSUME TypeOK, NEW start \in Nat, NEW end \in Blocks, HarvestsDivide(start, end)
  PROVE  /\ FromHarvests(start, end) \in Claims
         /\ \A k \in Tokens :
              LET P == ProcessedOf(k, start, end)
                  each == [h \in P |-> SumFunctionOnSet(HarvestRewards(h), Accounts)]
              IN  TokenSum(FromHarvests(start, end), k) = SumFunctionOnSet(each, P)
<1> DEFINE rewards == [h \in Processed(start, end) |-> HarvestRewards(h)]
<1>1. ASSUME NEW k \in Tokens, NEW u \in Accounts
      PROVE  FromHarvests(start, end)[u][k]
               = SumFunctionOnSet([h \in ProcessedOf(k, start, end) |-> rewards[h][u]],
                                  ProcessedOf(k, start, end))
  BY DEF FromHarvests, Total, ProcessedOf
<1>2. ASSUME NEW h \in Processed(start, end)
      PROVE  h \in harvests /\ rewards[h] = HarvestRewards(h) /\ HarvestRewards(h) \in [Accounts -> Nat]
  <2>1. h \in harvests
    BY DEF Processed, TreeDistributions, SushiHarvests
  <2>2. SumBalances(cache[h.block], h.sett) > 0
    BY DEF HarvestsDivide
  <2> QED BY <2>1, <2>2, HarvestShared
<1> HIDE DEF rewards
<1>3. ASSUME NEW k \in Tokens
      PROVE  /\ \A u \in Accounts : FromHarvests(start, end)[u][k] \in Nat
             /\ LET P == ProcessedOf(k, start, end)
                    each == [h \in P |-> SumFunctionOnSet(HarvestRewards(h), Accounts)]
                IN  TokenSum(FromHarvests(start, end), k) = SumFunctionOnSet(each, P)
  <2> DEFINE P == ProcessedOf(k, start, end)
             r == [u \in Accounts |-> [h \in P |-> rewards[h][u]]]
             each == [h \in P |-> SumFunctionOnSet(HarvestRewards(h), Accounts)]
  <2>1. IsFiniteSet(P) /\ P \subseteq Processed(start, end)
    BY ProcessedAre DEF ProcessedOf
  <2>2. \A u \in Accounts, h \in P : r[u][h] \in Nat /\ r[u][h] \in Int /\ r[u][h] = HarvestRewards(h)[u]
    BY <1>2, <2>1
  <2>3. \A u \in Accounts : FromHarvests(start, end)[u][k] = SumFunctionOnSet(r[u], P)
    BY <1>1
  <2>4. ASSUME NEW u \in Accounts PROVE FromHarvests(start, end)[u][k] \in Nat
    <3> HIDE DEF P, r
    <3>1. \A h \in P : r[u][h] \in Nat
      BY <2>2
    <3> QED BY <2>1, <2>3, <3>1, NatSum
  <2>5. SumFunctionOnSet([u \in Accounts |-> SumFunctionOnSet(r[u], P)], Accounts)
          = SumFunctionOnSet([h \in P |-> SumFunctionOnSet([u \in Accounts |-> r[u][h]], Accounts)], P)
    <3> HIDE DEF P, r
    <3> QED BY <2>1, <2>2, AccountsFinite, SumSwap
  <2>6. [u \in Accounts |-> SumFunctionOnSet(r[u], P)] = [u \in Accounts |-> FromHarvests(start, end)[u][k]]
    BY <2>3
  <2>7. ASSUME NEW h \in P
        PROVE  SumFunctionOnSet([u \in Accounts |-> r[u][h]], Accounts) = each[h]
    <3>1. HarvestRewards(h) \in [Accounts -> Nat]
      BY <1>2, <2>1
    <3>2. [u \in Accounts |-> r[u][h]] = HarvestRewards(h)
      BY <2>2, <3>1
    <3> QED BY <3>2
  <2>8. [h \in P |-> SumFunctionOnSet([u \in Accounts |-> r[u][h]], Accounts)] = each
    BY <2>7
  <2>9. TokenSum(FromHarvests(start, end), k) = SumFunctionOnSet(each, P)
    BY <2>5, <2>6, <2>8 DEF TokenSum
  <2> QED BY <2>4, <2>9
<1>4. FromHarvests(start, end) \in Claims
  <2>1. FromHarvests(start, end) =
          [u \in Accounts |-> [k \in Tokens |-> FromHarvests(start, end)[u][k]]]
    BY DEF FromHarvests
  <2> DEFINE F == FromHarvests(start, end)
  <2>2. \A u \in Accounts, k \in Tokens : F[u][k] \in Nat
    BY <1>3
  <2>3. F = [u \in Accounts |-> [k \in Tokens |-> F[u][k]]]
    BY <2>1
  <2> HIDE DEF F
  <2>4. F \in [Accounts -> [Tokens -> Nat]]
    BY <2>2, <2>3
  <2> QED BY <2>4 DEF F, Claims
<1> QED BY <1>3, <1>4

-----------------------------------------------------------------------------
(* What a range pays to the holders of a Sett *)

LEMMA SharedParts ==
  ASSUME NEW c \in Nat, NEW n \in Nat, NEW f, NEW r,
         \A u \in Accounts : f[u] \in Nat /\ r[u] \in Nat /\ r[u] * c <= n * f[u]
  PROVE  SumFunctionOnSet(r, Accounts) * c <= n * SumFunctionOnSet(f, Accounts)
<1> DEFINE A == Accounts
           rc == [u \in A |-> c * r[u]]
           nf == [u \in A |-> n * f[u]]
<1>1. \A u \in A : r[u] \in Int /\ rc[u] = c * r[u]
  OBVIOUS
<1>2. \A u \in A : f[u] \in Int /\ nf[u] = n * f[u]
  OBVIOUS
<1>3. \A u \in A : rc[u] \in Int /\ nf[u] \in Int /\ rc[u] <= nf[u]
  <2>1. ASSUME NEW u \in A PROVE rc[u] \in Int /\ nf[u] \in Int /\ rc[u] <= nf[u]
    <3>1. c * r[u] = r[u] * c /\ r[u] * c \in Nat /\ n * f[u] \in Nat
      BY MulNat
    <3>2. r[u] * c <= n * f[u]
      OBVIOUS
    <3>3. rc[u] = c * r[u] /\ nf[u] = n * f[u]
      OBVIOUS
    <3> HIDE DEF rc, nf
    <3> QED BY <3>1, <3>2, <3>3
  <2> QED BY <2>1
<1> HIDE DEF rc, nf
<1>4. SumFunctionOnSet(rc, A) = c * SumFunctionOnSet(r, A)
  BY <1>1, AccountsFinite, SumTimes
<1>5. SumFunctionOnSet(nf, A) = n * SumFunctionOnSet(f, A)
  BY <1>2, AccountsFinite, SumTimes
<1>6. SumFunctionOnSet(rc, A) <= SumFunctionOnSet(nf, A)
  BY <1>3, AccountsFinite, SumMono
<1>7. SumFunctionOnSet(r, A) \in Nat
  BY AccountsFinite, NatSum
<1>8. SumFunctionOnSet(r, A) * c = c * SumFunctionOnSet(r, A)
  BY <1>7
<1> QED BY <1>4, <1>5, <1>6, <1>8

LEMMA TokenDistributionIs ==
  ASSUME TypeOK, NEW s, NEW k, NEW start \in Blocks, NEW end \in Blocks, start <= end
  PROVE  /\ TokenDistribution(s, k, start, end) = Accrued(schedules, In(schedules, s, k), start, end)
         /\ TokenDistribution(s, k, start, end) \in Nat
<1>1. TokenDistribution(s, k, start, end) = Accrued(schedules, In(schedules, s, k), start, end)
  BY DEF TokenDistribution, Total, Accrued, In
<1>2. In(schedules, s, k) \in SUBSET DOMAIN schedules
  BY DEF In
<1> QED BY <1>1, <1>2, AccruedNat DEF TypeOK

(* However the tree's share is passed on, no more is paid than is released. *)
LEMMA SnapshotFits ==
  ASSUME TypeOK, NEW held \in Held, NEW s \in Setts, NEW k \in Tokens,
         NEW start \in Blocks, NEW end \in Blocks, start <= end,
         s \notin NoRewards, Divides(held, s, start, end)
  PROVE  LET rewards == SnapshotRewards(held, s, k, start, end)
         IN  /\ \A u \in Accounts : rewards[u] \in Nat
             /\ SumFunctionOnSet(rewards, Accounts) \in Nat
             /\ SumFunctionOnSet(rewards, Accounts) <= TokenDistribution(s, k, start, end)
<1> DEFINE A == Accounts
           rewards == SnapshotRewards(held, s, k, start, end)
           dist == TokenDistribution(s, k, start, end)
           sum == SumBalances(held, s)
           waiting == TotalClaimable(s)
           f == [u \in A |-> held.of[s][u]]
           g == [u \in A |-> Claimable[s][u]]
           ft == f[Tree]
           passes == PassesOn(held, s)
           own == [u \in A |-> IF u = Tree THEN 0 ELSE (dist * f[u]) \div sum]
           passed == [u \in A |-> IF passes THEN (dist * ft * g[u]) \div (sum * waiting) ELSE 0]
           rest == [u \in A |-> IF u = Tree THEN 0 ELSE f[u]]
<1>1. dist \in Nat
  BY TokenDistributionIs
<1>2. \A u \in A : f[u] \in Nat /\ g[u] \in Nat
  <2>1. held.of \in [Setts -> [Accounts -> Nat]] /\ Claimable \in [Setts -> [Accounts -> Nat]]
    BY ComputationAssumption DEF Held
  <2> QED BY <2>1
<1>3. Tree \in A /\ IsFiniteSet(A)
  BY ComputationAssumption, AccountsFinite
<1>4. sum = SumFunctionOnSet(f, A) /\ waiting = SumFunctionOnSet(g, A)
  BY DEF SumBalances, TotalClaimable, Total
<1>5. sum \in Nat /\ waiting \in Nat
  <2> HIDE DEF f, g, sum, waiting
  <2> QED BY <1>2, <1>3, <1>4, NatSum
<1>6. CASE dist = 0
  <2>1. \A u \in A : rewards[u] = 0
    BY <1>6 DEF SnapshotRewards
  <2> HIDE DEF rewards, dist
  <2>2. SumFunctionOnSet(rewards, A) = 0
    BY <2>1, <1>3, SumOfZeros
  <2> QED BY <1>6, <2>1, <2>2 DEF rewards, dist
<1>7. CASE dist > 0
  <2>1. sum > 0 /\ (passes => waiting > 0)
    BY <1>1, <1>7 DEF Divides
  <2>2. \A u \in A : rewards[u] = own[u] + passed[u]
    <3>1. ~(s \in NoRewards \/ dist <= 0)
      BY <1>1, <1>7
    <3>2. ASSUME NEW u \in A PROVE rewards[u] = own[u] + passed[u]
      <4>1. held.of[s][u] = f[u] /\ held.of[s][Tree] = ft /\ Claimable[s][u] = g[u]
        BY <1>3
      <4> QED BY <3>1, <4>1 DEF SnapshotRewards
    <3> QED BY <3>2
  <2>3. ASSUME NEW u \in A
        PROVE  /\ own[u] \in Nat /\ own[u] * sum <= dist * rest[u] /\ rest[u] \in Nat
               /\ passed[u] \in Nat
               /\ passes => passed[u] * (sum * waiting) <= (dist * ft) * g[u]
    <3>1. dist * f[u] \in Nat /\ f[u] \in Nat /\ ft \in Nat /\ g[u] \in Nat /\ dist * ft \in Nat
      BY <1>1, <1>2, <1>3, MulNat
    <3>2. (dist * f[u]) \div sum \in Nat /\ ((dist * f[u]) \div sum) * sum <= dist * f[u]
      BY <1>5, <2>1, <3>1, FloorBounds
    <3>3. own[u] \in Nat /\ own[u] * sum <= dist * rest[u] /\ rest[u] \in Nat
      <4>1. CASE u = Tree
        <5>1. own[u] = 0 /\ rest[u] = 0
          BY <4>1
        <5>2. 0 * sum = 0 /\ dist * 0 = 0
          BY <1>1, <1>5
        <5> QED BY <5>1, <5>2
      <4>2. CASE u # Tree
        BY <3>1, <3>2, <4>2
      <4> QED BY <4>1, <4>2
    <3>4. CASE passes
      <4>1. sum * waiting \in Nat /\ sum * waiting > 0
        <5> HIDE DEF sum, waiting
        <5>1. 1 * waiting <= sum * waiting
          BY <1>5, <2>1, MulMono
        <5> QED BY <1>5, <2>1, <3>4, <5>1, MulNat
      <4>2. (dist * ft) * g[u] \in Nat
        BY <3>1, MulNat
      <4> DEFINE x == (dist * ft) * g[u]
                 y == sum * waiting
      <4>3. passed[u] = x \div y
        BY <3>4
      <4> HIDE DEF x, y
      <4>4. x \div y \in Nat /\ (x \div y) * y <= x
        BY <4>1, <4>2, FloorBounds DEF x, y
      <4> QED BY <3>3, <4>3, <4>4 DEF x, y
    <3>5. CASE ~passes
      BY <3>3, <3>5
    <3> QED BY <3>4, <3>5
  <2> DEFINE so == SumFunctionOnSet(own, A)
             sp == SumFunctionOnSet(passed, A)
  <2>4. so \in Nat /\ sp \in Nat
    <3> HIDE DEF own, passed
    <3> QED BY <1>3, <2>3, NatSum
  <2>5. SumFunctionOnSet(rest, A) = sum - ft
    <3>1. /\ \A u \in A : f[u] \in Int /\ rest[u] \in Int
          /\ \A u \in A \ {Tree} : rest[u] = f[u]
          /\ rest[Tree] = 0
      BY <1>2, <1>3, <2>3
    <3> HIDE DEF f, rest, sum
    <3>2. SumFunctionOnSet(rest, A) = SumFunctionOnSet(f, A) - f[Tree] + rest[Tree]
      BY <1>3, <3>1, SumChanged
    <3> QED BY <1>3, <1>4, <1>5, <3>1, <3>2
  <2>6. so * sum <= dist * (sum - ft)
    <3>1. so * sum <= dist * SumFunctionOnSet(rest, A)
      <4> HIDE DEF own, rest, sum, dist
      <4>1. \A u \in A : rest[u] \in Nat /\ own[u] \in Nat /\ own[u] * sum <= dist * rest[u]
        BY <2>3
      <4> QED BY <1>1, <1>5, <4>1, SharedParts
    <3> QED BY <2>5, <3>1
  <2>7. ft \in Nat
    BY <1>2, <1>3
  <2>8. sp * sum <= dist * ft
    <3>1. CASE passes
      <4>1. dist * ft \in Nat /\ sum * waiting \in Nat
        BY <1>1, <1>5, <2>7, MulNat
      <4> DEFINE n == dist * ft
                 c == sum * waiting
      <4>2. sp * c <= n * SumFunctionOnSet(g, A)
        <5>1. \A u \in A : g[u] \in Nat /\ passed[u] \in Nat /\ passed[u] * c <= n * g[u]
          BY <1>2, <2>3, <3>1
        <5> HIDE DEF passed, g, n, c
        <5>2. n \in Nat /\ c \in Nat
          BY <4>1 DEF n, c
        <5> QED BY <5>1, <5>2, SharedParts
      <4> HIDE DEF n
      <4>3. (sp * sum) * waiting <= n * waiting
        <5> HIDE DEF sp, sum, waiting, g
        <5>1. sp * (sum * waiting) = (sp * sum) * waiting
          BY <1>5, <2>4
        <5> QED BY <1>4, <4>2, <5>1 DEF c
      <4>4. sp * sum \in Nat /\ n \in Nat /\ waiting > 0
        BY <1>5, <2>1, <2>4, <3>1, <4>1, MulNat DEF n
      <4>5. sp * sum <= n
        <5> HIDE DEF sp, sum, waiting
        <5> QED BY <1>5, <4>3, <4>4, MulCancel
      <4> QED BY <4>5 DEF n
    <3>2. CASE ~passes
      <4>1. \A u \in A : passed[u] = 0
        BY <3>2
      <4>2. sp = 0
        <5> HIDE DEF passed
        <5> QED BY <1>3, <4>1, SumOfZeros
      <4>3. dist * ft \in Nat
        BY <1>1, <2>7, MulNat
      <4> HIDE DEF sp, dist, ft, sum
      <4> QED BY <1>5, <4>2, <4>3
    <3> QED BY <3>1, <3>2
  <2>9. SumFunctionOnSet(rewards, A) = so + 1 * sp
    <3>1. \A u \in A : own[u] \in Int /\ passed[u] \in Int /\ rewards[u] = own[u] + 1 * passed[u]
      BY <2>2, <2>3
    <3> HIDE DEF own, passed, rewards
    <3> QED BY <1>3, <3>1, SumLinear
  <2>10. (so + sp) <= dist
    <3> HIDE DEF so, sp, dist, sum, ft
    <3>1. dist * (sum - ft) = dist * sum - dist * ft
      BY <1>1, <1>5, <2>7
    <3>2. (so + sp) * sum = so * sum + sp * sum
      BY <1>5, <2>4
    <3>3. so * sum \in Nat /\ sp * sum \in Nat /\ dist * sum \in Nat /\ dist * ft \in Nat
      BY <1>1, <1>5, <2>4, <2>7, MulNat
    <3>4. (so + sp) * sum <= dist * sum
      BY <2>6, <2>8, <3>1, <3>2, <3>3
    <3> QED BY <1>1, <1>5, <2>1, <2>4, <3>4, MulCancel
  <2>11. \A u \in A : rewards[u] \in Nat
    <3> HIDE DEF rewards, own, passed, passes, dist, sum, ft
    <3> QED BY <2>2, <2>3
  <2> HIDE DEF rewards, so, sp, dist
  <2> QED BY <2>4, <2>9, <2>10, <2>11 DEF rewards, dist
<1> HIDE DEF dist
<1> QED BY <1>1, <1>6, <1>7 DEF dist

LEMMA PlusSums ==
  ASSUME NEW a \in Claims, NEW b \in Claims, NEW k \in Tokens
  PROVE  /\ TokenSum(Plus(a, b), k) = TokenSum(a, k) + TokenSum(b, k)
         /\ TokenSum(a, k) \in Nat /\ TokenSum(b, k) \in Nat
<1> DEFINE fa == [u \in Accounts |-> a[u][k]]
           fb == [u \in Accounts |-> b[u][k]]
           fp == [u \in Accounts |-> Plus(a, b)[u][k]]
<1>1. \A u \in Accounts : fa[u] \in Nat /\ fb[u] \in Nat
  BY DEF Claims
<1>2. \A u \in Accounts : fa[u] \in Int /\ fb[u] \in Int /\ fp[u] = fa[u] + 1 * fb[u]
  BY <1>1, PlusType
<1> HIDE DEF fa, fb, fp
<1>3. SumFunctionOnSet(fp, Accounts) = SumFunctionOnSet(fa, Accounts) + 1 * SumFunctionOnSet(fb, Accounts)
  BY <1>2, AccountsFinite, SumLinear
<1>4. SumFunctionOnSet(fa, Accounts) \in Nat /\ SumFunctionOnSet(fb, Accounts) \in Nat
  BY <1>1, AccountsFinite, NatSum
<1> QED BY <1>3, <1>4 DEF fa, fb, fp, TokenSum

LEMMA BoostedType ==
  ASSUME TypeOK, NEW held \in Held, NEW s \in Setts
  PROVE  BoostedIn(held, s) \in Held
<1>1. held.of \in [Setts -> [Accounts -> Nat]] /\ held.scale \in Nat
  BY DEF Held
<1>2. run.one \in Nat /\ run.one > 0 /\ run.boost \in [Accounts -> Nat]
  BY DEF TypeOK, RunType
<1> DEFINE f == [u \in Accounts |-> (held.of[s][u] * run.boost[u]) \div run.one]
<1>3. f \in [Accounts -> Nat]
  <2>1. ASSUME NEW u \in Accounts PROVE (held.of[s][u] * run.boost[u]) \div run.one \in Nat
    <3>1. held.of[s][u] * run.boost[u] \in Nat
      BY <1>1, <1>2, MulNat
    <3> QED BY <1>2, <3>1, FloorBounds
  <2> QED BY <2>1
<1> HIDE DEF f
<1>4. [held EXCEPT !.of[s] = f] \in Held
  BY <1>3 DEF Held
<1> QED BY <1>4 DEF BoostedIn, f

LEMMA DollarsType ==
  ASSUME NEW held \in Held, NEW one \in Nat
  PROVE  InDollars(held, one) \in Held
<1>1. held.of \in [Setts -> [Accounts -> Nat]] /\ held.scale \in Nat /\ Price \in [Setts -> Nat]
  BY ComputationAssumption DEF Held
<1>2. ASSUME NEW s \in Setts, NEW u \in Accounts
      PROVE  InDollars(held, one).of[s][u] \in Nat
  <2>1. Category(s) \in {"badger", "digg", "nonNative"}
    BY DEF Category
  <2>2. Value(held, Category(s), u) \in Nat
    BY <2>1, ValueType
  <2>3. held.of[s][u] \in Nat /\ Price[s] \in Nat
    BY <1>1
  <2>4. Usd(held, s, u) \in Nat
    BY <2>3, MulNat DEF Usd
  <2> DEFINE v == IF s \in Uncounted THEN held.of[s][u]
                  ELSE IF Collects(held, s, u) THEN Value(held, Category(s), u)
                  ELSE Usd(held, s, u)
  <2>5. v \in Nat
    BY <2>2, <2>3, <2>4
  <2>6. InDollars(held, one).of[s][u] = one * v
    BY DEF InDollars
  <2> HIDE DEF v
  <2> QED BY <2>5, <2>6, MulNat
<1>3. held.scale * one \in Nat
  BY <1>1, MulNat
<1> DEFINE d == InDollars(held, one)
<1>4. d = [scale |-> held.scale * one, of |-> [s \in Setts |-> [u \in Accounts |-> d.of[s][u]]]]
  BY DEF InDollars
<1>5. \A s \in Setts, u \in Accounts : d.of[s][u] \in Nat
  BY <1>2
<1> HIDE DEF d
<1>6. [s \in Setts |-> [u \in Accounts |-> d.of[s][u]]] \in [Setts -> [Accounts -> Nat]]
  BY <1>5
<1>7. d \in Held
  BY <1>3, <1>4, <1>6 DEF Held
<1> QED BY <1>7 DEF d

-----------------------------------------------------------------------------
(* The inductive invariant *)

Owed(S) == SumFunctionOnSet([h \in S |-> h.amount - Cardinality(Accounts)], S)

(* The harvests of a token that a range processes *)
Due(H, k, start, end) ==
  {h \in H : /\ h.token = k /\ h.block > start /\ h.block <= end
             /\ h.kind = "sushi" => h.block < end}

Until(H, k, end) == {h \in H : h.token = k /\ h.block <= end}

(* What a run has given out so far is owed for the harvests of its range   *)
(* and released by the schedules of the Setts it has been through.         *)
GivenOut(H, sch, r) ==
  \A k \in Tokens :
    /\ Owed(Due(H, k, r.start, r.end)) <= TokenSum(r.new, k)
    /\ TokenSum(r.new, k) <= Accrued(sch, Slots(sch, r.at, k), r.start, r.end)
                               + Harvested(Due(H, k, r.start, r.end))

(* WithinReleased and HarvestsPaid, of given harvests and schedules *)
Within(H, sch, tree) ==
  \A k \in Tokens :
    TokenSum(tree.claims, k) <= ReleasedBy(sch, k, tree.end) + Harvested(Until(H, k, tree.end))

Inside(H, k, tree) ==
  {h \in H : h.token = k /\ h.block \in tree.start..tree.end /\ ~AtABoundary(h, tree)}

Paid(H, before, tree) ==
  \A k \in Tokens :
    TokenSum(tree.claims, k) - TokenSum(before.claims, k) > Owed(Inside(H, k, tree)) - 1

(* The blocks after the one that was computed last are as they were fetched. *)
Fresh == \A b \in Blocks : b > run.end => cache[b] = Fetched[b]

BoostInv ==
  run.for = "proposal" =>
    LET worth == Worths(Fetched[run.end])
    IN  run.one = One(worth) /\ run.boost = Boosts(worth)

RunInv ==
  run.for = "proposal" =>
    /\ run.start = Last.end + 1 /\ run.end + Buffer <= height
    /\ GivenOut(harvests, schedules, run)

TreeInv ==
  /\ Within(harvests, schedules, Last)
  /\ pending.cycle = Len(trees) + 1 =>
       /\ Within(harvests, schedules, pending) /\ Paid(harvests, Last, pending)
       /\ pending.end + Buffer <= height

IInv == TypeOK /\ Fresh /\ BoostInv /\ RunInv /\ TreeInv

LEMMA TypeInit == ASSUME Init PROVE TypeOK
<1>1. 0 \in Blocks /\ Buffer \in Buffer..MaxHeight /\ NoClaims \in Claims
  BY ComputationAssumption DEF Blocks, NoClaims, Claims
<1>2. Genesis \in TreeType /\ NoTree \in TreeType /\ Ranged(NoTree) /\ 0 <= 0
  BY <1>1 DEF Genesis, NoTree, TreeType, Ranged, Blocks
<1>3. <<Genesis>> \in Seq(TreeType) /\ <<Genesis>> # <<>>
  BY <1>2
<1>4. <<>> \in Seq(Offers)
  OBVIOUS
<1>5. cache \in [Blocks -> Held]
  BY FetchedType DEF Init
<1>6. IsFiniteSet({}) /\ \A h \in {} : Yielded(h)
  BY FS_EmptySet
<1> QED BY <1>1, <1>2, <1>3, <1>4, <1>5, <1>6, IdleType DEF Init, TypeOK

LEMMA BoostsType == ASSUME NEW worth \in Worth PROVE Boosts(worth) \in [Accounts -> Nat]
<1>1. \A u \in Accounts : Boosts(worth)[u] \in Nat
  BY BoostsAre
<1>2. Boosts(worth) = [u \in Accounts |-> Boosts(worth)[u]]
  BY DEF Boosts
<1> DEFINE b == Boosts(worth)
<1> HIDE DEF b
<1>3. b \in [Accounts -> Nat]
  BY <1>1, <1>2 DEF b
<1> QED BY <1>3 DEF b

(* A run begins with what the harvests give. *)
LEMMA BeginFacts ==
  ASSUME TypeOK, NEW purpose \in {"proposal", "verification"},
         NEW start \in Blocks, NEW end \in Blocks, start <= end, Begin(purpose, start, end)
  PROVE  /\ run' \in RunType /\ Ranged(run') /\ run'.for = purpose /\ run'.at = 1
         /\ run'.start = start /\ run'.end = end
         /\ run'.one = One(Worths(cache[end])) /\ run'.boost = Boosts(Worths(cache[end]))
         /\ run'.new = FromHarvests(start, end) /\ HarvestsDivide(start, end)
         /\ cache' \in [Blocks -> Held]
         /\ \A b \in Blocks \ {end} : cache'[b] = cache[b]
         /\ UNCHANGED <<chain, published>>
<1> DEFINE worth == Worths(cache[end])
           one == One(worth)
<1>1. start \in Nat /\ end \in Nat
  BY BlockFacts
<1>2. cache[end] \in Held /\ cache \in [Blocks -> Held]
  BY DEF TypeOK
<1>3. worth \in Worth
  BY <1>2, WorthsType
<1>4. one \in Nat \ {0} /\ Boosts(worth) \in [Accounts -> Nat]
  BY <1>3, OneType, BoostsType
<1>5. HarvestsDivide(start, end) /\ FromHarvests(start, end) \in Claims
  BY <1>1, FromHarvestsFacts DEF Begin
<1>6. 1 \in 0..Len(Order) + 1
  BY ComputationAssumption
<1>7. /\ run' = [for |-> purpose, at |-> 1, start |-> start, end |-> end, one |-> one,
                 boost |-> Boosts(worth), new |-> FromHarvests(start, end)]
      /\ cache' = [cache EXCEPT ![end] = InDollars(cache[end], one)]
      /\ UNCHANGED <<chain, published>>
  BY DEF Begin
<1>8. InDollars(cache[end], one) \in Held
  BY <1>2, <1>4, DollarsType
<1> HIDE DEF worth, one
<1>9. run' \in RunType /\ Ranged(run') /\ run'.at = 1
  BY <1>1, <1>4, <1>5, <1>6, <1>7 DEF RunType, Ranged
<1>10. cache' \in [Blocks -> Held] /\ \A b \in Blocks \ {end} : cache'[b] = cache[b]
  BY <1>2, <1>7, <1>8
<1> QED BY <1>5, <1>7, <1>9, <1>10 DEF worth, one

LEMMA ProposalRange ==
  ASSUME TypeOK, BeginProposal
  PROVE  /\ Last.end \in Blocks /\ Last.end + 1 \in Blocks /\ height - Buffer \in Blocks
         /\ Last.end + 1 <= height - Buffer /\ run.end < height - Buffer
         /\ Begin("proposal", Last.end + 1, height - Buffer)
<1>1. Last.end \in Blocks /\ Last.end \in Nat
  BY LastType, BlockFacts DEF TreeType
<1>2. height - Buffer \in Nat /\ height - Buffer <= MaxHeight /\ height - Buffer \in Blocks
      /\ MaxHeight \in Nat
  BY BlockFacts DEF Blocks
<1> QED BY <1>1, <1>2 DEF BeginProposal, Blocks

LEMMA RecomputationRange ==
  ASSUME TypeOK, BeginRecomputation
  PROVE  /\ pending.start \in Blocks /\ pending.end \in Blocks /\ pending.start <= pending.end
         /\ run.end = pending.end
         /\ Begin("verification", pending.start, pending.end)
BY SMTT(30) DEF TypeOK, BeginRecomputation, Ranged, TreeType

(* The three ends of a step of calc_snapshot *)
LEMMA SnapshotFacts ==
  ASSUME TypeOK, Snapshot
  PROVE  LET s == Order[run.at]
             boosted == BoostedIn(cache[run.end], s)
         IN  /\ run.at \in DOMAIN Order /\ s \in Setts
             /\ boosted \in Held /\ cache' \in [Blocks -> Held]
             /\ UNCHANGED <<chain, published>>
             /\ \/ /\ s \in NoRewards /\ cache' = cache
                   /\ run' = [run EXCEPT !.at = @ + 1]
                \/ /\ s \notin NoRewards /\ Divides(boosted, s, run.start, run.end)
                   /\ \A b \in Blocks \ {run.end} : cache'[b] = cache[b]
                   /\ \E new \in Claims :
                        /\ run' = [run EXCEPT !.at = @ + 1, !.new = Plus(@, new)]
                        /\ \A k \in Tokens :
                             TokenSum(new, k) = SumFunctionOnSet(
                               SnapshotRewards(boosted, s, k, run.start, run.end), Accounts)
                \/ /\ run' = Done
                   /\ \A b \in Blocks \ {run.end} : cache'[b] = cache[b]
                \/ run' = Idle /\ cache' = Fetched
<1> DEFINE s == Order[run.at]
           boosted == BoostedIn(cache[run.end], s)
           rewards == [k \in Tokens |-> SnapshotRewards(boosted, s, k, run.start, run.end)]
           new == [u \in Accounts |-> [k \in Tokens |-> rewards[k][u]]]
           kept == [cache EXCEPT ![run.end] = boosted]
<1>1. run.at \in DOMAIN Order /\ s \in Setts
  BY DEF Snapshot, Setts
<1>2. run.end \in Blocks /\ run.start \in Blocks /\ run.start <= run.end
  BY DEF TypeOK, RunType, Ranged
<1>3. cache \in [Blocks -> Held] /\ cache[run.end] \in Held
  BY <1>2 DEF TypeOK
<1>4. boosted \in Held
  BY <1>1, <1>3, BoostedType
<1>5. kept \in [Blocks -> Held] /\ \A b \in Blocks \ {run.end} : kept[b] = cache[b]
  <2> HIDE DEF boosted
  <2> QED BY <1>3, <1>4
<1>6. Fetched \in [Blocks -> Held]
  BY FetchedType DEF TypeOK
<1>7. UNCHANGED <<chain, published>>
  BY DEF Snapshot
<1>8. CASE s \in NoRewards
  <2>1. run' = [run EXCEPT !.at = @ + 1] /\ cache' = cache
    BY <1>8 DEF Snapshot
  <2> QED BY <1>1, <1>3, <1>4, <1>7, <1>8, <2>1
<1>9. CASE s \notin NoRewards /\ Divides(boosted, s, run.start, run.end)
  <2>1. cache' = kept /\ run' = [run EXCEPT !.at = @ + 1, !.new = Plus(@, new)]
    BY SMTT(30), <1>9 DEF Snapshot
  <2>2. ASSUME NEW k \in Tokens
        PROVE  (\A u \in Accounts : rewards[k][u] \in Nat)
               /\ TokenSum(new, k) = SumFunctionOnSet(
                    SnapshotRewards(boosted, s, k, run.start, run.end), Accounts)
    <3>1. \A u \in Accounts : rewards[k][u] \in Nat
      <4> HIDE DEF s, boosted
      <4> QED BY <1>1, <1>2, <1>4, <1>9, SnapshotFits DEF s
    <3>2. [u \in Accounts |-> new[u][k]] = SnapshotRewards(boosted, s, k, run.start, run.end)
      <4> HIDE DEF s, boosted
      <4> QED BY DEF SnapshotRewards
    <3> QED BY <3>1, <3>2 DEF TokenSum
  <2>3. new \in Claims
    <3> HIDE DEF rewards
    <3> QED BY <2>2 DEF Claims
  <2> HIDE DEF new, rewards, kept
  <2> QED BY <1>1, <1>4, <1>5, <1>7, <1>9, <2>1, <2>2, <2>3
<1>10. CASE s \notin NoRewards /\ ~Divides(boosted, s, run.start, run.end)
  <2>1. Raise(kept)
    BY <1>10 DEF Snapshot
  <2>2. (run' = Done /\ cache' = kept) \/ (run' = Idle /\ cache' = Fetched)
    BY <2>1 DEF Raise
  <2> HIDE DEF kept, boosted
  <2> QED BY <1>1, <1>4, <1>5, <1>6, <1>7, <2>2 DEF boosted
<1> QED BY <1>8, <1>9, <1>10

LEMMA FinishFacts ==
  ASSUME TypeOK, Finish
  PROVE  /\ Computed \in TreeType /\ Ranged(Computed) /\ run.at = Len(Order) + 1
         /\ UNCHANGED <<chain, trees>>
         /\ \/ /\ run.for = "proposal" /\ pending' = Computed
               /\ run' = Done /\ UNCHANGED <<cache, recomputed>>
            \/ recomputed' = Computed /\ run' = Done /\ UNCHANGED <<cache, pending>>
            \/ run' = Done /\ UNCHANGED <<cache, pending, recomputed>>
            \/ run' = Idle /\ cache' = Fetched /\ UNCHANGED <<pending, recomputed>>
<1>1. run \in RunType /\ Ranged(run) /\ Last \in TreeType /\ Len(trees) \in Nat
  BY LastType DEF TypeOK
<1>2. Plus(Last.claims, run.new) \in Claims
  BY <1>1, PlusType DEF RunType, TreeType
<1>3. Computed \in TreeType /\ Ranged(Computed)
  BY <1>1, <1>2 DEF Computed, TreeType, RunType, Ranged
<1>4. run.at = Len(Order) + 1 /\ UNCHANGED <<chain, trees>>
  BY DEF Finish
<1>5. CASE Sane(Computed)
  BY <1>3, <1>4, <1>5 DEF Finish
<1>6. CASE ~Sane(Computed)
  BY <1>3, <1>4, <1>6 DEF Finish, Raise
<1> QED BY <1>5, <1>6

(* What the harvester and those who set schedules add *)
LEMMA HarvestAdds ==
  ASSUME TypeOK, NEW yield \in Yields, Harvest(yield)
  PROVE  /\ run.for = "nothing"
         /\ IsFiniteSet(harvests') /\ harvests \subseteq harvests'
         /\ \A h \in harvests' : Yielded(h)
         /\ \A h \in harvests' \ harvests : h.block = height
<1> DEFINE new == [block |-> height, sett |-> yield.sett, token |-> yield.token,
                   amount |-> yield.amount, kind |-> yield.kind]
<1>1. harvests' = harvests \cup {new} /\ run.for = "nothing"
  BY DEF Harvest
<1>2. Yielded(new) /\ new.block = height
  <2>1. /\ yield.sett \in Setts /\ yield.token \in Tokens /\ yield.amount \in Nat
        /\ yield.kind \in {"tree", "sushi"}
    BY ComputationAssumption
  <2> QED BY <2>1, BlockFacts DEF Yielded
<1>3. IsFiniteSet(harvests) /\ \A h \in harvests : Yielded(h)
  BY DEF TypeOK
<1> HIDE DEF new
<1> QED BY <1>1, <1>2, <1>3, FS_AddElement

LEMMA TypeKept == ASSUME TypeOK, [Next]_vars PROVE TypeOK'
<1> USE DEF chain, published
<1>1. CASE BeginProposal
  <2>1. cache' \in [Blocks -> Held] /\ run' \in RunType /\ Ranged(run')
        /\ run'.for = "proposal" /\ run'.at = 1 /\ UNCHANGED <<chain, published>>
    BY <1>1, ProposalRange, BeginFacts
  <2> QED BY <2>1 DEF TypeOK
<1>2. CASE BeginRecomputation
  <2>1. cache' \in [Blocks -> Held] /\ run' \in RunType /\ Ranged(run')
        /\ run'.for = "verification" /\ run'.at = 1 /\ UNCHANGED <<chain, published>>
    BY <1>2, RecomputationRange, BeginFacts
  <2> QED BY <2>1 DEF TypeOK
<1>3. CASE Snapshot
  <2>1. cache' \in [Blocks -> Held] /\ UNCHANGED <<chain, published>> /\ run.at \in DOMAIN Order
    BY <1>3, SnapshotFacts
  <2>2. run \in RunType /\ Ranged(run) /\ (run.for = "nothing") = (run.at = 0)
    BY DEF TypeOK
  <2>3. run.at \in Nat /\ run.at > 0 /\ run.at + 1 \in 0..Len(Order) + 1 /\ run.at + 1 # 0
    BY <2>1, ComputationAssumption
  <2>4. run' \in RunType /\ Ranged(run') /\ (run'.for = "nothing") = (run'.at = 0)
    <3>1. CASE run' = [run EXCEPT !.at = @ + 1]
      BY <2>2, <2>3, <3>1 DEF RunType, Ranged
    <3>2. ASSUME NEW new \in Claims, run' = [run EXCEPT !.at = @ + 1, !.new = Plus(@, new)]
          PROVE  run' \in RunType /\ Ranged(run') /\ (run'.for = "nothing") = (run'.at = 0)
      <4>1. Plus(run.new, new) \in Claims
        BY <2>2, PlusType DEF RunType
      <4>2. /\ run'.for = run.for /\ run'.at = run.at + 1
            /\ run'.start = run.start /\ run'.end = run.end
        BY <2>2, <3>2 DEF RunType
      <4>3. run' \in RunType
        BY <2>2, <2>3, <3>2, <4>1 DEF RunType
      <4> QED BY <2>2, <2>3, <4>2, <4>3 DEF Ranged
    <3>3. CASE run' = Done \/ run' = Idle
      BY <2>2, <3>3, DoneType, IdleType
    <3> QED BY <1>3, <3>1, <3>2, <3>3, SnapshotFacts
  <2> QED BY <2>1, <2>4 DEF TypeOK
<1>4. CASE Finish
  <2>1. run \in RunType /\ Fetched \in [Blocks -> Held]
    BY FetchedType DEF TypeOK
  <2>2. run' \in RunType /\ Ranged(run') /\ (run'.for = "nothing") = (run'.at = 0)
    BY <1>4, <2>1, FinishFacts, DoneType, IdleType
  <2>3. cache' \in [Blocks -> Held] /\ pending' \in TreeType /\ recomputed' \in TreeType
        /\ Ranged(pending') /\ UNCHANGED <<chain, trees>>
    BY <1>4, <2>1, FinishFacts DEF TypeOK
  <2> QED BY <2>2, <2>3 DEF TypeOK
<1>5. CASE Publish
  <2>1. Append(trees, pending) \in Seq(TreeType) /\ Append(trees, pending) # <<>>
    BY DEF TypeOK
  <2> QED BY <1>5, <2>1 DEF TypeOK, Publish
<1>6. CASE Restart
  <2>1. Fetched \in [Blocks -> Held]
    BY FetchedType DEF TypeOK
  <2> QED BY <1>6, <2>1, IdleType DEF TypeOK, Restart
<1>7. CASE Mine
  <2>1. height + 1 \in Buffer..MaxHeight
    BY <1>7, BlockFacts DEF TypeOK, Mine
  <2> QED BY <1>7, <2>1 DEF TypeOK, Mine
<1>8. CASE \E offer \in Offers : SetUnlockSchedule(offer)
  BY <1>8 DEF TypeOK, SetUnlockSchedule
<1>9. CASE \E yield \in Yields : Harvest(yield)
  <2>1. IsFiniteSet(harvests') /\ \A h \in harvests' : Yielded(h)
    BY <1>9, HarvestAdds
  <2>2. UNCHANGED <<balances, height, schedules, cache, run, published>>
    BY <1>9 DEF Harvest
  <2> QED BY <2>1, <2>2 DEF TypeOK
<1>10. CASE UNCHANGED vars
  BY <1>10 DEF vars, TypeOK
<1> QED BY <1>1, <1>2, <1>3, <1>4, <1>5, <1>6, <1>7, <1>8, <1>9, <1>10 DEF Next

-----------------------------------------------------------------------------
(* Boosts *)

(* The balances fetched of a block do not depend on when. *)
LEMMA FetchedKept == ASSUME [Next]_vars PROVE Fetched' = Fetched
<1>1. balances' = balances
  BY DEF Next, vars, chain, BeginProposal, BeginRecomputation, Begin, Snapshot, Finish, Publish,
         Restart, Mine, SetUnlockSchedule, Harvest
<1> QED BY <1>1 DEF Fetched

LEMMA FreshKept == ASSUME TypeOK, Fresh, [Next]_vars PROVE Fresh'
<1> USE DEF Fresh
<1>0. /\ \A b \in Blocks : b \in Nat
      /\ Fetched' = Fetched /\ run \in RunType /\ run.end \in Blocks
  BY FetchedKept, BlockFacts DEF TypeOK, RunType
<1>1. CASE BeginProposal
  <2>1. run.end < height - Buffer /\ run'.end = height - Buffer /\ height - Buffer \in Blocks
        /\ \A b \in Blocks \ {height - Buffer} : cache'[b] = cache[b]
    BY <1>1, ProposalRange, BeginFacts
  <2> QED BY <1>0, <2>1
<1>2. CASE BeginRecomputation
  <2>1. run'.end = run.end /\ \A b \in Blocks \ {run.end} : cache'[b] = cache[b]
    BY <1>2, RecomputationRange, BeginFacts
  <2> QED BY <1>0, <2>1
<1>3. CASE Snapshot
  <2>1. \/ run'.end = run.end /\ \A b \in Blocks \ {run.end} : cache'[b] = cache[b]
        \/ cache' = Fetched
    <3>1. CASE run' = [run EXCEPT !.at = @ + 1] /\ cache' = cache
      BY <1>0, <3>1 DEF RunType
    <3>2. CASE /\ \E new \in Claims : run' = [run EXCEPT !.at = @ + 1, !.new = Plus(@, new)]
               /\ \A b \in Blocks \ {run.end} : cache'[b] = cache[b]
      BY <1>0, <3>2 DEF RunType
    <3>3. CASE run' = Done /\ \A b \in Blocks \ {run.end} : cache'[b] = cache[b]
      BY <1>0, <3>3, DoneType
    <3> QED BY <1>3, <3>1, <3>2, <3>3, SnapshotFacts
  <2> QED BY <1>0, <2>1
<1>4. CASE Finish
  BY <1>0, <1>4, FinishFacts, DoneType
<1>5. CASE Restart
  BY <1>0, <1>5 DEF Restart
<1>6. CASE UNCHANGED <<cache, run>>
  BY <1>0, <1>6
<1> QED BY <1>1, <1>2, <1>3, <1>4, <1>5, <1>6 DEF Next, vars, Publish, Mine, SetUnlockSchedule, Harvest

LEMMA BoostKept == ASSUME TypeOK, Fresh, BoostInv, [Next]_vars PROVE BoostInv'
<1> USE DEF BoostInv
<1>0. Fetched' = Fetched /\ run \in RunType
  BY FetchedKept DEF TypeOK
<1>1. CASE BeginProposal
  <2>1. /\ height - Buffer \in Blocks /\ height - Buffer > run.end /\ run'.end = height - Buffer
        /\ run'.one = One(Worths(cache[height - Buffer]))
        /\ run'.boost = Boosts(Worths(cache[height - Buffer]))
    <3>1. run.end \in Nat /\ height - Buffer \in Nat
      BY BlockFacts DEF TypeOK, RunType
    <3> QED BY <1>1, <3>1, ProposalRange, BeginFacts
  <2>2. cache[height - Buffer] = Fetched[height - Buffer]
    BY <2>1 DEF Fresh
  <2> QED BY <1>0, <2>1, <2>2
<1>2. CASE run'.for # "proposal"
  BY <1>2
<1>3. CASE run'.for = run.for /\ run'.end = run.end /\ run'.one = run.one /\ run'.boost = run.boost
  BY <1>0, <1>3
<1>4. CASE BeginRecomputation
  <2>1. run'.for # "proposal"
    BY <1>4, RecomputationRange, BeginFacts
  <2> QED BY <1>2, <2>1
<1>5. CASE Snapshot
  <2>1. CASE run' = [run EXCEPT !.at = @ + 1]
    BY <1>0, <1>3, <2>1 DEF RunType
  <2>2. CASE \E new \in Claims : run' = [run EXCEPT !.at = @ + 1, !.new = Plus(@, new)]
    BY <1>0, <1>3, <2>2 DEF RunType
  <2>3. CASE run' = Done \/ run' = Idle
    BY <1>0, <1>2, <2>3, DoneType, IdleType
  <2> QED BY <1>5, <2>1, <2>2, <2>3, SnapshotFacts
<1>6. CASE Finish
  BY <1>0, <1>2, <1>6, FinishFacts, DoneType, IdleType
<1>7. CASE Restart
  BY <1>2, <1>7, IdleType DEF Restart
<1> QED BY <1>1, <1>3, <1>4, <1>5, <1>6, <1>7
        DEF Next, vars, Publish, Mine, SetUnlockSchedule, Harvest

-----------------------------------------------------------------------------
(* What a run gives out *)

LEMMA DueFacts ==
  ASSUME TypeOK, NEW k, NEW start \in Nat, NEW end \in Blocks
  PROVE  /\ Due(harvests, k, start, end) = ProcessedOf(k, start, end)
         /\ IsFiniteSet(Due(harvests, k, start, end))
         /\ \A h \in Due(harvests, k, start, end) : h.amount \in Nat /\ h \in harvests
<1>1. \A h \in harvests : Yielded(h)
  BY DEF TypeOK
<1>2. end \in Nat /\ \A h \in harvests : h.block \in Nat /\ h.kind \in {"tree", "sushi"} /\ h.amount \in Nat
  BY <1>1, BlockFacts DEF Yielded
<1>3. Due(harvests, k, start, end) = ProcessedOf(k, start, end)
  BY <1>2 DEF Due, ProcessedOf, Processed, TreeDistributions, SushiHarvests
<1> QED BY <1>2, <1>3, ProcessedAre

LEMMA GivenFirst ==
  ASSUME TypeOK, NEW r \in RunType, r.at = 1, r.start \in Blocks,
         HarvestsDivide(r.start, r.end), r.new = FromHarvests(r.start, r.end)
  PROVE  GivenOut(harvests, schedules, r)
<1> SUFFICES ASSUME NEW k \in Tokens
             PROVE  /\ Owed(Due(harvests, k, r.start, r.end)) <= TokenSum(r.new, k)
                    /\ TokenSum(r.new, k)
                         <= Accrued(schedules, Slots(schedules, r.at, k), r.start, r.end)
                              + Harvested(Due(harvests, k, r.start, r.end))
  BY DEF GivenOut
<1> DEFINE P == Due(harvests, k, r.start, r.end)
           each == [h \in P |-> SumFunctionOnSet(HarvestRewards(h), Accounts)]
           all == [h \in P |-> h.amount]
           least == [h \in P |-> h.amount - Cardinality(Accounts)]
<1>1. r.start \in Nat /\ r.end \in Blocks
  BY BlockFacts DEF RunType
<1>2. P = ProcessedOf(k, r.start, r.end) /\ IsFiniteSet(P)
      /\ \A h \in P : h.amount \in Nat /\ h \in harvests
  BY <1>1, DueFacts
<1>3. TokenSum(r.new, k) = SumFunctionOnSet(each, P)
  BY <1>1, <1>2, FromHarvestsFacts
<1>4. Cardinality(Accounts) \in Nat
  BY AccountsFinite, FS_CardinalityType
<1>5. ASSUME NEW h \in P
      PROVE  /\ least[h] \in Int /\ each[h] \in Int /\ all[h] \in Int
             /\ least[h] <= each[h] /\ each[h] <= all[h]
  <2>1. h \in Processed(r.start, r.end) /\ h \in harvests
    BY <1>2 DEF ProcessedOf
  <2>2. SumBalances(cache[h.block], h.sett) > 0
    BY <2>1 DEF HarvestsDivide
  <2>3. /\ SumFunctionOnSet(HarvestRewards(h), Accounts) <= h.amount
        /\ h.amount - Cardinality(Accounts) <= SumFunctionOnSet(HarvestRewards(h), Accounts)
        /\ SumFunctionOnSet(HarvestRewards(h), Accounts) \in Nat
    BY <2>1, <2>2, HarvestShared
  <2>4. least[h] = h.amount - Cardinality(Accounts) /\ all[h] = h.amount
        /\ each[h] = SumFunctionOnSet(HarvestRewards(h), Accounts)
    OBVIOUS
  <2>5. h.amount \in Nat
    BY <1>2
  <2> HIDE DEF least, all, each, P
  <2> QED BY <1>4, <2>3, <2>4, <2>5
<1>6. Owed(P) = SumFunctionOnSet(least, P) /\ Harvested(P) = SumFunctionOnSet(all, P)
  BY DEF Owed, Harvested
<1>7. Accrued(schedules, Slots(schedules, r.at, k), r.start, r.end) = 0
  <2>1. Slots(schedules, r.at, k) = {}
    <3>1. 1..r.at - 1 = {}
      OBVIOUS
    <3> QED BY <3>1 DEF Slots
  <2> QED BY <2>1, SumOfNone DEF Accrued
<1> HIDE DEF least, each, all
<1>8. SumFunctionOnSet(least, P) <= SumFunctionOnSet(each, P)
  <2> HIDE DEF P
  <2> QED BY <1>2, <1>5, SumMono
<1>9. SumFunctionOnSet(each, P) <= SumFunctionOnSet(all, P)
  <2> HIDE DEF P
  <2> QED BY <1>2, <1>5, SumMono
<1>10. SumFunctionOnSet(all, P) \in Int
  <2> HIDE DEF P
  <2> QED BY <1>2, <1>5, SumType
<1> HIDE DEF P
<1> QED BY <1>3, <1>6, <1>7, <1>8, <1>9, <1>10 DEF P

(* A Sett adds to what is given out no more than it releases. *)
LEMMA GivenNext ==
  ASSUME TypeOK, GivenOut(harvests, schedules, run), run.at \in DOMAIN Order,
         NEW r \in RunType, r.at = run.at + 1, r.start = run.start, r.end = run.end,
         \A k \in Tokens :
           LET more == TokenSum(r.new, k) - TokenSum(run.new, k)
           IN  more \in Nat /\ more <= TokenDistribution(Order[run.at], k, run.start, run.end)
  PROVE  GivenOut(harvests, schedules, r)
<1> SUFFICES ASSUME NEW k \in Tokens
             PROVE  /\ Owed(Due(harvests, k, r.start, r.end)) <= TokenSum(r.new, k)
                    /\ TokenSum(r.new, k)
                         <= Accrued(schedules, Slots(schedules, r.at, k), r.start, r.end)
                              + Harvested(Due(harvests, k, r.start, r.end))
  BY DEF GivenOut
<1> DEFINE a == run.start
           b == run.end
           P == Due(harvests, k, a, b)
           before == Accrued(schedules, Slots(schedules, run.at, k), a, b)
           added == Accrued(schedules, In(schedules, Order[run.at], k), a, b)
           after == Accrued(schedules, Slots(schedules, run.at + 1, k), a, b)
<1>1. a \in Blocks /\ b \in Blocks /\ a <= b /\ a \in Nat
  BY BlockFacts DEF TypeOK, RunType, Ranged
<1>2. Owed(P) <= TokenSum(run.new, k) /\ TokenSum(run.new, k) <= before + Harvested(P)
  BY DEF GivenOut
<1>3. after = before + added
  BY <1>1, NextSlots DEF TypeOK
<1>4. TokenDistribution(Order[run.at], k, a, b) = added /\ added \in Nat
  BY <1>1, TokenDistributionIs
<1>5. TokenSum(r.new, k) - TokenSum(run.new, k) \in Nat
      /\ TokenSum(r.new, k) - TokenSum(run.new, k) <= added
  BY <1>4
<1>6. TokenSum(r.new, k) \in Nat /\ TokenSum(run.new, k) \in Nat
  <2>1. r.new \in Claims /\ run.new \in Claims
    BY DEF TypeOK, RunType
  <2> QED BY <2>1, PlusSums
<1>7. Owed(P) \in Int /\ Harvested(P) \in Int
  <2> DEFINE least == [h \in P |-> h.amount - Cardinality(Accounts)]
             all == [h \in P |-> h.amount]
  <2>1. IsFiniteSet(P) /\ \A h \in P : h.amount \in Nat
    BY <1>1, DueFacts
  <2>2. Cardinality(Accounts) \in Nat
    BY AccountsFinite, FS_CardinalityType
  <2>3. \A h \in P : least[h] \in Int /\ all[h] \in Int
    BY <2>1, <2>2
  <2> HIDE DEF least, all, P
  <2>4. SumFunctionOnSet(least, P) \in Int /\ SumFunctionOnSet(all, P) \in Int
    BY <2>1, <2>3, SumType
  <2> QED BY <2>4 DEF Owed, Harvested, least, all
<1>8. before \in Nat
  <2>1. Slots(schedules, run.at, k) \in SUBSET DOMAIN schedules
    BY DEF Slots, For
  <2> QED BY <1>1, <2>1, AccruedNat DEF TypeOK
<1> HIDE DEF P, before, added, after
<1>9. Owed(P) <= TokenSum(r.new, k) /\ TokenSum(r.new, k) <= after + Harvested(P)
  BY <1>2, <1>3, <1>4, <1>5, <1>6, <1>7, <1>8
<1> QED BY <1>9 DEF P, after

(* A schedule that is set during a run only adds. *)
LEMMA GivenStays ==
  ASSUME TypeOK, GivenOut(harvests, schedules, run), NEW o \in Offers
  PROVE  GivenOut(harvests, Append(schedules, o), run)
<1>1. /\ run.start \in Blocks /\ run.end \in Blocks /\ run.start <= run.end /\ run.at \in Nat
      /\ run.start \in Nat /\ run.new \in Claims /\ schedules \in Seq(Offers)
  BY BlockFacts, ComputationAssumption DEF TypeOK, RunType, Ranged
<1>2. ASSUME NEW k \in Tokens
      PROVE  /\ Owed(Due(harvests, k, run.start, run.end)) <= TokenSum(run.new, k)
             /\ TokenSum(run.new, k)
                  <= Accrued(Append(schedules, o), Slots(Append(schedules, o), run.at, k),
                             run.start, run.end)
                       + Harvested(Due(harvests, k, run.start, run.end))
  <2> DEFINE P == Due(harvests, k, run.start, run.end)
             old == Accrued(schedules, Slots(schedules, run.at, k), run.start, run.end)
             new == Accrued(Append(schedules, o), Slots(Append(schedules, o), run.at, k),
                            run.start, run.end)
  <2>1. Owed(P) <= TokenSum(run.new, k) /\ TokenSum(run.new, k) <= old + Harvested(P)
    BY DEF GivenOut
  <2>2. old <= new
    BY <1>1, OfferAdds
  <2>3. old \in Nat /\ new \in Nat
    <3>1. Append(schedules, o) \in Seq(Offers)
      BY <1>1
    <3>2. /\ Slots(schedules, run.at, k) \in SUBSET DOMAIN schedules
          /\ Slots(Append(schedules, o), run.at, k) \in SUBSET DOMAIN Append(schedules, o)
      BY DEF Slots, For
    <3> QED BY <1>1, <3>1, <3>2, AccruedNat
  <2>4. TokenSum(run.new, k) \in Nat
    BY <1>1, PlusSums
  <2>5. Harvested(P) \in Nat
    <3>1. IsFiniteSet(P) /\ \A h \in P : h.amount \in Nat
      BY <1>1, DueFacts
    <3> HIDE DEF P
    <3> QED BY <3>1, HarvestedFacts
  <2> HIDE DEF P, old, new
  <2>6. TokenSum(run.new, k) <= new + Harvested(P)
    BY <2>1, <2>2, <2>3, <2>4, <2>5
  <2> QED BY <2>1, <2>6 DEF P, new
<1> QED BY <1>2 DEF GivenOut

LEMMA LastKept == ASSUME UNCHANGED trees PROVE Last' = Last
BY DEF Last

LEMMA RunKept == ASSUME TypeOK, RunInv, [Next]_vars PROVE RunInv'
<1> USE DEF RunInv
<1>0. /\ run \in RunType /\ Ranged(run) /\ height \in Nat /\ Buffer \in Nat
  BY BlockFacts DEF TypeOK
<1>1. CASE run'.for # "proposal"
  BY <1>1
<1>2. CASE BeginProposal
  <2>1. /\ run' \in RunType /\ run'.at = 1
        /\ run'.start = Last.end + 1 /\ run'.start \in Blocks
        /\ run'.end = height - Buffer
        /\ run'.new = FromHarvests(run'.start, run'.end)
        /\ HarvestsDivide(run'.start, run'.end)
        /\ UNCHANGED <<chain, published>>
    BY <1>2, ProposalRange, BeginFacts
  <2>2. GivenOut(harvests, schedules, run')
    BY <2>1, GivenFirst
  <2>3. Last' = Last /\ height' = height /\ harvests' = harvests /\ schedules' = schedules
    BY <2>1, LastKept DEF chain, published
  <2>4. run'.end + Buffer <= height
    BY <1>0, <2>1
  <2> QED BY <2>1, <2>2, <2>3, <2>4
<1>3. CASE BeginRecomputation
  <2>1. run'.for # "proposal"
    BY <1>3, RecomputationRange, BeginFacts
  <2> QED BY <1>1, <2>1
<1>4. CASE Snapshot
  <2> DEFINE s == Order[run.at]
             boosted == BoostedIn(cache[run.end], s)
  <2>1. /\ run.at \in DOMAIN Order /\ s \in Setts /\ boosted \in Held
        /\ Last' = Last /\ height' = height /\ harvests' = harvests /\ schedules' = schedules
    BY <1>4, SnapshotFacts, LastKept DEF chain, published
  <2>2. run.start \in Blocks /\ run.end \in Blocks /\ run.start <= run.end /\ run.new \in Claims
    BY <1>0 DEF Ranged, RunType
  <2>3. run' \in RunType
    BY <1>4, TypeKept DEF TypeOK, Next
  <2>4. CASE run' = [run EXCEPT !.at = @ + 1]
    <3>1. /\ run'.for = run.for /\ run'.at = run.at + 1 /\ run'.new = run.new
          /\ run'.start = run.start /\ run'.end = run.end
      BY <1>0, <2>4 DEF RunType
    <3>2. ASSUME NEW k \in Tokens
          PROVE  LET more == TokenSum(run'.new, k) - TokenSum(run.new, k)
                 IN  more \in Nat /\ more <= TokenDistribution(Order[run.at], k, run.start, run.end)
      <4>1. TokenSum(run.new, k) \in Nat
        BY <2>2, PlusSums
      <4>2. TokenDistribution(Order[run.at], k, run.start, run.end) \in Nat
        BY <2>2, TokenDistributionIs
      <4> QED BY <3>1, <4>1, <4>2
    <3> QED BY <2>1, <2>3, <3>1, <3>2, GivenNext
  <2>5. ASSUME NEW new \in Claims, s \notin NoRewards, Divides(boosted, s, run.start, run.end),
               run' = [run EXCEPT !.at = @ + 1, !.new = Plus(@, new)],
               \A k \in Tokens : TokenSum(new, k) =
                 SumFunctionOnSet(SnapshotRewards(boosted, s, k, run.start, run.end), Accounts)
        PROVE  RunInv'
    <3>1. /\ run'.for = run.for /\ run'.at = run.at + 1 /\ run'.new = Plus(run.new, new)
          /\ run'.start = run.start /\ run'.end = run.end
      BY <1>0, <2>5 DEF RunType
    <3>2. ASSUME NEW k \in Tokens
          PROVE  LET more == TokenSum(run'.new, k) - TokenSum(run.new, k)
                 IN  more \in Nat /\ more <= TokenDistribution(Order[run.at], k, run.start, run.end)
      <4>1. /\ TokenSum(Plus(run.new, new), k) = TokenSum(run.new, k) + TokenSum(new, k)
            /\ TokenSum(run.new, k) \in Nat /\ TokenSum(new, k) \in Nat
        BY <2>2, PlusSums
      <4>2. TokenSum(new, k) <= TokenDistribution(s, k, run.start, run.end)
        <5> HIDE DEF s, boosted
        <5> QED BY <2>1, <2>2, <2>5, SnapshotFits
      <4> QED BY <3>1, <4>1, <4>2
    <3> QED BY <2>1, <2>3, <3>1, <3>2, GivenNext
  <2>6. CASE run' = Done \/ run' = Idle
    BY <1>0, <1>1, <2>6, DoneType, IdleType
  <2> HIDE DEF s, boosted
  <2> QED BY <1>4, <2>4, <2>5, <2>6, SnapshotFacts DEF s, boosted
<1>5. CASE Finish
  BY <1>0, <1>1, <1>5, FinishFacts, DoneType, IdleType
<1>6. CASE Publish
  BY <1>1, <1>6 DEF Publish
<1>7. CASE Restart
  BY <1>1, <1>7, IdleType DEF Restart
<1>8. CASE Mine
  BY <1>1, <1>8 DEF Mine
<1>9. CASE \E offer \in Offers : SetUnlockSchedule(offer)
  <2>1. PICK offer \in Offers : SetUnlockSchedule(offer)
    BY <1>9
  <2>2. /\ UNCHANGED <<height, harvests, run, trees>> /\ Last' = Last
        /\ schedules' = Append(schedules, offer)
    BY <2>1, LastKept DEF SetUnlockSchedule, published
  <2> QED BY <2>2, GivenStays
<1>10. CASE \E yield \in Yields : Harvest(yield)
  BY <1>1, <1>10 DEF Harvest
<1>11. CASE UNCHANGED vars
  BY <1>11, LastKept DEF vars, chain, published
<1> QED BY <1>2, <1>3, <1>4, <1>5, <1>6, <1>7, <1>8, <1>9, <1>10, <1>11 DEF Next

-----------------------------------------------------------------------------
(* What a tree pays *)

LEMMA UntilFacts ==
  ASSUME NEW H, IsFiniteSet(H), \A h \in H : Yielded(h), NEW k, NEW b
  PROVE  /\ IsFiniteSet(Until(H, k, b)) /\ \A h \in Until(H, k, b) : h.amount \in Nat
         /\ Harvested(Until(H, k, b)) \in Nat
<1>1. Until(H, k, b) \in SUBSET H
  BY DEF Until
<1>2. IsFiniteSet(Until(H, k, b)) /\ \A h \in Until(H, k, b) : h.amount \in Nat
  BY <1>1, FS_Subset DEF Yielded
<1> QED BY <1>2, HarvestedFacts

LEMMA WithinStays ==
  ASSUME NEW H, NEW G, H \subseteq G, IsFiniteSet(G), \A h \in G : Yielded(h),
         NEW sch \in Seq(Offers), NEW after \in Seq(Offers),
         after = sch \/ \E o \in Offers : after = Append(sch, o),
         NEW tree \in TreeType, Within(H, sch, tree)
  PROVE  Within(G, after, tree)
<1>1. tree.end \in Blocks /\ tree.claims \in Claims /\ tree.end <= tree.end
  BY DEF TreeType, Blocks
<1>2. IsFiniteSet(H) /\ \A h \in H : Yielded(h)
  BY FS_Subset
<1>3. ASSUME NEW k \in Tokens
      PROVE  TokenSum(tree.claims, k) <= ReleasedBy(after, k, tree.end) + Harvested(Until(G, k, tree.end))
  <2> DEFINE total == TokenSum(tree.claims, k)
             r == ReleasedBy(sch, k, tree.end)
             ra == ReleasedBy(after, k, tree.end)
             y == Harvested(Until(H, k, tree.end))
             ya == Harvested(Until(G, k, tree.end))
  <2>1. total <= r + y
    BY DEF Within
  <2>2. r <= ra
    <3>1. CASE after = sch
      BY <3>1, <1>1, ReleasedNat
    <3>2. ASSUME NEW o \in Offers, after = Append(sch, o) PROVE r <= ra
      BY <1>1, <3>2, OfferAdds
    <3> QED BY <3>1, <3>2
  <2>3. y <= ya
    <3>1. Until(H, k, tree.end) \in SUBSET Until(G, k, tree.end)
      BY DEF Until
    <3> QED BY <3>1, UntilFacts, HarvestedFacts
  <2>4. total \in Nat /\ r \in Nat /\ ra \in Nat /\ y \in Nat /\ ya \in Nat
    BY <1>1, <1>2, PlusSums, ReleasedNat, UntilFacts
  <2> HIDE DEF total, r, ra, y, ya
  <2>5. total <= ra + ya
    BY <2>1, <2>2, <2>3, <2>4
  <2> QED BY <2>5 DEF total, ra, ya
<1> QED BY <1>3 DEF Within

(* A harvest later than the end of a tree changes nothing about it. *)
LEMMA PaidStays ==
  ASSUME NEW H, NEW G, H \subseteq G, NEW before, NEW tree \in TreeType,
         \A h \in G \ H : h.block \in Nat /\ h.block > tree.end,
         Paid(H, before, tree)
  PROVE  Paid(G, before, tree)
<1>1. tree.end \in Nat /\ tree.start \in Nat
  BY ComputationAssumption DEF TreeType, Blocks
<1>2. ASSUME NEW k \in Tokens PROVE Inside(G, k, tree) = Inside(H, k, tree)
  <2>1. \A h \in G \ H : h.block \notin tree.start..tree.end
    BY <1>1
  <2> QED BY <2>1 DEF Inside
<1> QED BY <1>2 DEF Paid

(* The tree of a run that is through *)
LEMMA ComputedPays ==
  ASSUME TypeOK, RunInv, TreeInv, run.for = "proposal"
  PROVE  /\ Within(harvests, schedules, Computed) /\ Paid(harvests, Last, Computed)
         /\ Computed.end + Buffer <= height
<1>1. /\ run.start = Last.end + 1 /\ run.end + Buffer <= height /\ GivenOut(harvests, schedules, run)
      /\ Within(harvests, schedules, Last)
  BY DEF RunInv, TreeInv
<1>2. /\ run.start \in Blocks /\ run.end \in Blocks /\ run.start <= run.end /\ run.new \in Claims
      /\ run.at \in Nat /\ Last.claims \in Claims /\ Last.end \in Blocks
      /\ run.start \in Nat /\ run.end \in Nat /\ Last.end \in Nat
  <2>1. run.start \in Blocks /\ run.end \in Blocks /\ run.start <= run.end /\ run.new \in Claims
    BY DEF TypeOK, RunType, Ranged
  <2>2. run.at \in Nat
    BY ComputationAssumption DEF TypeOK, RunType
  <2>3. Last.claims \in Claims /\ Last.end \in Blocks
    BY LastType DEF TreeType
  <2> QED BY <2>1, <2>2, <2>3, BlockFacts
<1>3. /\ Computed.end = run.end /\ Computed.start = run.start
      /\ Computed.claims = Plus(Last.claims, run.new)
  BY DEF Computed
<1>4. IsFiniteSet(harvests) /\ \A h \in harvests : Yielded(h)
  BY DEF TypeOK
<1>5. \A h \in harvests : h.block \in Nat /\ h.kind \in {"tree", "sushi"}
  BY <1>4, BlockFacts DEF Yielded
<1>6. ASSUME NEW k \in Tokens
      PROVE  /\ TokenSum(Computed.claims, k)
                  <= ReleasedBy(schedules, k, run.end) + Harvested(Until(harvests, k, run.end))
             /\ TokenSum(Computed.claims, k) - TokenSum(Last.claims, k)
                  > Owed(Inside(harvests, k, Computed)) - 1
  <2> DEFINE P == Due(harvests, k, run.start, run.end)
             T == Until(harvests, k, run.end)
             S == Until(harvests, k, Last.end)
             acc == Accrued(schedules, Slots(schedules, run.at, k), run.start, run.end)
             new == TokenSum(run.new, k)
             last == TokenSum(Last.claims, k)
             rl == ReleasedBy(schedules, k, Last.end)
             re == ReleasedBy(schedules, k, run.end)
  <2>1. Owed(P) <= new /\ new <= acc + Harvested(P)
    BY <1>1 DEF GivenOut
  <2>2. last <= rl + Harvested(S)
    BY <1>1 DEF Within
  <2>3. TokenSum(Computed.claims, k) = last + new /\ last \in Nat /\ new \in Nat
    BY <1>2, <1>3, PlusSums
  <2>4. rl + acc <= re
    <3>1. Last.end <= run.start
      BY <1>1, <1>2
    <3> QED BY <1>2, <3>1, RangeFits DEF TypeOK
  <2>5. Harvested(S) + Harvested(P) <= Harvested(T)
    <3>1. IsFiniteSet(T) /\ \A h \in T : h.amount \in Nat
      BY <1>4, UntilFacts
    <3>2. S \in SUBSET T /\ P \in SUBSET T \ S
      BY <1>1, <1>2, <1>5 DEF Until, Due
    <3>3. IsFiniteSet(T \ S) /\ \A h \in T \ S : h.amount \in Nat
      BY <3>1, FS_Subset
    <3> HIDE DEF S, T, P
    <3>4. Harvested(T) = Harvested(S) + Harvested(T \ S) /\ Harvested(S) \in Nat
      BY <3>1, <3>2, HarvestedFacts
    <3>5. Harvested(P) \in Nat /\ Harvested(P) <= Harvested(T \ S) /\ Harvested(T \ S) \in Nat
      BY <3>2, <3>3, HarvestedFacts
    <3> QED BY <3>4, <3>5
  <2>6. rl \in Nat /\ re \in Nat /\ acc \in Nat /\ Harvested(S) \in Nat /\ Harvested(T) \in Nat
        /\ Harvested(P) \in Nat
    <3>1. Slots(schedules, run.at, k) \in SUBSET DOMAIN schedules /\ schedules \in Seq(Offers)
      BY DEF Slots, For, TypeOK
    <3>2. rl \in Nat /\ re \in Nat /\ acc \in Nat
      BY <1>2, <3>1, ReleasedNat, AccruedNat
    <3>3. Harvested(S) \in Nat /\ Harvested(T) \in Nat
      BY <1>4, UntilFacts
    <3>4. IsFiniteSet(P) /\ \A h \in P : h.amount \in Nat
      BY <1>2, DueFacts
    <3> HIDE DEF P, S, T
    <3>5. Harvested(P) \in Nat
      BY <3>4, HarvestedFacts
    <3> QED BY <3>2, <3>3, <3>5
  <2>7. Inside(harvests, k, Computed) = P
    BY <1>2, <1>3, <1>5 DEF Inside, AtABoundary, Due
  <2>8. Owed(P) \in Int
    <3> DEFINE least == [h \in P |-> h.amount - Cardinality(Accounts)]
    <3>1. IsFiniteSet(P) /\ \A h \in P : h.amount \in Nat
      BY <1>2, DueFacts
    <3>2. \A h \in P : least[h] \in Int
      BY <3>1, AccountsFinite, FS_CardinalityType
    <3> HIDE DEF P, least
    <3> QED BY <3>1, <3>2, SumType DEF Owed, least
  <2> HIDE DEF P, S, T, acc, new, last, rl, re
  <2>9. last + new <= re + Harvested(T) /\ (last + new) - last > Owed(P) - 1
    BY <2>1, <2>2, <2>3, <2>4, <2>5, <2>6, <2>8
  <2> QED BY <2>3, <2>7, <2>9 DEF last, re, T
<1> QED BY <1>1, <1>3, <1>6 DEF Within, Paid

LEMMA TreeKept == ASSUME TypeOK, RunInv, TreeInv, [Next]_vars PROVE TreeInv'
<1> USE DEF TreeInv
<1>0. /\ Last \in TreeType /\ pending \in TreeType /\ schedules \in Seq(Offers)
      /\ IsFiniteSet(harvests) /\ \A h \in harvests : Yielded(h)
      /\ height \in Nat /\ Buffer \in Nat /\ Buffer >= 1 /\ Len(trees) \in Nat
  BY LastType, BlockFacts DEF TypeOK
<1>1. CASE UNCHANGED <<chain, published>>
  <2>1. UNCHANGED <<height, schedules, harvests, pending, trees>> /\ Last' = Last
    BY <1>1, LastKept DEF chain, published
  <2> QED BY <2>1
<1>2. CASE BeginProposal
  BY <1>1, <1>2, ProposalRange, BeginFacts
<1>3. CASE BeginRecomputation
  BY <1>1, <1>3, RecomputationRange, BeginFacts
<1>4. CASE Snapshot
  BY <1>1, <1>4, SnapshotFacts
<1>5. CASE Finish
  <2>1. UNCHANGED <<height, schedules, harvests, trees>> /\ Last' = Last
    BY <1>5, FinishFacts, LastKept DEF chain
  <2>2. CASE pending' = pending
    BY <2>1, <2>2
  <2>3. CASE run.for = "proposal" /\ pending' = Computed
    BY <2>1, <2>3, ComputedPays
  <2> QED BY <1>5, <2>2, <2>3, FinishFacts
<1>6. CASE Publish
  <2>1. /\ pending.cycle = Len(trees) + 1 /\ trees' = Append(trees, pending)
        /\ UNCHANGED <<height, schedules, harvests, pending>>
    BY <1>6 DEF Publish, chain
  <2>2. Last' = pending /\ Len(trees') = Len(trees) + 1
    BY <1>0, <2>1 DEF Last, TypeOK
  <2>3. pending'.cycle # Len(trees') + 1
    BY <1>0, <2>1, <2>2
  <2> QED BY <2>1, <2>2, <2>3
<1>7. CASE Restart
  BY <1>1, <1>7 DEF Restart
<1>8. CASE Mine
  <2>1. /\ height' = height + 1 /\ UNCHANGED <<schedules, harvests, pending, trees>> /\ Last' = Last
    BY <1>8, LastKept DEF Mine, published
  <2>2. pending.end \in Nat
    BY <1>0, BlockFacts DEF TreeType
  <2> QED BY <1>0, <2>1, <2>2
<1>9. CASE \E offer \in Offers : SetUnlockSchedule(offer)
  <2>1. PICK offer \in Offers : SetUnlockSchedule(offer)
    BY <1>9
  <2>2. /\ UNCHANGED <<height, harvests, pending, trees>> /\ Last' = Last
        /\ schedules' = Append(schedules, offer) /\ schedules' \in Seq(Offers)
    BY <1>0, <2>1, LastKept DEF SetUnlockSchedule, published
  <2> QED BY <1>0, <2>2, WithinStays
<1>10. CASE \E yield \in Yields : Harvest(yield)
  <2>1. PICK yield \in Yields : Harvest(yield)
    BY <1>10
  <2>2. /\ UNCHANGED <<height, schedules, pending, trees>> /\ Last' = Last
    BY <2>1, LastKept DEF Harvest, published
  <2>3. /\ harvests \subseteq harvests' /\ IsFiniteSet(harvests')
        /\ \A h \in harvests' : Yielded(h)
        /\ \A h \in harvests' \ harvests : h.block = height
    BY <2>1, HarvestAdds
  <2>4. pending.end \in Nat
    BY <1>0, BlockFacts DEF TreeType
  <2>5. /\ Within(harvests', schedules, Last)
        /\ Within(harvests, schedules, pending) => Within(harvests', schedules, pending)
    BY <1>0, <2>3, WithinStays
  <2>6. pending.end + Buffer <= height /\ Paid(harvests, Last, pending) => Paid(harvests', Last, pending)
    <3> SUFFICES ASSUME pending.end + Buffer <= height, Paid(harvests, Last, pending)
                 PROVE  Paid(harvests', Last, pending)
      OBVIOUS
    <3>1. height > pending.end
      BY <1>0, <2>4
    <3> QED BY <1>0, <2>3, <3>1, PaidStays
  <2> QED BY <2>2, <2>5, <2>6
<1>11. CASE UNCHANGED vars
  BY <1>1, <1>11 DEF vars
<1> QED BY <1>2, <1>3, <1>4, <1>5, <1>6, <1>7, <1>8, <1>9, <1>10, <1>11 DEF Next

-----------------------------------------------------------------------------
(* Theorems *)

LEMMA Initially == ASSUME Init PROVE IInv
<1>1. TypeOK
  BY TypeInit
<1>2. run.for = "nothing"
  BY IdleType DEF Init
<1>3. Fresh /\ BoostInv /\ RunInv
  BY <1>2 DEF Init, Fresh, BoostInv, RunInv
<1>4. Last = Genesis /\ pending.cycle = 0 /\ Len(trees) = 1
  BY DEF Init, Last, NoTree, Genesis
<1>5. Within(harvests, schedules, Last)
  <2>1. ASSUME NEW k \in Tokens
        PROVE  TokenSum(Genesis.claims, k)
                 <= ReleasedBy(schedules, k, 0) + Harvested(Until(harvests, k, 0))
    <3>1. TokenSum(Genesis.claims, k) = 0
      <4> DEFINE f == [u \in Accounts |-> Genesis.claims[u][k]]
      <4>1. \A u \in Accounts : f[u] = 0
        BY DEF Genesis, NoClaims
      <4> HIDE DEF f
      <4> QED BY <4>1, AccountsFinite, SumOfZeros DEF f, TokenSum
    <3>2. ReleasedBy(schedules, k, 0) \in Nat /\ Harvested(Until(harvests, k, 0)) \in Nat
      BY <1>1, BlockFacts, ReleasedNat, UntilFacts DEF TypeOK
    <3> QED BY <3>1, <3>2
  <2> QED BY <1>4, <2>1 DEF Within, Genesis
<1> QED BY <1>1, <1>3, <1>4, <1>5 DEF IInv, TreeInv

LEMMA Inductive == ASSUME IInv, [Next]_vars PROVE IInv'
BY TypeKept, FreshKept, BoostKept, RunKept, TreeKept DEF IInv

(* The types, the balances as fetched of the blocks that are still to come, *)
(* and what is owed and released for the run under way and for the last two *)
(* trees hold of every state (boost.py:107-136, calc_snapshot.py:60-127,    *)
(* tree_rewards.py:42-73, scripts/rewards/rewards_utils.py:52-66).          *)
THEOREM AlwaysInv == Spec => []IInv
<1>1. Init => IInv
  BY Initially
<1>2. IInv /\ [Next]_vars => IInv'
  BY Inductive
<1> QED BY <1>1, <1>2, PTL DEF Spec

(* The boost of a proposal never favours an account with less Badger and    *)
(* DIGG for each dollar elsewhere, and lies between one and MAX_BOOST       *)
(* (boost.py:43-50, 132-136).                                               *)
THEOREM BoostAlwaysFollows == Spec => []BoostFollowsStake
<1>1. IInv => BoostFollowsStake
  <2> SUFFICES ASSUME IInv, run.for = "proposal"
               PROVE  LET worth == Worths([scale |-> 1, of |-> balances[run.end]])
                      IN  \A u, v \in Accounts :
                            /\ run.boost[u] \in run.one..MaxBoost * run.one
                            /\ HigherStake(worth, u, v) => run.boost[u] >= run.boost[v]
    BY DEF BoostFollowsStake
  <2> DEFINE held == Fetched[run.end]
             worth == Worths(held)
  <2>1. run.end \in Blocks /\ Fetched \in [Blocks -> Held]
    BY FetchedType DEF IInv, TypeOK, RunType
  <2>2. held = [scale |-> 1, of |-> balances[run.end]]
    BY <2>1 DEF Fetched
  <2>3. worth \in Worth
    BY <2>1, WorthsType
  <2>4. run.one = One(worth) /\ run.boost = Boosts(worth)
    BY DEF IInv, BoostInv
  <2> HIDE DEF worth
  <2>5. One(worth) \in Nat /\ MaxBoost * One(worth) \in Nat
    BY <2>3, OneType, MulNat, ComputationAssumption
  <2>6. \A u \in Accounts : Boosts(worth)[u] \in One(worth)..MaxBoost * One(worth)
    BY <2>3, <2>5, BoostsAre
  <2>7. \A u, v \in Accounts : HigherStake(worth, u, v) => Boosts(worth)[u] >= Boosts(worth)[v]
    BY <2>3, HigherStakeBoosts
  <2> QED BY <2>2, <2>4, <2>6, <2>7 DEF worth
<1> QED BY <1>1, AlwaysInv, PTL

(* The properties are about the schedules and harvests as they are. *)
LEMMA WithinIs == \A tree : WithinReleased(tree) = Within(harvests, schedules, tree)
BY DEF WithinReleased, Within, TokenTotal, TokenSum, Total, ReleasedBy, For, Harvested, Until

LEMMA PaidIs ==
  \A before, tree : HarvestsPaid(before, tree) = Paid(harvests, before, tree)
BY DEF HarvestsPaid, Paid, TokenTotal, TokenSum, Total, Owed, Inside

(* Whatever is published keeps within what the schedules have released by   *)
(* its last block and what was harvested until then: no range is paid twice *)
(* and a boost is not paid out of nothing (calc_snapshot.py:60-127,         *)
(* tree_rewards.py:42-73).                                                  *)
THEOREM AlwaysWithinReleased == Spec => PaidWithinReleased
<1>1. IInv /\ [Next]_vars => [Publish => WithinReleased(pending)]_vars
  <2> SUFFICES ASSUME IInv, Publish PROVE WithinReleased(pending)
    OBVIOUS
  <2>1. Within(harvests, schedules, pending)
    BY DEF IInv, TreeInv, Publish
  <2> QED BY <2>1, WithinIs
<1> QED BY <1>1, AlwaysInv, PTL DEF Spec, PaidWithinReleased

(* What was harvested in a range is paid when its tree is published, all    *)
(* but the rounding and the blocks at the boundaries of the range           *)
(* (calc_meta_rewards.py:13, subgraph/client.py:57).                        *)
THEOREM HarvestsAlwaysPaid == Spec => HarvestsArePaid
<1>1. IInv /\ [Next]_vars => [Publish => HarvestsPaid(Last, pending)]_vars
  <2> SUFFICES ASSUME IInv, Publish PROVE HarvestsPaid(Last, pending)
    OBVIOUS
  <2>1. Paid(harvests, Last, pending)
    BY DEF IInv, TreeInv, Publish
  <2> QED BY <2>1, PaidIs
<1> QED BY <1>1, AlwaysInv, PTL DEF Spec, HarvestsArePaid
=============================================================================
