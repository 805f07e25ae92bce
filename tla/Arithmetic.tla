------------------------------ MODULE Arithmetic ------------------------------
(***************************************************************************)
(* Facts that the proofs cite: about floor division and pro-rata parts,    *)
(* about the sums of module Functions over a finite set, and about what is *)
(* folded along a sequence.                                                *)
(***************************************************************************)
EXTENDS Integers, Sequences, Functions, FiniteSetTheorems, WellFoundedInduction, TLAPS

-----------------------------------------------------------------------------
(* Parts *)

(* What Solidity's a.div(c) returns for c > 0. *)
LEMMA FloorBounds ==
  ASSUME NEW a \in Nat, NEW c \in Nat, c > 0
  PROVE  /\ a \div c \in Nat
         /\ (a \div c) * c <= a
         /\ a < (a \div c) * c + c
  OBVIOUS

LEMMA MulNat == ASSUME NEW a \in Nat, NEW b \in Nat PROVE a * b \in Nat
  OBVIOUS

LEMMA MulMono ==
  ASSUME NEW a \in Int, NEW b \in Int, NEW c \in Nat, a <= b
  PROVE  a * c <= b * c /\ c * a <= c * b
  OBVIOUS

LEMMA MulCancel ==
  ASSUME NEW a \in Int, NEW b \in Int, NEW c \in Nat, c > 0, a * c <= b * c
  PROVE  a <= b
  OBVIOUS

(* What fits c times into a is at most the quotient, and what a fits into   *)
(* c times is at least it.                                                  *)
LEMMA FloorAtLeast ==
  ASSUME NEW a \in Nat, NEW c \in Nat, c > 0, NEW k \in Int, k * c <= a
  PROVE  k <= a \div c
<1>. DEFINE q == a \div c
<1>1. q \in Nat /\ a < q * c + c
  BY FloorBounds
<1>. HIDE DEF q
<1>2. (q + 1) * c = q * c + c /\ q * c \in Nat
  BY <1>1, MulNat
<1>3. ~(q + 1 <= k)
  BY <1>1, <1>2, MulMono
<1>. QED
  BY <1>1, <1>3 DEF q

LEMMA FloorAtMost ==
  ASSUME NEW a \in Nat, NEW c \in Nat, c > 0, NEW k \in Int, a <= k * c
  PROVE  a \div c <= k
<1>. DEFINE q == a \div c
<1>1. q \in Nat /\ q * c <= a
  BY FloorBounds
<1>. HIDE DEF q
<1>2. q * c <= k * c
  BY <1>1
<1>. QED
  BY <1>1, <1>2, MulCancel DEF q

LEMMA FloorMono ==
  ASSUME NEW a \in Nat, NEW b \in Nat, NEW c \in Nat, c > 0, a <= b
  PROVE  a \div c <= b \div c
BY FloorBounds, FloorAtLeast

(* The quotient is the one number with this property. *)
LEMMA FloorUnique ==
  ASSUME NEW a \in Nat, NEW c \in Nat, c > 0, NEW q \in Int, q * c <= a, a < q * c + c
  PROVE  a \div c = q
<1>. DEFINE d == a \div c
<1>1. d \in Nat /\ d * c <= a /\ a < d * c + c
  BY FloorBounds
<1>. HIDE DEF d
<1>2. q * c \in Int /\ d * c \in Int
  BY <1>1
<1>3. (d + 1) * c = d * c + c /\ (q + 1) * c = q * c + c
  BY <1>1
<1>4. ~(d + 1 <= q)
  <2>1. ASSUME d + 1 <= q PROVE FALSE
    <3>1. (d + 1) * c <= q * c
      BY <1>1, <2>1, MulMono
    <3>. QED
      BY <1>1, <1>2, <1>3, <3>1
  <2>. QED
    BY <2>1
<1>5. ~(q + 1 <= d)
  <2>1. ASSUME q + 1 <= d PROVE FALSE
    <3>1. (q + 1) * c <= d * c
      BY <1>1, <2>1, MulMono
    <3>. QED
      BY <1>1, <1>2, <1>3, <3>1
  <2>. QED
    BY <2>1
<1>6. d = q
  BY <1>1, <1>4, <1>5
<1>. QED
  BY <1>6 DEF d

(* Whole fragments added or taken leave the dust alone. *)
LEMMA FloorShift ==
  ASSUME NEW a \in Nat, NEW c \in Nat, c > 0, NEW v \in Int, a + v * c >= 0
  PROVE  (a + v * c) \div c = a \div c + v
<1>. DEFINE d == a \div c
<1>1. d \in Nat /\ d * c <= a /\ a < d * c + c
  BY FloorBounds
<1>. HIDE DEF d
<1>2. (d + v) * c = d * c + v * c
  BY <1>1
<1>3. d * c \in Int /\ v * c \in Int /\ a + v * c \in Nat /\ d + v \in Int
  BY <1>1
<1>4. (d + v) * c <= a + v * c /\ a + v * c < (d + v) * c + c
  BY <1>1, <1>2, <1>3
<1>5. (a + v * c) \div c = d + v
  BY <1>3, <1>4, FloorUnique
<1>. QED
  BY <1>5 DEF d

LEMMA FloorUnshift ==
  ASSUME NEW a \in Nat, NEW c \in Nat, c > 0, NEW v \in Nat, v * c <= a
  PROVE  (a - v * c) \div c = a \div c - v
<1>. DEFINE w == -v
<1>1. w \in Int /\ w * c = -(v * c) /\ v * c \in Nat
  BY MulNat
<1>2. a + w * c = a - v * c /\ a - v * c \in Nat
  BY <1>1
<1>3. a \div c \in Nat /\ a \div c + w = a \div c - v
  BY FloorBounds
<1>. HIDE DEF w
<1>4. (a + w * c) \div c = a \div c + w
  BY <1>1, <1>2, FloorShift
<1>. QED
  BY <1>2, <1>3, <1>4

(* Whole parts of two amounts are found again in their sum. *)
LEMMA FloorOfSum ==
  ASSUME NEW a \in Nat, NEW b \in Nat, NEW c \in Nat, c > 0
  PROVE  a \div c + b \div c <= (a + b) \div c
<1>. DEFINE qa == a \div c
            qb == b \div c
            q  == (a + b) \div c
<1>1. qa \in Nat /\ qa * c <= a /\ qb \in Nat /\ qb * c <= b
  BY FloorBounds
<1>2. a + b \in Nat
  OBVIOUS
<1>3. q \in Nat /\ a + b < q * c + c
  BY <1>2, FloorBounds
<1>. HIDE DEF qa, qb, q
<1>4. ~(q + 1 <= qa + qb)
  <2>1. ASSUME q + 1 <= qa + qb PROVE FALSE
    <3>1. (q + 1) * c <= (qa + qb) * c
      BY <1>1, <1>3, <2>1, MulMono
    <3>2. (q + 1) * c = q * c + c /\ (qa + qb) * c = qa * c + qb * c
      BY <1>1, <1>3
    <3>3. q * c \in Int /\ qa * c \in Int /\ qb * c \in Int
      BY <1>1, <1>3
    <3>. QED
      BY <1>1, <1>3, <3>1, <3>2, <3>3
  <2>. QED
    BY <2>1
<1>5. qa + qb <= q
  BY <1>1, <1>3, <1>4
<1>. QED
  BY <1>5 DEF qa, qb, q

(* A fee of f parts in m of an amount is at most the amount. *)
LEMMA PartAtMostWhole ==
  ASSUME NEW a \in Nat, NEW f \in Nat, NEW m \in Nat, m > 0, f <= m
  PROVE  (a * f) \div m \in Nat /\ (a * f) \div m <= a
<1>1. a * f \in Nat
  BY MulNat
<1>2. a * f <= a * m
  BY MulMono
<1>3. (a * f) \div m \in Nat /\ ((a * f) \div m) * m <= a * f
  BY <1>1, FloorBounds
<1>4. ((a * f) \div m) * m <= a * m
  <2>1. ((a * f) \div m) * m \in Int /\ a * m \in Int /\ a * f \in Int
    BY <1>1, <1>3
  <2> QED BY <2>1, <1>2, <1>3
<1> QED BY <1>3, <1>4, MulCancel

(* n shares out of s are entitled to at most the whole pot p, and what is   *)
(* left backs the s - n shares that stay if the pot backed all s before.    *)
LEMMA RedeemedPart ==
  ASSUME NEW p \in Nat, NEW s \in Nat, NEW n \in Nat, NEW a \in Nat,
         s > 0, n <= s, a * s <= n * p
  PROVE  /\ a <= p
         /\ s <= p => s - n <= p - a
<1>1. n * p <= s * p
  BY MulMono
<1>2. a * s <= p * s
  <2>1. a * s \in Int /\ n * p \in Int /\ s * p \in Int /\ s * p = p * s
    OBVIOUS
  <2> QED BY <2>1, <1>1
<1>3. a <= p
  BY <1>2, MulCancel
<1>4. ASSUME s <= p PROVE s - n <= p - a
  <2> DEFINE d == p - s
  <2>1. d \in Nat
    BY <1>4
  <2>2. n * p = n * s + n * d
    <3>1. p = s + d
      BY <1>4
    <3> QED BY <3>1, <2>1
  <2>3. n * d <= s * d
    BY <2>1, MulMono
  <2>4. (a - n) * s <= d * s
    <3>1. (a - n) * s = a * s - n * s
      OBVIOUS
    <3>2. d * s = s * d
      BY <2>1
    <3>3. a * s \in Int /\ n * s \in Int /\ n * d \in Int /\ s * d \in Int /\ n * p \in Int
      BY <2>1
    <3> HIDE DEF d
    <3> QED BY <2>2, <2>3, <3>1, <3>2, <3>3
  <2>5. a - n <= d
    BY <2>4, <2>1, MulCancel
  <2> QED BY <2>5
<1> QED BY <1>3, <1>4

-----------------------------------------------------------------------------
(* Sums.  The induction is over the subsets of a finite set: of those of   *)
(* which a fact is false, one would be the least.                          *)

(* Any one element of a non-empty set. *)
First(s) == CHOOSE x \in s : TRUE

(* g is the function that the definition of a sum over S recurses on. *)
SumsUp(g, f, S) ==
  g = [s \in SUBSET S |-> IF s = {} THEN 0 ELSE f[First(s)] + g[s \ {First(s)}]]

LEMMA SumIsChosen ==
  ASSUME NEW f, NEW S
  PROVE  SumFunctionOnSet(f, S) = (CHOOSE g : SumsUp(g, f, S))[S]
  BY DEF SumFunctionOnSet, FoldFunctionOnSet, MapThenFoldSet, SumsUp, First

(* A set of subsets of a finite set that is not empty has a least one:      *)
(* the induction of the lemmas below.                                       *)
LEMMA LeastSubset ==
  ASSUME NEW S, IsFiniteSet(S), NEW T \in SUBSET SUBSET S, T # {}
  PROVE  \E x \in T : \A y \in T : y \subseteq x => y = x
<1>1. FiniteSubsetsOf(S) = SUBSET S
  BY FS_FiniteSubsetsOfFinite
<1>2. IsWellFoundedOn(StrictSubsetOrdering(S), SUBSET S)
  BY <1>1, FS_StrictSubsetOrderingWellFounded
<1>3. PICK x \in T : \A y \in T : ~(<<y, x>> \in StrictSubsetOrdering(S))
  BY <1>2, WFMin
<1>4. ASSUME NEW y \in T, y \subseteq x PROVE y = x
  BY <1>3, <1>4 DEF StrictSubsetOrdering
<1> QED BY <1>4

(* The recursion has one solution on every subset. *)
LEMMA SumsUpUnique ==
  ASSUME NEW S, IsFiniteSet(S), NEW f, NEW U \in SUBSET S, NEW g, NEW h,
         SumsUp(g, f, S), SumsUp(h, f, U)
  PROVE  \A s \in SUBSET U : g[s] = h[s]
<1> DEFINE T == {s \in SUBSET U : g[s] # h[s]}
<1> SUFFICES ASSUME T # {} PROVE FALSE
  OBVIOUS
<1>1. T \in SUBSET SUBSET S
  OBVIOUS
<1>2. PICK x \in T : \A y \in T : y \subseteq x => y = x
  <2> HIDE DEF T
  <2> QED BY <1>1, LeastSubset
<1>3. g[x] = IF x = {} THEN 0 ELSE f[First(x)] + g[x \ {First(x)}]
  BY <1>1 DEF SumsUp
<1>4. h[x] = IF x = {} THEN 0 ELSE f[First(x)] + h[x \ {First(x)}]
  BY DEF SumsUp
<1>5. x # {}
  BY <1>3, <1>4
<1>6. First(x) \in x
  BY <1>5 DEF First
<1>7. x \ {First(x)} \notin T
  BY <1>2, <1>6
<1>8. g[x \ {First(x)}] = h[x \ {First(x)}]
  BY <1>7
<1> QED BY <1>3, <1>4, <1>5, <1>8

LEMMA SumsUpExists ==
  ASSUME NEW S, IsFiniteSet(S), NEW f
  PROVE  \E g : SumsUp(g, f, S)
<1> DEFINE T == {U \in SUBSET S : ~\E g : SumsUp(g, f, U)}
<1> SUFFICES ASSUME T # {} PROVE FALSE
  OBVIOUS
<1>1. PICK U \in T : \A y \in T : y \subseteq U => y = U
  <2>1. T \in SUBSET SUBSET S
    OBVIOUS
  <2> HIDE DEF T
  <2> QED BY <2>1, LeastSubset
<1> DEFINE sol(s) == CHOOSE g : SumsUp(g, f, s)
<1>2. ASSUME NEW s \in SUBSET U, s # U PROVE SumsUp(sol(s), f, s)
  <2>1. s \notin T
    BY <1>1, <1>2
  <2> QED BY <2>1
<1> DEFINE below(s) == IF s = {} THEN 0 ELSE f[First(s)] + sol(s \ {First(s)})[s \ {First(s)}]
           g == [s \in SUBSET U |-> below(s)]
<1>3. ASSUME NEW s \in SUBSET U, s # U
      PROVE  sol(s)[s] = below(s)
  <2>1. CASE s = {}
    <3>1. SumsUp(sol(s), f, s)
      BY <1>2, <1>3
    <3> HIDE DEF sol
    <3> QED BY <2>1, <3>1 DEF SumsUp
  <2>2. CASE s # {}
    <3> DEFINE r == s \ {First(s)}
    <3>1. First(s) \in s
      BY <2>2 DEF First
    <3>2. r \in SUBSET s /\ r \in SUBSET U /\ r # U
      BY <3>1
    <3>3. SumsUp(sol(s), f, s) /\ SumsUp(sol(r), f, r)
      BY <1>2, <1>3, <3>2
    <3>4. IsFiniteSet(s)
      BY FS_Subset
    <3> HIDE DEF sol, r
    <3>5. sol(s)[r] = sol(r)[r]
      BY <3>2, <3>3, <3>4, SumsUpUnique
    <3>6. sol(s)[s] = f[First(s)] + sol(s)[r]
      BY <3>3, <2>2 DEF SumsUp, r
    <3> QED BY <3>5, <3>6, <2>2 DEF r
  <2> QED BY <2>1, <2>2
<1>4. ASSUME NEW s \in SUBSET U
      PROVE g[s] = IF s = {} THEN 0 ELSE f[First(s)] + g[s \ {First(s)}]
  <2>1. CASE s = {}
    BY <2>1
  <2>2. CASE s # {}
    <3> DEFINE r == s \ {First(s)}
    <3>1. First(s) \in s
      BY <2>2 DEF First
    <3>2. r \in SUBSET U /\ r # U
      BY <3>1
    <3>3. sol(r)[r] = below(r)
      BY <3>2, <1>3
    <3>4. g[r] = below(r) /\ g[s] = below(s)
      BY <3>2
    <3> HIDE DEF sol, g
    <3> QED BY <3>3, <3>4, <2>2
  <2> QED BY <2>1, <2>2
<1>5. SumsUp(g, f, U)
  <2> HIDE DEF below
  <2>1. g = [s \in SUBSET U |-> g[s]]
    OBVIOUS
  <2> HIDE DEF g
  <2> QED BY <1>4, <2>1 DEF SumsUp
<1> QED BY <1>5

(* What the sum is: nothing for no index, else one value and the sum of     *)
(* the others.                                                              *)
LEMMA SumOfNone == ASSUME NEW f PROVE SumFunctionOnSet(f, {}) = 0
<1>1. IsFiniteSet({})
  BY FS_EmptySet
<1>2. SumsUp(CHOOSE g : SumsUp(g, f, {}), f, {})
  BY <1>1, SumsUpExists
<1> DEFINE g == CHOOSE g : SumsUp(g, f, {})
<1>3. SumFunctionOnSet(f, {}) = g[{}]
  BY SumIsChosen
<1> HIDE DEF g
<1>4. SumsUp(g, f, {})
  BY <1>2 DEF g
<1> QED BY <1>3, <1>4 DEF SumsUp

LEMMA SumOfFirst ==
  ASSUME NEW S, IsFiniteSet(S), NEW f, S # {}
  PROVE  SumFunctionOnSet(f, S) = f[First(S)] + SumFunctionOnSet(f, S \ {First(S)})
<1> DEFINE sol(s) == CHOOSE g : SumsUp(g, f, s)
           r == S \ {First(S)}
<1>1. r \in SUBSET S /\ IsFiniteSet(r)
  BY FS_Subset
<1>2. SumsUp(sol(S), f, S) /\ SumsUp(sol(r), f, r)
  BY <1>1, SumsUpExists
<1>3. SumFunctionOnSet(f, S) = sol(S)[S] /\ SumFunctionOnSet(f, r) = sol(r)[r]
  BY SumIsChosen
<1> HIDE DEF sol, r
<1>4. sol(S)[r] = sol(r)[r]
  BY <1>1, <1>2, SumsUpUnique
<1>5. sol(S)[S] = f[First(S)] + sol(S)[r]
  BY <1>2 DEF SumsUp, r
<1> QED BY <1>3, <1>4, <1>5 DEF r

LEMMA SumType ==
  ASSUME NEW S, IsFiniteSet(S), NEW f, \A x \in S : f[x] \in Int
  PROVE  /\ SumFunctionOnSet(f, S) \in Int
         /\ (\A x \in S : f[x] >= 0) => SumFunctionOnSet(f, S) >= 0
<1> DEFINE Good(U) == /\ SumFunctionOnSet(f, U) \in Int
                      /\ (\A x \in U : f[x] >= 0) => SumFunctionOnSet(f, U) >= 0
           T == {U \in SUBSET S : ~Good(U)}
<1> SUFFICES ASSUME T # {} PROVE FALSE
  OBVIOUS
<1>1. PICK U \in T : \A y \in T : y \subseteq U => y = U
  <2>1. T \in SUBSET SUBSET S
    OBVIOUS
  <2> HIDE DEF T
  <2> QED BY <2>1, LeastSubset
<1>2. U # {}
  BY SumOfNone
<1>3. First(U) \in U /\ IsFiniteSet(U)
  BY <1>2, FS_Subset DEF First
<1>4. Good(U \ {First(U)})
  BY <1>1, <1>3
<1>5. SumFunctionOnSet(f, U) = f[First(U)] + SumFunctionOnSet(f, U \ {First(U)})
  BY <1>2, <1>3, SumOfFirst
<1> QED BY <1>3, <1>4, <1>5

(* The order of the terms does not matter. *)
LEMMA SumWithout ==
  ASSUME NEW S, IsFiniteSet(S), NEW f, \A x \in S : f[x] \in Int, NEW a \in S
  PROVE  SumFunctionOnSet(f, S) = f[a] + SumFunctionOnSet(f, S \ {a})
<1> DEFINE Good(U) == \A x \in U : SumFunctionOnSet(f, U) = f[x] + SumFunctionOnSet(f, U \ {x})
           T == {U \in SUBSET S : ~Good(U)}
<1> SUFFICES ASSUME T # {} PROVE FALSE
  OBVIOUS
<1>1. PICK U \in T : \A y \in T : y \subseteq U => y = U
  <2>1. T \in SUBSET SUBSET S
    OBVIOUS
  <2> HIDE DEF T
  <2> QED BY <2>1, LeastSubset
<1>2. PICK x \in U : SumFunctionOnSet(f, U) # f[x] + SumFunctionOnSet(f, U \ {x})
  OBVIOUS
<1> DEFINE c == First(U)
<1>3. c \in U /\ IsFiniteSet(U)
  BY <1>2, FS_Subset DEF First
<1>4. SumFunctionOnSet(f, U) = f[c] + SumFunctionOnSet(f, U \ {c})
  BY <1>3, SumOfFirst
<1> HIDE DEF c
<1>5. c # x
  BY <1>2, <1>4
<1>6. Good(U \ {c}) /\ Good(U \ {x})
  BY <1>1, <1>3
<1> DEFINE rest == U \ {c, x}
<1>7. (U \ {c}) \ {x} = rest /\ (U \ {x}) \ {c} = rest
  OBVIOUS
<1>8. /\ SumFunctionOnSet(f, U \ {c}) = f[x] + SumFunctionOnSet(f, rest)
      /\ SumFunctionOnSet(f, U \ {x}) = f[c] + SumFunctionOnSet(f, rest)
  BY <1>3, <1>5, <1>6, <1>7
<1>9. SumFunctionOnSet(f, rest) \in Int
  <2>1. rest \in SUBSET S /\ IsFiniteSet(rest)
    BY FS_Subset
  <2> QED BY <2>1, SumType
<1>10. f[c] \in Int /\ f[x] \in Int
  BY <1>3
<1> HIDE DEF rest
<1> QED BY <1>2, <1>4, <1>8, <1>9, <1>10

(* Only the values on the set count, and a sum grows with its terms. *)
LEMMA SumMono ==
  ASSUME NEW S, IsFiniteSet(S), NEW f, NEW g,
         \A x \in S : f[x] \in Int /\ g[x] \in Int /\ f[x] <= g[x]
  PROVE  SumFunctionOnSet(f, S) <= SumFunctionOnSet(g, S)
<1> DEFINE T == {U \in SUBSET S : ~(SumFunctionOnSet(f, U) <= SumFunctionOnSet(g, U))}
<1> SUFFICES ASSUME T # {} PROVE FALSE
  OBVIOUS
<1>1. PICK U \in T : \A y \in T : y \subseteq U => y = U
  <2>1. T \in SUBSET SUBSET S
    OBVIOUS
  <2> HIDE DEF T
  <2> QED BY <2>1, LeastSubset
<1>2. U # {}
  BY SumOfNone
<1> DEFINE c == First(U)
           r == U \ {c}
<1>3. c \in U /\ IsFiniteSet(U) /\ r \in SUBSET S /\ IsFiniteSet(r)
  BY <1>2, FS_Subset DEF First
<1>4. SumFunctionOnSet(f, r) <= SumFunctionOnSet(g, r)
  BY <1>1, <1>3
<1>5. /\ SumFunctionOnSet(f, U) = f[c] + SumFunctionOnSet(f, r)
      /\ SumFunctionOnSet(g, U) = g[c] + SumFunctionOnSet(g, r)
  BY <1>2, <1>3, SumOfFirst
<1>6. SumFunctionOnSet(f, r) \in Int /\ SumFunctionOnSet(g, r) \in Int
  BY <1>3, SumType
<1> HIDE DEF c, r
<1>7. f[c] \in Int /\ g[c] \in Int /\ f[c] <= g[c]
  BY <1>3
<1>8. ~(SumFunctionOnSet(f, U) <= SumFunctionOnSet(g, U))
  OBVIOUS
<1> HIDE DEF T
<1> QED BY <1>4, <1>5, <1>6, <1>7, <1>8

LEMMA SumSame ==
  ASSUME NEW S, IsFiniteSet(S), NEW f, NEW g,
         \A x \in S : f[x] \in Int /\ f[x] = g[x]
  PROVE  SumFunctionOnSet(f, S) = SumFunctionOnSet(g, S)
<1>1. SumFunctionOnSet(f, S) \in Int /\ SumFunctionOnSet(g, S) \in Int
  BY SumType
<1>2. SumFunctionOnSet(f, S) <= SumFunctionOnSet(g, S)
  BY SumMono
<1>3. SumFunctionOnSet(g, S) <= SumFunctionOnSet(f, S)
  BY SumMono
<1> QED BY <1>1, <1>2, <1>3

(* Changing one value changes the sum by the difference. *)
LEMMA SumChanged ==
  ASSUME NEW S, IsFiniteSet(S), NEW f, NEW g, NEW a \in S,
         \A x \in S : f[x] \in Int /\ g[x] \in Int,
         \A x \in S \ {a} : g[x] = f[x]
  PROVE  SumFunctionOnSet(g, S) = SumFunctionOnSet(f, S) - f[a] + g[a]
<1> DEFINE r == S \ {a}
<1>1. IsFiniteSet(r) /\ r \in SUBSET S
  BY FS_Subset
<1>2. SumFunctionOnSet(f, r) = SumFunctionOnSet(g, r) /\ SumFunctionOnSet(f, r) \in Int
  BY <1>1, SumSame, SumType
<1>3. /\ SumFunctionOnSet(f, S) = f[a] + SumFunctionOnSet(f, r)
      /\ SumFunctionOnSet(g, S) = g[a] + SumFunctionOnSet(g, r)
  BY SumWithout
<1>4. f[a] \in Int /\ g[a] \in Int
  OBVIOUS
<1> HIDE DEF r
<1> QED BY <1>2, <1>3, <1>4

LEMMA SumOfZeros ==
  ASSUME NEW S, IsFiniteSet(S), NEW f, \A x \in S : f[x] = 0
  PROVE  SumFunctionOnSet(f, S) = 0
<1> DEFINE T == {U \in SUBSET S : SumFunctionOnSet(f, U) # 0}
<1> SUFFICES ASSUME T # {} PROVE FALSE
  OBVIOUS
<1>1. PICK U \in T : \A y \in T : y \subseteq U => y = U
  <2>1. T \in SUBSET SUBSET S
    OBVIOUS
  <2> HIDE DEF T
  <2> QED BY <2>1, LeastSubset
<1>2. U # {}
  BY SumOfNone
<1>3. First(U) \in U /\ IsFiniteSet(U)
  BY <1>2, FS_Subset DEF First
<1>4. SumFunctionOnSet(f, U \ {First(U)}) = 0
  BY <1>1, <1>3
<1>5. SumFunctionOnSet(f, U) = f[First(U)] + SumFunctionOnSet(f, U \ {First(U)})
  BY <1>2, <1>3, SumOfFirst
<1> QED BY <1>3, <1>4, <1>5

(* A sum of one non-zero value. *)
LEMMA SumOfOne ==
  ASSUME NEW S, IsFiniteSet(S), NEW f, NEW a \in S, f[a] \in Int,
         \A x \in S \ {a} : f[x] = 0
  PROVE  SumFunctionOnSet(f, S) = f[a]
<1> DEFINE r == S \ {a}
<1>1. IsFiniteSet(r) /\ r \in SUBSET S
  BY FS_Subset
<1>2. \A x \in S : f[x] \in Int
  OBVIOUS
<1>3. SumFunctionOnSet(f, S) = f[a] + SumFunctionOnSet(f, r)
  BY <1>2, SumWithout
<1>4. SumFunctionOnSet(f, r) = 0
  <2>1. \A x \in r : f[x] = 0
    OBVIOUS
  <2> HIDE DEF r
  <2> QED BY <1>1, <2>1, SumOfZeros
<1> HIDE DEF r
<1> QED BY <1>3, <1>4

LEMMA SumAdded ==
  ASSUME NEW S, IsFiniteSet(S), NEW f \in [S -> Int], NEW a \in S, NEW v \in Int,
         NEW g \in [S -> Int], g[a] = f[a] + v, \A x \in S \ {a} : g[x] = f[x]
  PROVE  SumFunctionOnSet(g, S) = SumFunctionOnSet(f, S) + v
<1>1. \A x \in S : f[x] \in Int /\ g[x] \in Int
  OBVIOUS
<1>2. SumFunctionOnSet(g, S) = SumFunctionOnSet(f, S) - f[a] + g[a]
  BY <1>1, SumChanged
<1>3. SumFunctionOnSet(f, S) \in Int /\ f[a] \in Int
  BY <1>1, SumType
<1> QED BY <1>2, <1>3

(* The sum of one function and a multiple of another. *)
LEMMA SumLinear ==
  ASSUME NEW S, IsFiniteSet(S), NEW f, NEW g, NEW h, NEW k \in Int,
         \A x \in S : f[x] \in Int /\ g[x] \in Int /\ h[x] = f[x] + k * g[x]
  PROVE  SumFunctionOnSet(h, S) = SumFunctionOnSet(f, S) + k * SumFunctionOnSet(g, S)
<1> DEFINE Good(U) == SumFunctionOnSet(h, U) = SumFunctionOnSet(f, U) + k * SumFunctionOnSet(g, U)
           T == {U \in SUBSET S : ~Good(U)}
<1> SUFFICES ASSUME T # {} PROVE FALSE
  OBVIOUS
<1>1. PICK U \in T : \A y \in T : y \subseteq U => y = U
  <2>1. T \in SUBSET SUBSET S
    OBVIOUS
  <2> HIDE DEF T
  <2> QED BY <2>1, LeastSubset
<1>2. U # {}
  BY SumOfNone
<1> DEFINE c == First(U)
           r == U \ {c}
<1>3. c \in U /\ IsFiniteSet(U) /\ r \in SUBSET S /\ IsFiniteSet(r)
  BY <1>2, FS_Subset DEF First
<1>4. Good(r)
  BY <1>1, <1>3
<1>5. /\ SumFunctionOnSet(f, U) = f[c] + SumFunctionOnSet(f, r)
      /\ SumFunctionOnSet(g, U) = g[c] + SumFunctionOnSet(g, r)
      /\ SumFunctionOnSet(h, U) = h[c] + SumFunctionOnSet(h, r)
  BY <1>2, <1>3, SumOfFirst
<1>6. SumFunctionOnSet(f, r) \in Int /\ SumFunctionOnSet(g, r) \in Int
  BY <1>3, SumType
<1>7. h[c] = f[c] + k * g[c] /\ f[c] \in Int /\ g[c] \in Int
  BY <1>3
<1>8. ~Good(U)
  OBVIOUS
<1> HIDE DEF c, r, T
<1>9. k * (g[c] + SumFunctionOnSet(g, r)) = k * g[c] + k * SumFunctionOnSet(g, r)
  BY <1>6, <1>7
<1> QED BY <1>4, <1>5, <1>6, <1>7, <1>8, <1>9

(* A sum is that of a part and that of the rest. *)
LEMMA SumSplit ==
  ASSUME NEW S, IsFiniteSet(S), NEW f, \A x \in S : f[x] \in Int, NEW P \in SUBSET S
  PROVE  SumFunctionOnSet(f, S) = SumFunctionOnSet(f, P) + SumFunctionOnSet(f, S \ P)
<1> DEFINE Good(U) == SumFunctionOnSet(f, S) = SumFunctionOnSet(f, U) + SumFunctionOnSet(f, S \ U)
           T == {U \in SUBSET S : ~Good(U)}
<1> SUFFICES ASSUME T # {} PROVE FALSE
  OBVIOUS
<1>1. PICK U \in T : \A y \in T : y \subseteq U => y = U
  <2>1. T \in SUBSET SUBSET S
    OBVIOUS
  <2> HIDE DEF T
  <2> QED BY <2>1, LeastSubset
<1>2. U # {}
  <2>1. S \ {} = S
    OBVIOUS
  <2>2. Good({})
    BY <2>1, SumOfNone, SumType
  <2> QED BY <2>2
<1> DEFINE c == First(U)
           r == U \ {c}
           rest == S \ U
<1>3. c \in U /\ r \in SUBSET S /\ rest \in SUBSET S /\ S \ r \in SUBSET S /\ c \in S \ r
      /\ (S \ r) \ {c} = rest /\ U \in SUBSET S
  BY <1>2 DEF First
<1>4. IsFiniteSet(U) /\ IsFiniteSet(r) /\ IsFiniteSet(rest) /\ IsFiniteSet(S \ r)
  BY <1>3, FS_Subset
<1>5. Good(r)
  BY <1>1, <1>3
<1>6. SumFunctionOnSet(f, U) = f[c] + SumFunctionOnSet(f, r)
  BY <1>2, <1>4, SumOfFirst
<1>7. SumFunctionOnSet(f, S \ r) = f[c] + SumFunctionOnSet(f, rest)
  <2>1. \A x \in S \ r : f[x] \in Int
    BY <1>3
  <2> DEFINE s == S \ r
  <2> HIDE DEF s, c, rest, r
  <2> QED BY <1>3, <1>4, <2>1, SumWithout DEF s
<1>8. SumFunctionOnSet(f, r) \in Int /\ SumFunctionOnSet(f, rest) \in Int /\ f[c] \in Int
  BY <1>3, <1>4, SumType
<1>9. ~Good(U)
  OBVIOUS
<1> HIDE DEF c, r, T
<1> QED BY <1>5, <1>6, <1>7, <1>8, <1>9

LEMMA SumWithin ==
  ASSUME NEW S, IsFiniteSet(S), NEW f, \A x \in S : f[x] \in Int /\ f[x] >= 0, NEW P \in SUBSET S
  PROVE  SumFunctionOnSet(f, P) <= SumFunctionOnSet(f, S)
<1>1. IsFiniteSet(P) /\ IsFiniteSet(S \ P)
  BY FS_Subset
<1>2. SumFunctionOnSet(f, P) \in Int /\ SumFunctionOnSet(f, S \ P) \in Int /\ SumFunctionOnSet(f, S \ P) >= 0
  BY <1>1, SumType
<1> QED BY <1>2, SumSplit

(* A table adds up to the same by rows and by columns. *)
LEMMA SumSwap ==
  ASSUME NEW S, IsFiniteSet(S), NEW H, IsFiniteSet(H), NEW r,
         \A x \in S, h \in H : r[x][h] \in Int
  PROVE  SumFunctionOnSet([x \in S |-> SumFunctionOnSet(r[x], H)], S)
           = SumFunctionOnSet([h \in H |-> SumFunctionOnSet([x \in S |-> r[x][h]], S)], H)
<1> DEFINE column == [h \in H |-> SumFunctionOnSet([x \in S |-> r[x][h]], S)]
           row(U) == [x \in S |-> SumFunctionOnSet(r[x], U)]
           Good(U) == SumFunctionOnSet(row(U), S) = SumFunctionOnSet(column, U)
           T == {U \in SUBSET H : ~Good(U)}
<1> SUFFICES ASSUME T # {} PROVE FALSE
  OBVIOUS
<1>1. PICK U \in T : \A y \in T : y \subseteq U => y = U
  <2>1. T \in SUBSET SUBSET H
    OBVIOUS
  <2> HIDE DEF T
  <2> QED BY <2>1, LeastSubset
<1>2. U # {}
  <2>1. SumFunctionOnSet(row({}), S) = 0
    BY SumOfNone, SumOfZeros
  <2>2. Good({})
    BY <2>1, SumOfNone
  <2> QED BY <2>2
<1> DEFINE c == First(U)
           rest == U \ {c}
           at == [x \in S |-> r[x][c]]
<1>3. c \in U /\ IsFiniteSet(U) /\ rest \in SUBSET H /\ IsFiniteSet(rest) /\ c \in H
  BY <1>2, FS_Subset DEF First
<1>4. Good(rest)
  BY <1>1, <1>3
<1>5. ~Good(U)
  OBVIOUS
<1>6. SumFunctionOnSet(column, U) = column[c] + SumFunctionOnSet(column, rest)
  BY <1>2, <1>3, SumOfFirst
<1>7. SumFunctionOnSet(row(U), S) = SumFunctionOnSet(at, S) + 1 * SumFunctionOnSet(row(rest), S)
  <2>1. ASSUME NEW x \in S
        PROVE  /\ at[x] \in Int /\ row(rest)[x] \in Int
               /\ row(U)[x] = at[x] + 1 * row(rest)[x]
    <3>1. SumFunctionOnSet(r[x], U) = r[x][c] + SumFunctionOnSet(r[x], rest)
      BY <1>2, <1>3, SumOfFirst
    <3>2. r[x][c] \in Int /\ \A h \in rest : r[x][h] \in Int
      BY <1>3
    <3>3. SumFunctionOnSet(r[x], rest) \in Int
      BY <1>3, <3>2, SumType
    <3> QED BY <3>1, <3>2, <3>3
  <2> DEFINE rowU == row(U)
             rowR == row(rest)
  <2>2. \A x \in S : at[x] \in Int /\ rowR[x] \in Int /\ rowU[x] = at[x] + 1 * rowR[x]
    BY <2>1
  <2> HIDE DEF at, rowU, rowR
  <2>3. SumFunctionOnSet(rowU, S) = SumFunctionOnSet(at, S) + 1 * SumFunctionOnSet(rowR, S)
    BY <2>2, SumLinear
  <2> QED BY <2>3 DEF rowU, rowR
<1>8. column[c] = SumFunctionOnSet(at, S)
  BY <1>3
<1>9. SumFunctionOnSet(row(rest), S) \in Int
  <2>1. \A x \in S : row(rest)[x] \in Int
    BY <1>3, SumType
  <2> DEFINE rowR == row(rest)
  <2>2. \A x \in S : rowR[x] \in Int
    BY <2>1
  <2> HIDE DEF rowR
  <2>3. SumFunctionOnSet(rowR, S) \in Int
    BY <2>2, SumType
  <2> QED BY <2>3 DEF rowR
<1> QED BY <1>4, <1>5, <1>6, <1>7, <1>8, <1>9

-----------------------------------------------------------------------------
(* Recursion along a sequence *)

(* A set of numbers up to n that is not empty has a least one. *)
LEMMA LeastNumber ==
  ASSUME NEW n \in Nat, NEW T \in SUBSET (0..n), T # {}
  PROVE  \E m \in T : \A k \in T : m <= k
<1> DEFINE S == 1..n
           U == {1..m : m \in T}
<1>1. IsFiniteSet(S)
  BY FS_Interval
<1>2. U \in SUBSET SUBSET S /\ U # {}
  <2>1. \A m \in T : 1..m \in SUBSET S
    OBVIOUS
  <2> HIDE DEF S
  <2> QED BY <2>1
<1>3. PICK x \in U : \A y \in U : y \subseteq x => y = x
  <2> HIDE DEF U, S
  <2> QED BY <1>1, <1>2, LeastSubset
<1>4. PICK m \in T : x = 1..m
  OBVIOUS
<1>5. ASSUME NEW k \in T, ~(m <= k) PROVE FALSE
  <2>1. 1..k \in U /\ 1..k \subseteq 1..m
    BY <1>5
  <2>2. 1..k = 1..m
    BY <1>3, <1>4, <2>1
  <2>3. m \in 1..m /\ m \notin 1..k
    BY <1>5
  <2> QED BY <2>2, <2>3
<1> QED BY <1>5

(* The largest of a set of numbers up to n *)
LEMMA LargestOf ==
  ASSUME NEW n \in Nat, NEW s \in SUBSET (1..n), s # {}
  PROVE  (CHOOSE x \in s : \A y \in s : x >= y) \in s
<1> DEFINE T == {n - x : x \in s}
<1>1. T \in SUBSET (0..n) /\ T # {}
  <2>1. \A x \in s : n - x \in 0..n
    OBVIOUS
  <2> QED BY <2>1
<1>2. PICK m \in T : \A k \in T : m <= k
  <2> HIDE DEF T
  <2> QED BY <1>1, LeastNumber
<1>3. PICK x \in s : m = n - x
  OBVIOUS
<1>4. ASSUME NEW y \in s PROVE x >= y
  <2>1. n - y \in T
    OBVIOUS
  <2> QED BY <1>2, <1>3, <2>1
<1> QED BY <1>3, <1>4

(* g folds the elements of D into base, in the order in which they are      *)
(* picked from what is left: the function that MapThenFoldSet recurses on.  *)
FoldsIn(g, D, base, step, pick) ==
  g = [s \in SUBSET D |-> IF s = {} THEN base ELSE step[pick[s]][g[s \ {pick[s]}]]]

LEMMA FoldsAgree ==
  ASSUME NEW D, IsFiniteSet(D), NEW base, NEW step, NEW pick,
         \A s \in SUBSET D : s # {} => pick[s] \in s,
         NEW U \in SUBSET D, NEW g, NEW h,
         FoldsIn(g, D, base, step, pick), FoldsIn(h, U, base, step, pick)
  PROVE  \A s \in SUBSET U : g[s] = h[s]
<1> DEFINE T == {s \in SUBSET U : g[s] # h[s]}
<1> SUFFICES ASSUME T # {} PROVE FALSE
  OBVIOUS
<1>1. PICK x \in T : \A y \in T : y \subseteq x => y = x
  <2>1. T \in SUBSET SUBSET D
    BY SMTT(30)
  <2> HIDE DEF T
  <2> QED BY <2>1, LeastSubset
<1> DEFINE r == x \ {pick[x]}
<1>2. g[x] = IF x = {} THEN base ELSE step[pick[x]][g[r]]
  BY ZenonT(30) DEF FoldsIn
<1>3. h[x] = IF x = {} THEN base ELSE step[pick[x]][h[r]]
  BY DEF FoldsIn
<1>4. x # {} /\ pick[x] \in x
  BY <1>2, <1>3
<1>5. g[r] = h[r]
  BY <1>1, <1>4
<1> QED BY <1>2, <1>3, <1>4, <1>5

LEMMA FoldExists ==
  ASSUME NEW D, IsFiniteSet(D), NEW base, NEW step, NEW pick,
         \A s \in SUBSET D : s # {} => pick[s] \in s
  PROVE  \E g : FoldsIn(g, D, base, step, pick)
<1> DEFINE F(g, U) == FoldsIn(g, U, base, step, pick)
           T == {U \in SUBSET D : ~\E g : F(g, U)}
<1> SUFFICES ASSUME T # {} PROVE FALSE
  OBVIOUS
<1>1. PICK U \in T : \A y \in T : y \subseteq U => y = U
  <2>1. T \in SUBSET SUBSET D
    OBVIOUS
  <2> HIDE DEF T
  <2> QED BY <2>1, LeastSubset
<1> DEFINE sol(s) == CHOOSE g : F(g, s)
           rest(s) == s \ {pick[s]}
           below(s) == IF s = {} THEN base ELSE step[pick[s]][sol(rest(s))[rest(s)]]
           g == [s \in SUBSET U |-> below(s)]
<1>2. ASSUME NEW s \in SUBSET U, s # U PROVE F(sol(s), s)
  <2>1. s \notin T
    BY <1>1, <1>2
  <2> QED BY <2>1
<1>3. ASSUME NEW s \in SUBSET U, s # {}
      PROVE  /\ rest(s) \in SUBSET s /\ rest(s) \in SUBSET U /\ rest(s) # U
             /\ IsFiniteSet(s) /\ s \in SUBSET D
  <2>1. pick[s] \in s
    BY <1>3
  <2> QED BY <2>1, FS_Subset
<1>4. ASSUME NEW s \in SUBSET U, s # U
      PROVE  sol(s)[s] = below(s)
  <2>1. F(sol(s), s)
    BY <1>2, <1>4
  <2>2. CASE s = {}
    <3> HIDE DEF sol
    <3> QED BY <2>1, <2>2 DEF FoldsIn
  <2>3. CASE s # {}
    <3> DEFINE r == rest(s)
    <3>1. r \in SUBSET s /\ r \in SUBSET U /\ r # U /\ IsFiniteSet(s) /\ s \in SUBSET D
      BY <1>3, <2>3
    <3>2. F(sol(r), r)
      BY <1>2, <3>1
    <3>3. \A t \in SUBSET s : t # {} => pick[t] \in t
      BY <3>1
    <3>4. sol(s)[s] = step[pick[s]][sol(s)[r]]
      <4> HIDE DEF sol
      <4> QED BY ZenonT(30), <2>1, <2>3 DEF FoldsIn
    <3>5. sol(s)[r] = sol(r)[r]
      <4> HIDE DEF sol, r
      <4> QED BY <2>1, <3>1, <3>2, <3>3, FoldsAgree
    <3> HIDE DEF sol
    <3> QED BY <2>3, <3>4, <3>5
  <2> QED BY <2>2, <2>3
<1>5. ASSUME NEW s \in SUBSET U
      PROVE  g[s] = IF s = {} THEN base ELSE step[pick[s]][g[rest(s)]]
  <2>1. CASE s = {}
    BY <2>1
  <2>2. CASE s # {}
    <3> DEFINE r == rest(s)
    <3>1. r \in SUBSET U /\ r # U
      BY <1>3, <2>2
    <3>2. sol(r)[r] = below(r)
      BY <3>1, <1>4
    <3>3. g[r] = below(r) /\ g[s] = below(s)
      BY <3>1
    <3> HIDE DEF sol, g
    <3> QED BY <3>2, <3>3, <2>2
  <2> QED BY ZenonT(30), <2>1, <2>2
<1>6. FoldsIn(g, U, base, step, pick)
  <2> HIDE DEF below
  <2>1. g = [s \in SUBSET U |-> g[s]]
    OBVIOUS
  <2> HIDE DEF g
  <2> QED BY <1>5, <2>1 DEF FoldsIn
<1> QED BY <1>6

(* What the steps keep within P, all that is folded is in. *)
LEMMA FoldedType ==
  ASSUME NEW D, IsFiniteSet(D), NEW P, NEW base \in P, NEW step, NEW pick,
         \A s \in SUBSET D : s # {} => pick[s] \in s,
         \A x \in D, r \in P : step[x][r] \in P,
         NEW g, FoldsIn(g, D, base, step, pick)
  PROVE  \A s \in SUBSET D : g[s] \in P
<1> DEFINE T == {s \in SUBSET D : g[s] \notin P}
<1> SUFFICES ASSUME T # {} PROVE FALSE
  OBVIOUS
<1>1. PICK x \in T : \A y \in T : y \subseteq x => y = x
  <2>1. T \in SUBSET SUBSET D
    OBVIOUS
  <2> HIDE DEF T
  <2> QED BY <2>1, LeastSubset
<1> DEFINE r == x \ {pick[x]}
<1>2. g[x] = IF x = {} THEN base ELSE step[pick[x]][g[r]]
  BY DEF FoldsIn
<1>3. x # {} /\ pick[x] \in x
  BY <1>2
<1>4. g[r] \in P
  BY <1>1, <1>3
<1> QED BY <1>2, <1>3, <1>4

(* What FlattenSeq joins: f is the function that it recurses on, up to m.   *)
Joins(f, seqs, m) ==
  f = [i \in 1..m |-> IF i = 1 THEN seqs[i] ELSE f[i-1] \o seqs[i]]

LEMMA JoinsMore ==
  ASSUME NEW seqs, NEW m \in Nat, m > 0, NEW f, Joins(f, seqs, m - 1)
  PROVE  \E g : Joins(g, seqs, m)
<1> DEFINE last == IF m = 1 THEN seqs[m] ELSE f[m-1] \o seqs[m]
           g == [i \in 1..m |-> IF i = m THEN last ELSE f[i]]
<1>1. ASSUME NEW i \in 1..m PROVE g[i] = IF i = 1 THEN seqs[i] ELSE g[i-1] \o seqs[i]
  <2>1. CASE i = m
    <3>1. i # 1 => i - 1 \in 1..m /\ i - 1 # m
      BY <2>1
    <3>2. i # 1 => g[i-1] = f[i-1]
      BY <3>1
    <3>3. g[i] = last
      BY <2>1
    <3> HIDE DEF g
    <3> QED BY <2>1, <3>2, <3>3
  <2>2. CASE i # m
    <3>1. i \in 1..(m-1)
      BY <2>2
    <3>2. f[i] = IF i = 1 THEN seqs[i] ELSE f[i-1] \o seqs[i]
      BY <3>1 DEF Joins
    <3>3. i # 1 => i - 1 \in 1..m /\ i - 1 # m
      BY <2>2
    <3>4. g[i] = f[i] /\ (i # 1 => g[i-1] = f[i-1])
      BY <2>2, <3>3
    <3> HIDE DEF g
    <3> QED BY <3>2, <3>4
  <2> QED BY <2>1, <2>2
<1>2. g = [i \in 1..m |-> g[i]]
  OBVIOUS
<1>3. Joins(g, seqs, m)
  <2> HIDE DEF g
  <2> QED BY <1>1, <1>2 DEF Joins
<1> QED BY <1>3

LEMMA JoinsExist ==
  ASSUME NEW seqs, NEW n \in Nat
  PROVE  \E f : Joins(f, seqs, n)
<1> DEFINE T == {m \in 0..n : ~\E f : Joins(f, seqs, m)}
<1> SUFFICES ASSUME T # {} PROVE FALSE
  BY DEF T
<1>1. PICK m \in T : \A k \in T : m <= k
  <2>1. T \in SUBSET (0..n)
    OBVIOUS
  <2> HIDE DEF T
  <2> QED BY <2>1, LeastNumber
<1>2. CASE m = 0
  <2>1. Joins([i \in 1..0 |-> 0], seqs, 0)
    BY DEF Joins
  <2> QED BY <1>2, <2>1
<1>3. CASE m # 0
  <2>1. m - 1 \in 0..n /\ m - 1 \notin T /\ m > 0 /\ m \in Nat
    BY <1>1, <1>3
  <2>2. PICK f : Joins(f, seqs, m - 1)
    BY <2>1
  <2>3. \E g : Joins(g, seqs, m)
    BY <2>1, <2>2, JoinsMore
  <2> QED BY <2>3
<1> QED BY <1>2, <1>3

(* What holds of the parts and of what joins two that have it holds of all  *)
(* of them joined, ...                                                     *)
Joining(P) == \A s, t \in P : s \o t \in P

LEMMA JoinedIn ==
  ASSUME NEW P, Joining(P),
         NEW seqs, NEW n \in Nat, NEW f, Joins(f, seqs, n), \A i \in 1..n : seqs[i] \in P
  PROVE  \A i \in 1..n : f[i] \in P
<1> DEFINE T == {i \in 0..n : i > 0 /\ f[i] \notin P}
<1>1. T = {}
  <2> SUFFICES ASSUME T # {} PROVE FALSE
    OBVIOUS
  <2>1. PICK i \in T : \A k \in T : i <= k
    <3>1. T \in SUBSET (0..n)
      OBVIOUS
    <3> HIDE DEF T
    <3> QED BY <3>1, LeastNumber
  <2>2. i \in 1..n /\ f[i] \notin P
    OBVIOUS
  <2>3. f[i] = IF i = 1 THEN seqs[i] ELSE f[i-1] \o seqs[i]
    BY <2>2 DEF Joins
  <2>4. i # 1 => f[i-1] \in P
    <3> SUFFICES ASSUME i # 1 PROVE f[i-1] \in P
      OBVIOUS
    <3>1. i - 1 \in 0..n /\ i - 1 > 0 /\ ~(i <= i - 1)
      BY <2>2
    <3>2. i - 1 \notin T
      BY <2>1, <3>1
    <3> QED BY <3>1, <3>2
  <2>5. seqs[i] \in P
    BY <2>2
  <2>6. i # 1 => f[i-1] \o seqs[i] \in P
    BY <2>4, <2>5 DEF Joining
  <2> QED BY <2>2, <2>3, <2>5, <2>6
<1> QED BY <1>1

(* ... and each part is there, between such others. *)
LEMMA JoinedAround ==
  ASSUME NEW S, NEW P, P \subseteq Seq(S), <<>> \in P, Joining(P),
         NEW seqs, NEW n \in Nat, NEW f, Joins(f, seqs, n), \A i \in 1..n : seqs[i] \in P,
         NEW k \in 1..n
  PROVE  \A i \in k..n : \E s, t \in P : f[i] = (s \o seqs[k]) \o t
<1> DEFINE Around(i) == \E s, t \in P : f[i] = (s \o seqs[k]) \o t
           T == {i \in 0..n : i >= k /\ ~Around(i)}
<1>1. \A i \in 1..n : f[i] \in P
  BY JoinedIn
<1>2. ASSUME NEW i \in 1..n PROVE f[i] = IF i = 1 THEN seqs[i] ELSE f[i-1] \o seqs[i]
  BY DEF Joins
<1>3. ASSUME NEW i \in 1..n, i > 1 PROVE f[i] = f[i-1] \o seqs[i]
  <2>1. i # 1
    BY <1>3
  <2> QED BY <1>2, <2>1
<1>4. Around(k)
  <2>1. CASE k = 1
    <3>1. f[k] = (<<>> \o seqs[k]) \o <<>>
      BY <1>2, <2>1
    <3> QED BY <3>1
  <2>2. CASE k # 1
    <3> DEFINE s == f[k-1]
    <3>1. s \in P
      BY <1>1, <2>2
    <3>2. f[k] = s \o seqs[k]
      BY <1>2, <2>2
    <3> HIDE DEF s
    <3>3. f[k] = (s \o seqs[k]) \o <<>>
      BY <3>1, <3>2
    <3> QED BY <3>1, <3>3
  <2> QED BY <2>1, <2>2
<1>5. ASSUME NEW i \in 1..n, i > 1, Around(i - 1) PROVE Around(i)
  <2>1. PICK s \in P, t \in P : f[i-1] = (s \o seqs[k]) \o t
    BY <1>5
  <2>2. t \o seqs[i] \in P
    BY <2>1 DEF Joining
  <2>3. s \in Seq(S) /\ t \in Seq(S) /\ seqs[k] \in Seq(S) /\ seqs[i] \in Seq(S)
    BY <2>1
  <2>4. ((s \o seqs[k]) \o t) \o seqs[i] = (s \o seqs[k]) \o (t \o seqs[i])
    <3> DEFINE b == seqs[k]
               d == seqs[i]
    <3>1. b \in Seq(S) /\ d \in Seq(S) /\ s \in Seq(S) /\ t \in Seq(S)
      BY <2>3
    <3> HIDE DEF b, d
    <3> HIDE <2>1, <2>2, <2>3
    <3>2. ((s \o b) \o t) \o d = (s \o b) \o (t \o d)
      BY SMTT(30), <3>1
    <3> QED BY <3>2 DEF b, d
  <2>5. f[i] = f[i-1] \o seqs[i]
    BY <1>3, <1>5
  <2> DEFINE r == t \o seqs[i]
             x == f[i-1]
  <2>6. f[i] = x \o seqs[i] /\ x = (s \o seqs[k]) \o t /\ r \in P
    BY <2>1, <2>2, <2>5
  <2> HIDE DEF x
  <2>7. f[i] = (s \o seqs[k]) \o r
    BY <2>4, <2>6
  <2> HIDE DEF r
  <2> QED BY <2>6, <2>7
<1> HIDE DEF Around
<1>6. T = {}
  <2> SUFFICES ASSUME T # {} PROVE FALSE
    OBVIOUS
  <2>1. PICK i \in T : \A j \in T : i <= j
    <3>1. T \in SUBSET (0..n)
      OBVIOUS
    <3> HIDE DEF T
    <3> QED BY <3>1, LeastNumber
  <2>2. i \in 1..n /\ i >= k /\ ~Around(i) /\ i # k
    BY <1>4
  <2>3. i - 1 \in 0..n /\ i - 1 >= k /\ ~(i <= i - 1) /\ i > 1
    BY <2>2
  <2>4. Around(i - 1)
    BY <2>1, <2>3
  <2> QED BY <1>5, <2>2, <2>3, <2>4
<1>7. \A i \in k..n : Around(i)
  BY <1>6
<1> QED BY <1>7 DEF Around

(* What joins sequences over S is one. *)
LEMMA JoinedType ==
  ASSUME NEW S, NEW seqs \in Seq(Seq(S)), seqs # <<>>
  PROVE  (CHOOSE f : Joins(f, seqs, Len(seqs)))[Len(seqs)] \in Seq(S)
<1> DEFINE n == Len(seqs)
           f == CHOOSE f : Joins(f, seqs, n)
<1>1. n \in Nat /\ n \in 1..n /\ \A i \in 1..n : seqs[i] \in Seq(S)
  OBVIOUS
<1>2. Joins(f, seqs, n)
  BY <1>1, JoinsExist
<1>3. Joining(Seq(S))
  BY DEF Joining
<1> HIDE DEF f, n
<1>4. \A i \in 1..n : f[i] \in Seq(S)
  BY <1>1, <1>2, <1>3, JoinedIn
<1> QED BY <1>1, <1>4 DEF f, n
=============================================================================
