------------------------------ MODULE DiggProofs ------------------------------
(***************************************************************************)
(* What is proved of the DIGG token and of the Sett that holds it, for any *)
(* holders, amounts, fees, rewards and rebases: a transfer moves exactly   *)
(* the fragments it names, whatever dust rebases left in the balances;     *)
(* until the one-time mint all the shares in existence are worth the total *)
(* supply, although the rate is rounded; and a bDIGG never loses worth.    *)
(***************************************************************************)
EXTENDS DiggSimulation, Arithmetic

-----------------------------------------------------------------------------
(* The rate of the token *)

(* Dividing t by the rounded rate t \div s gives s back, as long as s is   *)
(* below the square root of t: this is what MAX_SUPPLY is for.             *)
LEMMA RateRoundTrip ==
  ASSUME NEW t \in Nat, NEW s \in Nat, s > 0, s * (s + 1) <= t
  PROVE  t \div s > 0 /\ t \div (t \div s) = s
<1>. DEFINE r == t \div s
<1>1. r \in Nat /\ r * s <= t /\ t < r * s + s
  BY FloorBounds
<1>. HIDE DEF r
<1>2. r > s
  <2>1. CASE r <= s
    <3>1. r * s <= s * s
      BY <1>1, <2>1, MulMono
    <3>2. s * (s + 1) = s * s + s
      OBVIOUS
    <3>3. r * s \in Int /\ s * s \in Int
      BY <1>1
    <3>. QED
      BY <1>1, <3>1, <3>2, <3>3
  <2>. QED
    BY <1>1, <2>1
<1>3. s * r <= t /\ t < s * r + r
  <2>1. s * r = r * s /\ r * s \in Int
    BY <1>1
  <2>. QED
    BY <1>1, <1>2, <2>1
<1>4. t \div r = s
  BY <1>1, <1>2, <1>3, FloorUnique
<1>. QED
  BY <1>2, <1>4 DEF r

-----------------------------------------------------------------------------
(* The invariant *)

(* Until the mint, the rate is that of the supply, which is within its cap. *)
RateOfSupply ==
  ~remDiggMint =>
    /\ totalSupply <= MaxSupply
    /\ sharesPerFragment = TotalShares \div totalSupply

IInv == TypeOK /\ RateOfSupply

LEMMA SupplyInBounds ==
  ASSUME NEW s \in Nat \ {0}, s <= MaxSupply
  PROVE  /\ TotalShares \div s \in Nat \ {0}
         /\ TotalShares \div (TotalShares \div s) = s
<1>1. TotalShares \in Nat /\ MaxSupply \in Nat
  BY TokenAssumption
<1>2. s * (s + 1) <= MaxSupply * (MaxSupply + 1)
  <2>1. s * (s + 1) <= MaxSupply * (s + 1)
    BY <1>1, MulMono
  <2>2. MaxSupply * (s + 1) <= MaxSupply * (MaxSupply + 1)
    BY <1>1, MulMono
  <2>. QED
    BY <1>1, <2>1, <2>2
<1>3. s * (s + 1) <= TotalShares
  <2>1. s * (s + 1) \in Int /\ MaxSupply * (MaxSupply + 1) \in Int
    BY <1>1
  <2>. QED
    BY <1>1, <1>2, <2>1, TokenAssumption
<1>. QED
  BY <1>1, <1>3, RateRoundTrip, FloorBounds

LEMMA Initially == Init => IInv
<1>. SUFFICES ASSUME Init PROVE IInv
  OBVIOUS
<1>1. /\ InitialSupply \in Nat \ {0} /\ InitialSupply <= MaxSupply
      /\ TotalShares \in 0..MaxWord /\ 0 \in 0..MaxWord /\ 0 \in 0..MaxAllowance
  BY TokenAssumption
<1>2. TotalShares \div InitialSupply \in Nat \ {0}
  BY <1>1, SupplyInBounds
<1>. QED
  BY <1>1, <1>2 DEF Init, IInv, TypeOK, RateOfSupply

LEMMA RebaseKeeps ==
  ASSUME IInv, NEW supplyDelta \in Deltas, Rebase(supplyDelta)
  PROVE  IInv'
<1>. DEFINE supply == Smaller(totalSupply + supplyDelta, MaxSupply)
<1>1. CASE supplyDelta = 0
  BY <1>1 DEF Rebase, rate, IInv, TypeOK, RateOfSupply
<1>2. CASE supplyDelta # 0
  <2>1. supply \in Nat \ {0} /\ supply <= MaxSupply
    BY <1>2, TokenAssumption DEF Rebase, Smaller, IInv, TypeOK
  <2>2. TotalShares \div supply \in Nat \ {0}
    BY <2>1, SupplyInBounds
  <2>3. totalSupply' = supply /\ sharesPerFragment' = TotalShares \div supply
    BY <1>2 DEF Rebase, Rebased
  <2>. HIDE DEF supply
  <2>. QED
    BY <2>1, <2>2, <2>3 DEF Rebase, IInv, TypeOK, RateOfSupply
<1>. QED
  BY <1>1, <1>2

LEMMA MoveType ==
  ASSUME TypeOK, NEW from \in Holders, NEW to \in Holders, NEW value \in Values,
         Move(from, to, value)
  PROVE  shareBalances' \in [Holders -> 0..MaxWord]
<1>. DEFINE shareValue == value * sharesPerFragment
            debited == [shareBalances EXCEPT ![from] = @ - shareValue]
<1>1. shareValue \in Nat /\ MaxWord \in Nat
  BY TokenAssumption, MulNat DEF TypeOK
<1>2. /\ shareValue <= shareBalances[from] /\ debited[to] + shareValue <= MaxWord
      /\ shareBalances' = [debited EXCEPT ![to] = @ + shareValue]
  BY DEF Move
<1>. HIDE DEF shareValue
<1>3. debited \in [Holders -> 0..MaxWord]
  BY <1>1, <1>2 DEF TypeOK
<1>. QED
  BY <1>1, <1>2, <1>3

LEMMA AllowKeeps ==
  ASSUME IInv, NEW h \in Holders, NEW s \in Spenders, NEW value \in 0..MaxAllowance,
         Allow(h, s, value)
  PROVE  IInv'
BY DEF Allow, rate, IInv, TypeOK, RateOfSupply

LEMMA AllowancesKeep ==
  ASSUME IInv, NEW h \in Holders, NEW s \in Spenders, NEW value \in Values,
         \/ Approve(h, s, value)
         \/ IncreaseAllowance(h, s, value)
         \/ DecreaseAllowance(h, s, value)
  PROVE  IInv'
<1>. DEFINE allowed == allowedFragments[h][s]
<1>1. /\ allowed \in 0..MaxAllowance /\ value \in 0..MaxAllowance
      /\ allowed - Smaller(value, allowed) \in 0..MaxAllowance
  BY TokenAssumption DEF IInv, TypeOK, Smaller
<1>2. CASE Approve(h, s, value)
  BY <1>1, <1>2, AllowKeeps DEF Approve
<1>3. CASE IncreaseAllowance(h, s, value)
  <2>1. allowed + value \in 0..MaxAllowance /\ Allow(h, s, allowed + value)
    BY <1>1, <1>3, TokenAssumption DEF IncreaseAllowance
  <2>. QED
    BY <2>1, AllowKeeps
<1>4. CASE DecreaseAllowance(h, s, value)
  BY <1>1, <1>4, AllowKeeps DEF DecreaseAllowance
<1>. QED
  BY <1>2, <1>3, <1>4

LEMMA MintKeeps ==
  ASSUME IInv, OneTimeMint
  PROVE  IInv'
<1>. DEFINE shareValue == MintAmount * sharesPerFragment
<1>1. shareValue \in Nat /\ MaxWord \in Nat /\ MintAmount \in Nat /\ Treasury \in Holders
  BY TokenAssumption, MulNat DEF IInv, TypeOK
<1>2. /\ shareBalances[Treasury] + shareValue <= MaxWord
      /\ shareBalances' = [shareBalances EXCEPT ![Treasury] = @ + shareValue]
  BY DEF OneTimeMint
<1>. HIDE DEF shareValue
<1>3. shareBalances' \in [Holders -> 0..MaxWord]
  BY <1>1, <1>2 DEF IInv, TypeOK
<1>. QED
  BY <1>1, <1>3 DEF OneTimeMint, IInv, TypeOK, RateOfSupply

LEMMA Inductive == IInv /\ [Next]_vars => IInv'
<1>. SUFFICES ASSUME IInv, [Next]_vars PROVE IInv'
  OBVIOUS
<1>1. ASSUME NEW supplyDelta \in Deltas, Rebase(supplyDelta) PROVE IInv'
  BY <1>1, RebaseKeeps
<1>2. ASSUME NEW h \in Callers, NEW to \in Callers, NEW value \in Values, Transfer(h, to, value)
      PROVE  IInv'
  <2>1. shareBalances' \in [Holders -> 0..MaxWord]
    BY <1>2, MoveType, TokenAssumption DEF Transfer, IInv
  <2>. QED
    BY <1>2, <2>1 DEF Transfer, rate, IInv, TypeOK, RateOfSupply
<1>3. ASSUME NEW h \in Callers, NEW to \in Callers, NEW value \in Values, NEW s \in Spenders,
             TransferFrom(s, h, to, value)
      PROVE  IInv'
  <2>1. shareBalances' \in [Holders -> 0..MaxWord]
    BY <1>3, MoveType, TokenAssumption DEF TransferFrom, IInv
  <2>2. allowedFragments[h][s] - value \in 0..MaxAllowance
    BY <1>3, TokenAssumption DEF TransferFrom, IInv, TypeOK
  <2>3. allowedFragments' \in [Holders -> [Spenders -> 0..MaxAllowance]]
    BY <1>3, <2>2, TokenAssumption DEF TransferFrom, IInv, TypeOK
  <2>. QED
    BY <1>3, <2>1, <2>3 DEF TransferFrom, rate, IInv, TypeOK, RateOfSupply
<1>4. CASE OneTimeMint
  BY <1>4, MintKeeps
<1>5. CASE ToggleRebase \/ UNCHANGED vars
  BY <1>5 DEF ToggleRebase, vars, rate, IInv, TypeOK, RateOfSupply
<1>. QED
  BY <1>1, <1>2, <1>3, <1>4, <1>5, AllowancesKeep, TokenAssumption DEF Next, TokenStep

LEMMA InvariantHolds == Spec => []IInv
BY Initially, Inductive, PTL DEF Spec

-----------------------------------------------------------------------------
(* The theorems *)

(* Every variable keeps its type: no rebase reaches a supply or a rate of  *)
(* nothing, no balance overflows.                                          *)
THEOREM TypeCorrect == Spec => []TypeOK
<1>1. IInv => TypeOK
  BY DEF IInv
<1>. QED
  BY <1>1, InvariantHolds, PTL

(* TOTAL_SHARES are worth the total supply, to the fragment, in every      *)
(* state before the one-time mint: the deviation rebase speaks of is       *)
(* below one, and MAX_SUPPLY is why.                                       *)
THEOREM RateAgrees == Spec => [](~remDiggMint => Fragments(TotalShares) = totalSupply)
<1>1. IInv => (~remDiggMint => Fragments(TotalShares) = totalSupply)
  BY SupplyInBounds DEF IInv, TypeOK, RateOfSupply, Fragments
<1>. QED
  BY <1>1, InvariantHolds, PTL

(* Before the one-time mint nothing makes or burns shares: transfers move  *)
(* them, a rebase changes their rate.                                      *)
SharesKept == ~remDiggMint => SharesInExistence = TotalShares

LEMMA MoveKeepsShares ==
  ASSUME TypeOK, NEW from \in Holders, NEW to \in Holders, NEW value \in Values,
         Move(from, to, value)
  PROVE  SharesInExistence' = SharesInExistence
<1>. DEFINE shareValue == value * sharesPerFragment
            debited == [shareBalances EXCEPT ![from] = @ - shareValue]
<1>1. shareValue \in Int
  BY TokenAssumption, MulNat DEF TypeOK
<1>2. shareBalances' = [debited EXCEPT ![to] = @ + shareValue]
  BY DEF Move
<1>. HIDE DEF shareValue
<1>3. shareBalances \in [Holders -> Int] /\ IsFiniteSet(Holders)
  BY TokenAssumption DEF TypeOK
<1>4. /\ debited \in [Holders -> Int] /\ debited[from] = shareBalances[from] - shareValue
      /\ \A h \in Holders \ {from} : debited[h] = shareBalances[h]
  BY <1>1, <1>3
<1>. HIDE DEF debited
<1>5. /\ shareBalances' \in [Holders -> Int] /\ shareBalances'[to] = debited[to] + shareValue
      /\ \A h \in Holders \ {to} : shareBalances'[h] = debited[h]
  BY <1>1, <1>2, <1>4
<1>6. SumFunctionOnSet(shareBalances', Holders) = SumFunctionOnSet(debited, Holders) + shareValue
  BY <1>1, <1>3, <1>4, <1>5, SumAdded
<1>7. SumFunctionOnSet(shareBalances, Holders) = SumFunctionOnSet(debited, Holders) + shareValue
  <2>1. /\ shareBalances[from] = debited[from] + shareValue
        /\ \A h \in Holders \ {from} : shareBalances[h] = debited[h]
    BY <1>1, <1>3, <1>4
  <2>. QED
    BY <1>1, <1>3, <1>4, <2>1, SumAdded
<1>8. DOMAIN shareBalances = Holders /\ DOMAIN shareBalances' = Holders
  BY <1>3, <1>5
<1>. QED
  BY <1>6, <1>7, <1>8 DEF SharesInExistence, SumFunction

LEMMA SharesKeptInitially == Init => SharesKept
<1>. SUFFICES ASSUME Init PROVE SharesInExistence = TotalShares
  BY DEF SharesKept
<1>1. /\ Owner \in Holders /\ TotalShares \in Int
      /\ shareBalances = [h \in Holders |-> IF h = Owner THEN TotalShares ELSE 0]
  BY TokenAssumption DEF Init
<1>2. SumFunctionOnSet(shareBalances, Holders) = shareBalances[Owner]
  BY <1>1, SumOfOne, TokenAssumption
<1>. QED
  BY <1>1, <1>2 DEF SharesInExistence, SumFunction

LEMMA SharesKeptInductive == IInv /\ SharesKept /\ [Next]_vars => SharesKept'
<1>. SUFFICES ASSUME IInv, SharesKept, [Next]_vars, ~remDiggMint' PROVE SharesInExistence' = TotalShares
  BY DEF SharesKept
<1>1. ASSUME NEW h \in Callers, NEW to \in Callers, NEW value \in Values,
             \/ Transfer(h, to, value)
             \/ \E s \in Spenders : TransferFrom(s, h, to, value)
      PROVE  SharesInExistence' = TotalShares
  <2>1. Move(h, to, value) /\ remDiggMint' = remDiggMint
    BY <1>1 DEF Transfer, TransferFrom
  <2>. QED
    BY <2>1, MoveKeepsShares, TokenAssumption DEF SharesKept, IInv
<1>2. CASE OneTimeMint
  BY <1>2 DEF OneTimeMint
<1>3. CASE UNCHANGED <<shareBalances, remDiggMint>>
  BY <1>3 DEF SharesKept, SharesInExistence
<1>4. ASSUME NEW h \in Callers, NEW s \in Spenders, NEW value \in Values,
             \/ Approve(h, s, value)
             \/ IncreaseAllowance(h, s, value)
             \/ DecreaseAllowance(h, s, value)
      PROVE  UNCHANGED <<shareBalances, remDiggMint>>
  BY <1>4 DEF Approve, IncreaseAllowance, DecreaseAllowance, Allow
<1>5. ASSUME \/ ToggleRebase
             \/ \E supplyDelta \in Deltas : Rebase(supplyDelta)
             \/ UNCHANGED vars
      PROVE  UNCHANGED <<shareBalances, remDiggMint>>
  BY <1>5 DEF ToggleRebase, Rebase, vars
<1>. QED
  BY <1>1, <1>2, <1>3, <1>4, <1>5 DEF Next, TokenStep

(* Until the one-time mint the shares in existence are worth the total     *)
(* supply, to the fragment: the sum the comment in rebase is about.        *)
THEOREM SupplyAlwaysAgrees == Spec => []SupplyAgreesUntilMint
<1>1. Spec => []SharesKept
  BY SharesKeptInitially, SharesKeptInductive, InvariantHolds, PTL DEF Spec
<1>2. IInv /\ SharesKept => SupplyAgreesUntilMint
  BY SupplyInBounds DEF IInv, TypeOK, RateOfSupply, SharesKept, SupplyAgreesUntilMint,
     SupplyAgrees, Fragments
<1>. QED
  BY <1>1, <1>2, InvariantHolds, PTL

(* The guarantee at the head of UFragments.sol: a transfer takes exactly   *)
(* its fragments from one balance and adds exactly them to the other.      *)
THEOREM TransferAlwaysExact == Spec => TransferIsExact
<1>. DEFINE Exactly == \A from, to \in Callers, value \in Values :
       from # to /\ Transfer(from, to, value) =>
         /\ BalanceOf(from)' = BalanceOf(from) - value
         /\ BalanceOf(to)' = BalanceOf(to) + value
         /\ \A h \in Holders \ {from, to} : BalanceOf(h)' = BalanceOf(h)
<1>1. TypeOK => [Exactly]_vars
  <2>. SUFFICES ASSUME TypeOK, NEW from \in Callers, NEW to \in Callers, NEW value \in Values,
                       from # to, Transfer(from, to, value)
                PROVE  /\ BalanceOf(from)' = BalanceOf(from) - value
                       /\ BalanceOf(to)' = BalanceOf(to) + value
                       /\ \A h \in Holders \ {from, to} : BalanceOf(h)' = BalanceOf(h)
    OBVIOUS
  <2>. DEFINE c == sharesPerFragment
              shareValue == value * c
  <2>1. /\ c \in Nat /\ c > 0 /\ value \in Nat /\ shareValue \in Nat
        /\ shareBalances[from] \in Nat /\ shareBalances[to] \in Nat
    BY TokenAssumption, MulNat DEF TypeOK
  <2>2. /\ shareBalances'[from] = shareBalances[from] - shareValue
        /\ shareBalances'[to] = shareBalances[to] + shareValue
        /\ \A h \in Holders \ {from, to} : shareBalances'[h] = shareBalances[h]
        /\ shareValue <= shareBalances[from]
        /\ c' = c
    BY TokenAssumption DEF Transfer, Move, TypeOK, rate
  <2>3. (shareBalances[from] - shareValue) \div c = shareBalances[from] \div c - value
    BY <2>1, <2>2, FloorUnshift
  <2>4. (shareBalances[to] + shareValue) \div c = shareBalances[to] \div c + value
    BY SMTT(30), <2>1, FloorShift
  <2>. QED
    BY <2>2, <2>3, <2>4 DEF BalanceOf, Fragments
<1>. QED
  BY <1>1, TypeCorrect, PTL DEF TransferIsExact

-----------------------------------------------------------------------------
(* The Sett: what the pool is worth *)

(* What a deposit of x into a pool worth p is issued, of t in existence,   *)
(* leaves the worth of each: with p and x cut to whole parts.              *)
LEMMA IssuedPart ==
  ASSUME NEW p \in Nat, NEW x \in Nat, NEW t \in Nat, NEW q \in Nat,
         p > 0, p + x <= q
  PROVE  /\ (x * t) \div p \in Nat
         /\ p * (t + (x * t) \div p) <= q * t
<1>. DEFINE m == (x * t) \div p
<1>1. x * t \in Nat
  BY MulNat
<1>2. m \in Nat /\ m * p <= x * t
  BY <1>1, FloorBounds
<1>. HIDE DEF m
<1>3. (p + x) * t <= q * t
  BY MulMono
<1>4. (p + x) * t = p * t + x * t /\ p * (t + m) = p * t + m * p
  BY <1>2
<1>5. p * t \in Int /\ x * t \in Int /\ m * p \in Int /\ q * t \in Int
  BY <1>1, <1>2
<1>6. p * (t + m) <= q * t
  BY <1>2, <1>3, <1>4, <1>5
<1>. QED
  BY <1>2, <1>6 DEF m

(* n of the t in existence, paid at most n times the floored worth of one, *)
(* leave the worth of the others.                                          *)
LEMMA RedeemedWhole ==
  ASSUME NEW p \in Nat, NEW t \in Nat, NEW n \in Nat, t > 0, n <= t
  PROVE  /\ (p \div t) * n \in Nat
         /\ (p \div t) * n <= p
         /\ \A left \in Nat : p - (p \div t) * n <= left => p * (t - n) <= left * t
<1>. DEFINE w == p \div t
<1>1. w \in Nat /\ w * t <= p
  BY FloorBounds
<1>. HIDE DEF w
<1>2. w * n \in Nat /\ w * n <= w * t
  BY <1>1, MulNat, MulMono
<1>3. w * n <= p
  <2>1. w * t \in Int /\ w * n \in Int
    BY <1>1
  <2>. QED
    BY <1>1, <1>2, <2>1
<1>4. ASSUME NEW left \in Nat, p - w * n <= left
      PROVE  p * (t - n) <= left * t
  <2>1. p - w * n \in Int
    BY <1>2
  <2>2. (p - w * n) * t <= left * t
    BY <1>4, <2>1, MulMono
  <2>3. (w * t) * n <= p * n
    BY <1>1, MulNat, MulMono
  <2>4. (p - w * n) * t = p * t - (w * t) * n
    BY <1>1
  <2>5. p * (t - n) = p * t - p * n
    OBVIOUS
  <2>6. p * t \in Int /\ p * n \in Int /\ (w * t) * n \in Int /\ left * t \in Int
    BY <1>1
  <2>. QED
    BY <2>2, <2>3, <2>4, <2>5, <2>6
<1>. QED
  BY <1>2, <1>3, <1>4 DEF w
-----------------------------------------------------------------------------
(* The state *)

BDiggTypeOK ==
  /\ totalSupply \in Nat \ {0}
  /\ sharesPerFragment \in Nat \ {0}
  /\ shareBalances \in [Holders -> Nat]
  /\ bDigg \in [Users -> Nat]
  /\ bDiggSupply \in Nat
  /\ min \in Mins /\ withdrawalFee \in Fees
  /\ rewardRate \in Nat /\ lastUpdateTime \in Nat /\ periodFinish \in Nat
  /\ now \in Nat

TripOK ==
  trip # NoTrip =>
    /\ trip.user \in Users
    /\ trip.held \in Nat /\ trip.held <= bDigg[trip.user]

BDiggInv == BDiggTypeOK /\ TripOK

LEMMA InitialRate == InitialSharesPerFragment \in Nat \ {0}
  BY TokenAssumption, SupplyInBounds DEF InitialSharesPerFragment

(* Whole fragments are at most the shares they are made of. *)
LEMMA WholeFragments ==
  ASSUME BDiggTypeOK, NEW s \in Nat
  PROVE  /\ Fragments(s) \in Nat
         /\ Fragments(s) * sharesPerFragment \in Nat
         /\ Fragments(s) * sharesPerFragment <= s
<1>1. sharesPerFragment \in Nat /\ sharesPerFragment > 0
  BY DEF BDiggTypeOK
<1>. QED
  BY <1>1, FloorBounds, MulNat DEF Fragments

LEMMA ScaledNat ==
  ASSUME DiggAssumption, NEW s \in Nat
  PROVE  ToScaledShares(s) \in Nat
<1>1. InitialSharesPerFragment \in Nat /\ InitialSharesPerFragment > 0
  BY InitialRate
<1>2. s \div InitialSharesPerFragment \in Nat
  BY <1>1, FloorBounds
<1>. QED
  BY <1>2, MulNat DEF ToScaledShares, DiggAssumption

LEMMA ScaledSum ==
  ASSUME DiggAssumption, NEW p \in Nat, NEW x \in Nat
  PROVE  ToScaledShares(p) + ToScaledShares(x) <= ToScaledShares(p + x)
<1>. DEFINE c == InitialSharesPerFragment
            qp == p \div c
            qx == x \div c
            q == (p + x) \div c
<1>1. c \in Nat /\ c > 0
  BY InitialRate
<1>. HIDE DEF c
<1>2. qp + qx <= q
  BY <1>1, FloorOfSum
<1>3. qp \in Nat /\ qx \in Nat /\ p + x \in Nat
  BY <1>1, FloorBounds
<1>4. q \in Nat
  BY <1>1, <1>3, FloorBounds
<1>5. ExtraScale \in Nat
  BY DEF DiggAssumption
<1>. HIDE DEF qp, qx, q
<1>6. (qp + qx) * ExtraScale <= q * ExtraScale
  BY <1>2, <1>3, <1>4, <1>5, MulMono
<1>7. (qp + qx) * ExtraScale = qp * ExtraScale + qx * ExtraScale
  BY <1>3, <1>5
<1>8. qp * ExtraScale + qx * ExtraScale <= q * ExtraScale
  BY <1>6, <1>7
<1>. QED
  BY <1>8 DEF ToScaledShares, qp, qx, q, c

LEMMA PoolNat ==
  ASSUME DiggAssumption, BDiggTypeOK
  PROVE  /\ PoolShares \in Nat
         /\ shareBalances[Sett] \in Nat /\ shareBalances[Strategy] \in Nat
  BY DEF DiggAssumption, BDiggTypeOK, PoolShares

(* Steps that issue and burn nothing and take nothing from the pool *)
LEMMA PoolNotLess ==
  ASSUME DiggAssumption, BDiggTypeOK, BDiggTypeOK', bDiggSupply' = bDiggSupply,
         PoolShares <= PoolShares'
  PROVE  WorthKept
<1>1. PoolShares \in Nat /\ PoolShares' \in Nat /\ bDiggSupply \in Nat
  BY DEF DiggAssumption, BDiggTypeOK, PoolShares
<1>2. PoolShares * bDiggSupply <= PoolShares' * bDiggSupply
  <2>1. \A a, b, c \in Nat : a <= b => a * c <= b * c
    BY MulMono
  <2>. QED
    BY <1>1, <2>1
<1>3. ~(bDiggSupply' > bDiggSupply)
  BY <1>1
<1>. QED
  BY <1>1, <1>2, <1>3 DEF WorthKept
-----------------------------------------------------------------------------
(* Deposits *)

LEMMA MovedToSett ==
  ASSUME DiggAssumption, BDiggTypeOK, NEW u \in Users, NEW amount \in Nat,
         Move(u, Sett, amount)
  PROVE  /\ amount * sharesPerFragment \in Nat
         /\ shareBalances' \in [Holders -> Nat]
         /\ PoolShares' = PoolShares + amount * sharesPerFragment
<1>. DEFINE x == amount * sharesPerFragment
            debited == [shareBalances EXCEPT ![u] = @ - x]
<1>1. x \in Nat
  BY MulNat DEF BDiggTypeOK
<1>2. /\ x <= shareBalances[u]
      /\ shareBalances' = [debited EXCEPT ![Sett] = @ + x]
  BY DEF Move
<1>. HIDE DEF x
<1>3. /\ u \in Holders /\ Sett \in Holders /\ Strategy \in Holders
      /\ u # Sett /\ u # Strategy /\ Sett # Strategy
  BY DEF DiggAssumption
<1>4. debited \in [Holders -> Nat]
  <2>1. shareBalances \in [Holders -> Nat] /\ shareBalances[u] \in Nat
    BY <1>3 DEF BDiggTypeOK
  <2>2. shareBalances[u] - x \in Nat
    BY <1>1, <1>2, <2>1
  <2>. QED
    BY <2>1, <2>2
<1>5. shareBalances' \in [Holders -> Nat]
  <2>1. debited[Sett] + x \in Nat
    BY <1>1, <1>3, <1>4
  <2>. HIDE DEF debited
  <2>. QED
    BY <1>2, <1>4, <2>1
<1>6. /\ shareBalances'[Sett] = shareBalances[Sett] + x
      /\ shareBalances'[Strategy] = shareBalances[Strategy]
  BY <1>2, <1>3 DEF BDiggTypeOK
<1>7. shareBalances[Sett] \in Nat /\ shareBalances[Strategy] \in Nat
  BY PoolNat
<1>8. PoolShares' = PoolShares + x
  BY <1>1, <1>6, <1>7 DEF PoolShares
<1>. QED
  BY <1>1, <1>5, <1>8 DEF x

LEMMA IssuedIsNatural ==
  ASSUME DiggAssumption, BDiggTypeOK, DepositGuard, NEW x \in Nat
  PROVE  Mintable(x) \in Nat
<1>1. /\ ToScaledShares(x) \in Nat /\ ToScaledShares(PoolShares) \in Nat
      /\ bDiggSupply \in Nat
  BY ScaledNat, PoolNat DEF BDiggTypeOK
<1>2. CASE bDiggSupply = 0
  BY <1>1, <1>2 DEF Mintable
<1>3. CASE bDiggSupply > 0
  <2>1. ToScaledShares(PoolShares) > 0 /\ ToScaledShares(x) * bDiggSupply \in Nat
    BY <1>1, <1>3, MulNat DEF DepositGuard
  <2>. QED
    BY <1>1, <1>3, <2>1, FloorBounds DEF Mintable
<1>. QED
  BY <1>1, <1>2, <1>3

LEMMA DepositKeeps ==
  ASSUME DiggAssumption, BDiggTypeOK, NEW u \in Users, NEW amount \in Nat,
         Deposit(u, amount)
  PROVE  BDiggTypeOK' /\ WorthKept /\ bDigg'[u] \in Nat /\ bDigg[u] <= bDigg'[u]
<1>. DEFINE x == amount * sharesPerFragment
            minted == Mintable(x)
<1>1. /\ DepositGuard /\ Move(u, Sett, amount)
      /\ bDigg' = [bDigg EXCEPT ![u] = @ + minted]
      /\ bDiggSupply' = bDiggSupply + minted
  BY DEF Deposit
<1>2. x \in Nat /\ shareBalances' \in [Holders -> Nat] /\ PoolShares' = PoolShares + x
  BY <1>1, MovedToSett
<1>. HIDE DEF x
<1>3. minted \in Nat
  BY <1>1, <1>2, IssuedIsNatural
<1>4. bDiggSupply \in Nat /\ PoolShares \in Nat
  BY PoolNat DEF BDiggTypeOK
<1>5. ASSUME bDiggSupply > 0, minted > 0
      PROVE  ToScaledShares(PoolShares) * bDiggSupply' <= ToScaledShares(PoolShares') * bDiggSupply
  <2>. DEFINE sp == ToScaledShares(PoolShares)
              sx == ToScaledShares(x)
              sq == ToScaledShares(PoolShares + x)
  <2>1. sp \in Nat /\ sx \in Nat /\ sq \in Nat /\ sp + sx <= sq
    <3>1. PoolShares + x \in Nat
      BY <1>2, <1>4
    <3>2. \A n \in Nat : ToScaledShares(n) \in Nat
      BY ScaledNat
    <3>3. \A p, n \in Nat :
            ToScaledShares(p) + ToScaledShares(n) <= ToScaledShares(p + n)
      BY ScaledSum
    <3>. QED
      BY <1>2, <1>4, <3>1, <3>2, <3>3
  <2>2. sp > 0
    BY <1>1, <1>5 DEF DepositGuard
  <2>3. minted = (sx * bDiggSupply) \div sp
    BY <1>4, <1>5 DEF Mintable
  <2>4. ToScaledShares(PoolShares') = sq
    BY <1>2
  <2>. HIDE DEF sp, sx, sq, minted
  <2>5. sp * (bDiggSupply + minted) <= sq * bDiggSupply
    BY <1>4, <2>1, <2>2, <2>3, IssuedPart
  <2>. QED
    BY <1>1, <2>4, <2>5 DEF sp
<1>. HIDE DEF minted
<1>6. bDigg' \in [Users -> Nat] /\ bDiggSupply' \in Nat
  BY <1>1, <1>3, <1>4 DEF BDiggTypeOK
<1>7. BDiggTypeOK'
  BY <1>2, <1>6 DEF Deposit, BDiggTypeOK, rate, faucetVars
<1>8. bDigg'[u] \in Nat /\ bDigg[u] <= bDigg'[u]
  BY <1>1, <1>3 DEF BDiggTypeOK
<1>9. WorthKept
  <2>1. CASE minted = 0
    BY <1>1, <1>2, <1>4, <1>7, <2>1, PoolNotLess
  <2>2. CASE minted > 0
    <3>1. bDiggSupply' > bDiggSupply
      BY <1>1, <1>3, <1>4, <2>2
    <3>2. PoolShares' \in Nat
      BY <1>2, <1>4
    <3>3. /\ ToScaledShares(PoolShares) \in Nat
          /\ \A n \in Nat : ToScaledShares(n) \in Nat
      BY <1>4, ScaledNat
    <3>. QED
      BY <1>4, <1>5, <1>6, <2>2, <3>1, <3>2, <3>3 DEF WorthKept
  <2>. QED
    BY <1>3, <2>1, <2>2
<1>. QED
  BY <1>7, <1>8, <1>9
-----------------------------------------------------------------------------
(* Transfers in and out of the pool *)

(* Shares x go from one holder to another. *)
LEMMA Moved ==
  ASSUME NEW balances \in [Holders -> Nat], NEW from \in Holders, NEW to \in Holders, from # to,
         NEW x \in Nat, x <= balances[from]
  PROVE  LET moved == [balances EXCEPT ![from] = @ - x, ![to] = @ + x]
         IN  /\ moved \in [Holders -> Nat]
             /\ moved[from] = balances[from] - x /\ moved[to] = balances[to] + x
             /\ \A h \in Holders \ {from, to} : moved[h] = balances[h]
<1>1. balances[from] - x \in Nat /\ balances[to] + x \in Nat
  OBVIOUS
<1>. QED
  BY <1>1

(* Of what the strategy pays out the fee leaves the pool, and no more.     *)
LEMMA PaidToSett ==
  ASSUME DiggAssumption, BDiggTypeOK, NEW lacking \in Nat, lacking <= shareBalances[Strategy]
  PROVE  LET paid == WithdrawnFromStrategy(shareBalances, Fragments(lacking))
         IN  /\ paid \in [Holders -> Nat]
             /\ \E a, fee \in Nat :
                  /\ fee <= a /\ a <= lacking
                  /\ paid[Sett] = shareBalances[Sett] + a - fee
                  /\ paid[Strategy] = shareBalances[Strategy] - a
<1>. DEFINE n == Fragments(lacking)
            a == n * sharesPerFragment
            f == FeeOn(n)
            fee == f * sharesPerFragment
<1>1. n \in Nat /\ a \in Nat /\ a <= lacking
  BY WholeFragments
<1>2. f \in Nat /\ f <= n
  <2>1. withdrawalFee \in Nat /\ MaxFee \in Nat /\ MaxFee > 0 /\ withdrawalFee <= MaxFee
    BY DEF BDiggTypeOK, DiggAssumption
  <2>. HIDE DEF n
  <2>. QED
    BY <1>1, <2>1, PartAtMostWhole DEF FeeOn
<1>. HIDE DEF n, f
<1>3. fee \in Nat /\ fee <= a
  BY <1>1, <1>2, MulNat, MulMono DEF BDiggTypeOK
<1>4. WithdrawnFromStrategy(shareBalances, n)
        = [shareBalances EXCEPT ![Strategy] = @ - a, ![Rewards] = @ + fee, ![Sett] = @ + a - fee]
  BY DEF WithdrawnFromStrategy, f
<1>. HIDE DEF a, fee
<1>5. /\ Sett \in Holders /\ Strategy \in Holders /\ Rewards \in Holders
      /\ Sett # Strategy /\ Sett # Rewards /\ Strategy # Rewards
  BY DEF DiggAssumption
<1>6. shareBalances \in [Holders -> Nat]
  BY DEF BDiggTypeOK
<1>7. /\ shareBalances[Strategy] - a \in Nat /\ shareBalances[Rewards] + fee \in Nat
      /\ shareBalances[Sett] + a - fee \in Nat
  BY <1>1, <1>3, <1>5, <1>6
<1>. QED
  BY <1>1, <1>3, <1>4, <1>5, <1>6, <1>7 DEF n

LEMMA WithdrawKeeps ==
  ASSUME DiggAssumption, BDiggTypeOK, NEW u \in Users, NEW n \in Nat, Withdraw(u, n)
  PROVE  BDiggTypeOK' /\ WorthKept
<1>. DEFINE due == SharesToRedeem(n)
            lacking == due - shareBalances[Sett]
            unrolled == IF lacking > 0
                        THEN WithdrawnFromStrategy(shareBalances, Fragments(lacking))
                        ELSE shareBalances
            payout == Fragments(Smaller(due, unrolled[Sett])) * sharesPerFragment
<1>1. /\ bDiggSupply > 0 /\ n <= bDigg[u] /\ n <= bDiggSupply
      /\ bDigg' = [bDigg EXCEPT ![u] = @ - n]
      /\ bDiggSupply' = bDiggSupply - n
      /\ shareBalances' = [unrolled EXCEPT ![Sett] = @ - payout, ![u] = @ + payout]
  BY DEF Withdraw
<1>2. /\ PoolShares \in Nat /\ PoolShares = shareBalances[Sett] + shareBalances[Strategy]
      /\ shareBalances[Sett] \in Nat /\ shareBalances[Strategy] \in Nat
      /\ bDiggSupply \in Nat
  BY PoolNat DEF PoolShares, BDiggTypeOK
<1>3. /\ due \in Nat /\ due <= PoolShares
      /\ \A left \in Nat :
           PoolShares - due <= left => PoolShares * (bDiggSupply - n) <= left * bDiggSupply
  BY <1>1, <1>2, RedeemedWhole DEF SharesToRedeem
<1>4. /\ u \in Holders /\ Sett \in Holders /\ Strategy \in Holders
      /\ u # Sett /\ u # Strategy /\ Sett # Strategy
  BY DEF DiggAssumption
<1>. HIDE DEF due
<1>5. /\ unrolled \in [Holders -> Nat]
      /\ \E fee \in Nat :
           /\ unrolled[Sett] + unrolled[Strategy] = PoolShares - fee
           /\ lacking > 0 => unrolled[Sett] <= due - fee
           /\ lacking <= 0 => fee = 0
  <2>1. CASE lacking > 0
    <3>1. lacking \in Nat /\ lacking <= shareBalances[Strategy]
      BY <1>2, <1>3, <2>1
    <3>2. unrolled = WithdrawnFromStrategy(shareBalances, Fragments(lacking))
      BY <2>1
    <3>. HIDE DEF unrolled, lacking
    <3>3. /\ unrolled \in [Holders -> Nat]
          /\ \E a, fee \in Nat :
               /\ fee <= a /\ a <= lacking
               /\ unrolled[Sett] = shareBalances[Sett] + a - fee
               /\ unrolled[Strategy] = shareBalances[Strategy] - a
      BY <3>1, <3>2, PaidToSett
    <3>. QED
      BY SMTT(30), <1>2, <1>3, <2>1, <3>3 DEF lacking
  <2>2. CASE ~(lacking > 0)
    BY <1>2, <2>2 DEF BDiggTypeOK
  <2>. QED
    BY <2>1, <2>2
<1>. HIDE DEF unrolled
<1>6. PICK fee \in Nat :
        /\ unrolled[Sett] + unrolled[Strategy] = PoolShares - fee
        /\ lacking > 0 => unrolled[Sett] <= due - fee
        /\ lacking <= 0 => fee = 0
  BY <1>5
<1>7. payout \in Nat /\ payout <= due /\ payout <= unrolled[Sett]
  <2>. DEFINE m == Smaller(due, unrolled[Sett])
  <2>1. m \in Nat /\ m <= due /\ m <= unrolled[Sett]
    BY <1>3, <1>4, <1>5 DEF Smaller
  <2>. HIDE DEF m
  <2>2. payout \in Nat /\ payout <= m
    BY <2>1, WholeFragments DEF m
  <2>. HIDE DEF payout
  <2>. QED
    BY <1>3, <1>4, <1>5, <2>1, <2>2
<1>. HIDE DEF payout
<1>8. /\ shareBalances' \in [Holders -> Nat]
      /\ shareBalances'[Sett] = unrolled[Sett] - payout
      /\ shareBalances'[Strategy] = unrolled[Strategy]
  <2>1. payout <= unrolled[Sett] /\ unrolled \in [Holders -> Nat]
    BY <1>5, <1>7
  <2>. DEFINE moved == [unrolled EXCEPT ![Sett] = @ - payout, ![u] = @ + payout]
  <2>2. /\ moved \in [Holders -> Nat]
        /\ moved[Sett] = unrolled[Sett] - payout
        /\ \A h \in Holders \ {Sett, u} : moved[h] = unrolled[h]
    BY <1>4, <1>7, <2>1, Moved
  <2>. HIDE DEF moved
  <2>3. shareBalances' = moved
    BY <1>1 DEF moved
  <2>. QED
    BY <1>4, <2>2, <2>3
<1>9. PoolShares' \in Nat /\ PoolShares - due <= PoolShares'
  <2>1. PoolShares' = unrolled[Sett] - payout + unrolled[Strategy]
    BY <1>8 DEF PoolShares
  <2>2. unrolled[Sett] \in Nat /\ unrolled[Strategy] \in Nat /\ lacking \in Int
    BY <1>2, <1>3, <1>4, <1>5
  <2>. HIDE DEF lacking
  <2>. QED
    BY <1>2, <1>3, <1>6, <1>7, <2>1, <2>2
<1>10. WorthKept
  BY <1>1, <1>2, <1>3, <1>9 DEF WorthKept
<1>11. bDigg' \in [Users -> Nat] /\ bDiggSupply' \in Nat
  <2>1. bDigg \in [Users -> Nat] /\ bDigg[u] \in Nat
    BY DEF BDiggTypeOK
  <2>2. bDigg[u] - n \in Nat
    BY <1>1, <2>1
  <2>. QED
    BY <1>1, <1>2, <2>1, <2>2
<1>12. BDiggTypeOK'
  BY <1>8, <1>11 DEF Withdraw, BDiggTypeOK, rate, faucetVars
<1>. QED
  BY <1>10, <1>12
-----------------------------------------------------------------------------
(* The other operations: the pool does not shrink *)

LEMMA EarnKeeps ==
  ASSUME DiggAssumption, BDiggTypeOK, Earn
  PROVE  BDiggTypeOK' /\ WorthKept
<1>. DEFINE n == Available
            x == n * sharesPerFragment
<1>1. /\ Sett \in Holders /\ Strategy \in Holders /\ Sett # Strategy
      /\ shareBalances \in [Holders -> Nat]
  BY DEF DiggAssumption, BDiggTypeOK
<1>2. n \in Nat
  <2>1. BalanceOf(Sett) \in Nat
    BY <1>1, WholeFragments DEF BalanceOf
  <2>2. min \in Nat /\ MaxFee \in Nat /\ MaxFee > 0 /\ min <= MaxFee
    BY DEF BDiggTypeOK, DiggAssumption
  <2>. QED
    BY <2>1, <2>2, PartAtMostWhole DEF Available
<1>3. Move(Sett, Strategy, n)
  BY DEF Earn
<1>. HIDE DEF n
<1>4. /\ x \in Nat /\ x <= shareBalances[Sett]
      /\ shareBalances' = [shareBalances EXCEPT ![Sett] = @ - x, ![Strategy] = @ + x]
  BY <1>1, <1>2, <1>3, MulNat DEF Move, BDiggTypeOK
<1>. HIDE DEF x
<1>5. /\ shareBalances' \in [Holders -> Nat]
      /\ shareBalances'[Sett] = shareBalances[Sett] - x
      /\ shareBalances'[Strategy] = shareBalances[Strategy] + x
  BY <1>1, <1>4, Moved
<1>6. BDiggTypeOK' /\ bDiggSupply' = bDiggSupply
  BY <1>5 DEF Earn, BDiggTypeOK, rate, settVars, faucetVars
<1>7. PoolShares <= PoolShares'
  BY <1>1, <1>4, <1>5 DEF PoolShares
<1>. QED
  BY <1>6, <1>7, PoolNotLess

(* What the faucet pays comes from outside the pool. *)
LEMMA RewardArrives ==
  ASSUME DiggAssumption, BDiggTypeOK, GetRewardGuard
  PROVE  /\ Rewarded \in [Holders -> Nat]
         /\ Rewarded[Sett] = shareBalances[Sett]
         /\ shareBalances[Strategy] <= Rewarded[Strategy]
         /\ LastTimeRewardApplicable \in Nat
<1>. DEFINE n == Fragments(EarnedShares)
            reward == n * sharesPerFragment
            moved == [shareBalances EXCEPT ![Faucet] = @ - reward, ![Strategy] = @ + reward]
<1>1. /\ Sett \in Holders /\ Strategy \in Holders /\ Faucet \in Holders
      /\ Sett # Strategy /\ Faucet # Sett /\ Faucet # Strategy
      /\ shareBalances \in [Holders -> Nat] /\ sharesPerFragment \in Nat
  BY DEF DiggAssumption, BDiggTypeOK
<1>2. LastTimeRewardApplicable \in Nat
  BY DEF LastTimeRewardApplicable, Smaller, BDiggTypeOK
<1>3. EarnedShares \in Nat
  <2>1. LastTimeRewardApplicable - lastUpdateTime \in Nat /\ rewardRate \in Nat
    BY <1>2 DEF GetRewardGuard, FaucetStarted, BDiggTypeOK
  <2>. QED
    BY <2>1, MulNat DEF EarnedShares
<1>4. n \in Nat /\ n <= BalanceOf(Faucet)
  BY <1>3, WholeFragments DEF GetRewardGuard
<1>5. /\ BalanceOf(Faucet) \in Nat
      /\ BalanceOf(Faucet) * sharesPerFragment <= shareBalances[Faucet]
  BY <1>1, WholeFragments DEF BalanceOf
<1>. HIDE DEF n
<1>6. reward \in Nat /\ reward <= BalanceOf(Faucet) * sharesPerFragment
  BY <1>1, <1>4, <1>5, MulNat, MulMono
<1>. HIDE DEF reward
<1>7. reward <= shareBalances[Faucet]
  <2>1. BalanceOf(Faucet) * sharesPerFragment \in Int
    BY <1>1, <1>5
  <2>. QED
    BY <1>1, <1>5, <1>6, <2>1
<1>8. /\ moved \in [Holders -> Nat]
      /\ moved[Strategy] = shareBalances[Strategy] + reward
      /\ moved[Sett] = shareBalances[Sett]
  <2>1. /\ moved \in [Holders -> Nat]
        /\ moved[Strategy] = shareBalances[Strategy] + reward
        /\ \A h \in Holders \ {Faucet, Strategy} : moved[h] = shareBalances[h]
    BY <1>1, <1>6, <1>7, Moved
  <2>. HIDE DEF moved
  <2>. QED
    BY <1>1, <2>1
<1>. HIDE DEF moved
<1>9. Rewarded = moved
  BY DEF Rewarded, moved, reward, n
<1>. QED
  BY <1>1, <1>2, <1>6, <1>8, <1>9

LEMMA HarvestKeeps ==
  ASSUME DiggAssumption, BDiggTypeOK, Harvest
  PROVE  BDiggTypeOK' /\ WorthKept
<1>1. /\ shareBalances' \in [Holders -> Nat]
      /\ shareBalances'[Sett] = shareBalances[Sett]
      /\ shareBalances[Strategy] <= shareBalances'[Strategy]
      /\ lastUpdateTime' \in Nat
  BY RewardArrives DEF Harvest
<1>2. BDiggTypeOK' /\ bDiggSupply' = bDiggSupply
  BY <1>1 DEF Harvest, BDiggTypeOK, rate
<1>3. PoolShares <= PoolShares'
  BY <1>1, <1>2, PoolNat DEF PoolShares, BDiggTypeOK, DiggAssumption
<1>. QED
  BY <1>2, <1>3, PoolNotLess

LEMMA WithdrawAllKeeps ==
  ASSUME DiggAssumption, BDiggTypeOK, WithdrawAll
  PROVE  BDiggTypeOK' /\ WorthKept
<1>. DEFINE exited == Fragments(Rewarded[Strategy]) * sharesPerFragment
            moved == [Rewarded EXCEPT ![Strategy] = @ - exited, ![Sett] = @ + exited]
<1>1. /\ Rewarded \in [Holders -> Nat]
      /\ Rewarded[Sett] = shareBalances[Sett]
      /\ shareBalances[Strategy] <= Rewarded[Strategy]
      /\ LastTimeRewardApplicable \in Nat
  BY RewardArrives DEF WithdrawAll
<1>2. Sett \in Holders /\ Strategy \in Holders /\ Sett # Strategy
  BY DEF DiggAssumption
<1>3. exited \in Nat /\ exited <= Rewarded[Strategy]
  BY <1>1, <1>2, WholeFragments
<1>. HIDE DEF exited
<1>4. /\ moved \in [Holders -> Nat]
      /\ moved[Strategy] = Rewarded[Strategy] - exited
      /\ moved[Sett] = Rewarded[Sett] + exited
  BY <1>1, <1>2, <1>3, Moved
<1>. HIDE DEF moved
<1>5. shareBalances' = moved
  BY DEF WithdrawAll, moved, exited
<1>6. BDiggTypeOK' /\ bDiggSupply' = bDiggSupply
  BY <1>1, <1>4, <1>5 DEF WithdrawAll, BDiggTypeOK, rate
<1>7. PoolShares <= PoolShares'
  <2>1. /\ Rewarded[Strategy] \in Nat
        /\ shareBalances[Sett] \in Nat /\ shareBalances[Strategy] \in Nat
    BY <1>1, <1>2, PoolNat
  <2>2. PoolShares' = (Rewarded[Sett] + exited) + (Rewarded[Strategy] - exited)
    BY <1>4, <1>5 DEF PoolShares
  <2>. QED
    BY <1>1, <1>3, <2>1, <2>2 DEF PoolShares
<1>. QED
  BY <1>6, <1>7, PoolNotLess

(* A rebase changes what a share is worth, not whose it is. *)
LEMMA RebaseDiggKeeps ==
  ASSUME DiggAssumption, BDiggTypeOK, NEW supplyDelta \in Deltas, RebaseDigg(supplyDelta)
  PROVE  BDiggTypeOK' /\ WorthKept
<1>. DEFINE supply == Smaller(totalSupply + supplyDelta, MaxSupply)
<1>1. totalSupply' \in Nat \ {0} /\ sharesPerFragment' \in Nat \ {0}
  <2>1. CASE supplyDelta = 0
    BY <2>1 DEF RebaseDigg, Rebase, rate, BDiggTypeOK
  <2>2. CASE supplyDelta # 0
    <3>1. supply > 0 /\ totalSupply' = supply /\ sharesPerFragment' = TotalShares \div supply
      BY <2>2 DEF RebaseDigg, Rebase, Rebased
    <3>2. supply \in Int /\ supply <= MaxSupply
      BY TokenAssumption DEF BDiggTypeOK, Smaller
    <3>. HIDE DEF supply
    <3>3. supply \in Nat \ {0}
      BY <3>1, <3>2
    <3>4. TotalShares \div supply \in Nat \ {0}
      BY <3>2, <3>3, SupplyInBounds
    <3>. QED
      BY <3>1, <3>3, <3>4
  <2>. QED
    BY <2>1, <2>2
<1>2. UNCHANGED <<shareBalances, settVars>>
  BY DEF RebaseDigg, Rebase
<1>3. BDiggTypeOK' /\ bDiggSupply' = bDiggSupply /\ PoolShares' = PoolShares
  BY <1>1, <1>2 DEF BDiggTypeOK, settVars, faucetVars, PoolShares
<1>. QED
  BY <1>3, PoolNat, PoolNotLess

LEMMA NotifyKeeps ==
  ASSUME DiggAssumption, BDiggTypeOK,
         NEW start \in Starts, NEW duration \in Durations, NEW reward \in RewardsInShares,
         NotifyRewardAmount(start, duration, reward)
  PROVE  BDiggTypeOK' /\ WorthKept
<1>1. start \in Nat /\ duration \in Nat /\ duration > 0 /\ reward \in Nat
  BY DEF DiggAssumption
<1>2. reward \div duration \in Nat /\ start + duration \in Nat
  BY <1>1, FloorBounds
<1>3. BDiggTypeOK' /\ bDiggSupply' = bDiggSupply /\ PoolShares' = PoolShares
  BY <1>1, <1>2 DEF NotifyRewardAmount, BDiggTypeOK, vars, rate, PoolShares
<1>. QED
  BY <1>3, PoolNat, PoolNotLess

LEMMA NothingMoves ==
  ASSUME DiggAssumption, BDiggTypeOK, UNCHANGED <<vars, bDigg, bDiggSupply, min, withdrawalFee, faucetVars>>,
         now' \in Nat
  PROVE  BDiggTypeOK' /\ WorthKept
<1>1. BDiggTypeOK' /\ bDiggSupply' = bDiggSupply /\ PoolShares' = PoolShares
  BY DEF BDiggTypeOK, vars, rate, faucetVars, PoolShares
<1>. QED
  BY <1>1, PoolNat, PoolNotLess
-----------------------------------------------------------------------------
(* The simulation *)

LEMMA HalfNat ==
  ASSUME DiggAssumption, BDiggTypeOK, NEW u \in Users
  PROVE  Half(u) \in Nat
<1>1. shareBalances[u] \in Nat
  BY DEF DiggAssumption, BDiggTypeOK
<1>2. BalanceOf(u) \in Nat
  BY <1>1, WholeFragments DEF BalanceOf
<1>. QED
  BY <1>2, FloorBounds DEF Half

(* One step for each actor; between trips, those of a trip, and the end of *)
(* the run by an exception.                                                *)
LEMMA SimInductive ==
  ASSUME DiggAssumption, BDiggInv, [SimNext]_simVars
  PROVE  BDiggInv' /\ WorthKept
<1>. USE DEF BDiggInv
<1>1. ASSUME NEW u \in Users, DepositAction(u) PROVE BDiggInv' /\ WorthKept
  <2>1. Deposit(u, Half(u)) /\ trip = NoTrip /\ trip' = trip
    BY <1>1 DEF DepositAction, SettDeposit, Between
  <2>. QED
    BY <2>1, HalfNat, DepositKeeps DEF TripOK
<1>2. ASSUME NEW u \in Users, WithdrawAction(u) PROVE BDiggInv' /\ WorthKept
  <2>1. Withdraw(u, bDigg[u]) /\ trip = NoTrip /\ trip' = trip
    BY <1>2 DEF WithdrawAction, Between
  <2>2. bDigg[u] \in Nat
    BY DEF BDiggTypeOK
  <2>. QED
    BY <2>1, <2>2, WithdrawKeeps DEF TripOK
<1>3. ASSUME NEW u \in Users, TripDeposits(u) PROVE BDiggInv' /\ WorthKept
  <2>1. /\ Deposit(u, Half(u))
        /\ trip' = [user |-> u, start |-> BalanceOf(u), held |-> bDigg[u]]
    BY <1>3 DEF TripDeposits, SettDeposit
  <2>2. BDiggTypeOK' /\ WorthKept /\ bDigg[u] <= bDigg'[u]
    BY <2>1, HalfNat, DepositKeeps
  <2>3. trip'.user = u /\ trip'.held = bDigg[u] /\ bDigg[u] \in Nat
    BY <2>1 DEF BDiggTypeOK
  <2>. QED
    BY <2>2, <2>3 DEF TripOK
<1>4. ASSUME TripWithdraws PROVE BDiggInv' /\ WorthKept
  <2>1. PICK u \in Users : u = trip.user /\ Withdraw(u, bDigg[u] - trip.held)
    BY <1>4 DEF TripWithdraws
  <2>2. bDigg[u] - trip.held \in Nat
    BY <1>4, <2>1 DEF TripWithdraws, TripOK, BDiggTypeOK
  <2>3. trip' = NoTrip
    BY <1>4 DEF TripWithdraws
  <2>. QED
    BY <2>1, <2>2, <2>3, WithdrawKeeps DEF TripOK
<1>5. ASSUME UNCHANGED <<vars, settVars, trip>> PROVE BDiggInv' /\ WorthKept
  <2>1. UNCHANGED <<vars, bDigg, bDiggSupply, min, withdrawalFee, faucetVars>> /\ now' \in Nat
    BY <1>5 DEF settVars, BDiggTypeOK
  <2>2. BDiggTypeOK' /\ WorthKept
    BY <2>1, NothingMoves
  <2>. QED
    BY <1>5, <2>1, <2>2 DEF TripOK
<1>6. ASSUME KeeperEarns PROVE BDiggInv' /\ WorthKept
  BY <1>6, EarnKeeps DEF KeeperEarns, Between, TripOK
<1>7. ASSUME KeeperHarvests PROVE BDiggInv' /\ WorthKept
  BY <1>7, HarvestKeeps DEF KeeperHarvests, Between, TripOK
<1>8. ASSUME Rebases PROVE BDiggInv' /\ WorthKept
  <2>1. PICK supplyDelta \in Deltas : RebaseDigg(supplyDelta)
    BY <1>8 DEF Rebases
  <2>. QED
    BY <1>8, <2>1, RebaseDiggKeeps DEF Rebases, Between, TripOK
<1>9. ASSUME Sleep PROVE BDiggInv' /\ WorthKept
  <2>1. /\ UNCHANGED <<vars, bDigg, bDiggSupply, min, withdrawalFee, faucetVars>>
        /\ now' \in Nat
    BY <1>9 DEF Sleep, Tick, BDiggTypeOK
  <2>. QED
    BY <1>9, <2>1, NothingMoves DEF Sleep, Between, TripOK
<1>10. ASSUME Notifies PROVE BDiggInv' /\ WorthKept
  <2>1. PICK start \in Starts, duration \in Durations, reward \in RewardsInShares :
          NotifyRewardAmount(start, duration, reward)
    BY <1>10 DEF Notifies
  <2>. QED
    BY <1>10, <2>1, NotifyKeeps DEF Notifies, Between, TripOK
<1>11. ASSUME Exits PROVE BDiggInv' /\ WorthKept
  BY <1>11, WithdrawAllKeeps DEF Exits, Between, TripOK
<1>12. ASSUME \/ \E u \in Users : WithdrawReverts(u)
              \/ TripReverts
              \/ HarvestReverts
              \/ UNCHANGED simVars
       PROVE  BDiggInv' /\ WorthKept
  <2>1. UNCHANGED <<vars, settVars, trip>>
    BY <1>12 DEF WithdrawReverts, TripReverts, HarvestReverts, Reverts, simVars
  <2>. QED
    BY <1>5, <2>1
<1>. QED
  BY <1>1, <1>2, <1>3, <1>4, <1>6, <1>7, <1>8, <1>9, <1>10, <1>11, <1>12 DEF SimNext

LEMMA SimInitially ==
  ASSUME DiggAssumption, GivenAssumption, SimInit
  PROVE  BDiggInv
<1>1. InitialSharesPerFragment \in Nat \ {0} /\ InitialSupply \in Nat \ {0} /\ TotalShares \in Nat
  BY InitialRate, TokenAssumption
<1>2. shareBalances \in [Holders -> Nat]
  <2>1. PICK given \in Given :
          shareBalances = [h \in Holders |->
            IF h \in DOMAIN given THEN given[h]
            ELSE IF h = Treasury THEN TotalShares - SumFunction(given) ELSE 0]
    BY DEF SimInit
  <2>2. given \in [DOMAIN given -> Nat] /\ SumFunction(given) \in 0..TotalShares
    BY DEF GivenAssumption
  <2>3. TotalShares - SumFunction(given) \in Nat
    BY <1>1, <2>2
  <2>4. \A h \in DOMAIN given : given[h] \in Nat
    BY <2>2
  <2>. QED
    BY <2>1, <2>3, <2>4
<1>3. bDigg \in [Users -> Nat] /\ bDiggSupply \in Nat
  BY DEF SimInit
<1>4. BDiggTypeOK
  BY <1>1, <1>2, <1>3 DEF SimInit, BDiggTypeOK
<1>. QED
  BY <1>4 DEF BDiggInv, TripOK, SimInit

(* A bDIGG never loses worth: for any number of users, any deposits, fees, *)
(* rewards and rebases and any order of the actors (DiggSett.sol:63-116).  *)
THEOREM BDiggWorthKept ==
  ASSUME DiggAssumption, GivenAssumption
  PROVE  SimSpec => BDiggKeepsItsWorth
<1>1. SimInit => BDiggInv
  BY SimInitially
<1>2. BDiggInv /\ [SimNext]_simVars => BDiggInv'
  BY SimInductive
<1>3. BDiggInv /\ [SimNext]_simVars => [WorthKept]_simVars
  BY SimInductive
<1>. QED
  BY <1>1, <1>2, <1>3, PTL DEF SimSpec, BDiggKeepsItsWorth
=============================================================================
