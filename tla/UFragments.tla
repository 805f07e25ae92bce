------------------------------ MODULE UFragments ------------------------------
(***************************************************************************)
(* UFragments: the DIGG token.  Balances are kept in shares, of which      *)
(* TOTAL_SHARES exist from the start, and read in fragments:               *)
(* _sharesPerFragment shares make one.  A rebase changes the supply of     *)
(* fragments and with it the rate, never anybody's shares.                 *)
(*                                                                         *)
(* Whoever may call what (monetary policy, owner) is left to the modules   *)
(* that compose this one.                                                  *)
(***************************************************************************)
EXTENDS Integers, FiniteSets, Functions

CONSTANTS
  Holders,         \* valid recipients
  Owner,           \* who receives the initial supply
  Treasury,        \* TREASURY_OPS_MSIG
  Callers,         \* holders that call the token and receive from it
  Spenders,        \* holders that get allowances
  InitialSupply,   \* MAX_FRAGMENTS_SUPPLY
  TotalShares,     \* TOTAL_SHARES, the largest multiple of it that fits a word
  MaxWord,         \* the largest uint256
  MaxAllowance,    \* the same for an allowance
  MaxSupply,       \* MAX_SUPPLY
  MintAmount,      \* MINT_AMOUNT
  Values,          \* fragments a call may name
  Deltas           \* supplyDelta, the policy's argument

(* "MAX_SUPPLY = maximum integer < (sqrt(4*TOTAL_SHARES + 1) - 1) / 2"      *)
ASSUME TokenAssumption ==
  /\ IsFiniteSet(Holders)
  /\ Owner \in Holders /\ Treasury \in Holders
  /\ Callers \subseteq Holders /\ Spenders \subseteq Holders
  /\ InitialSupply \in Nat \ {0} /\ MaxSupply \in Nat /\ MintAmount \in Nat
  /\ InitialSupply <= MaxSupply
  /\ TotalShares \in Nat /\ TotalShares % InitialSupply = 0
  /\ MaxSupply * (MaxSupply + 1) < TotalShares
  /\ MaxWord \in Nat /\ TotalShares <= MaxWord
  /\ MaxAllowance \in Nat /\ \A value \in Values : value <= MaxAllowance
  /\ Values \subseteq Nat /\ Deltas \subseteq Int

VARIABLES
  totalSupply,
  sharesPerFragment,
  shareBalances,
  allowedFragments,
  rebasePaused,
  remDiggMint

rate == <<totalSupply, sharesPerFragment>>
vars == <<rate, shareBalances, allowedFragments, rebasePaused, remDiggMint>>

TypeOK ==
  /\ totalSupply \in Nat \ {0}
  /\ sharesPerFragment \in Nat \ {0}
  /\ shareBalances \in [Holders -> 0..MaxWord]
  /\ allowedFragments \in [Holders -> [Spenders -> 0..MaxAllowance]]
  /\ rebasePaused \in BOOLEAN
  /\ remDiggMint \in BOOLEAN

Init ==
  /\ totalSupply = InitialSupply
  /\ sharesPerFragment = TotalShares \div InitialSupply
  /\ shareBalances = [h \in Holders |-> IF h = Owner THEN TotalShares ELSE 0]
  /\ allowedFragments = [h \in Holders |-> [s \in Spenders |-> 0]]
  /\ rebasePaused = TRUE
  /\ remDiggMint = FALSE

-----------------------------------------------------------------------------
(* Reading *)

Fragments(shares) == shares \div sharesPerFragment

BalanceOf(h) == Fragments(shareBalances[h])

SharesInExistence == SumFunction(shareBalances)

-----------------------------------------------------------------------------
(* Writing *)

Smaller(a, b) == IF a < b THEN a ELSE b

Rebased_FromOldSupply(supply) ==
  /\ totalSupply' = supply
  /\ sharesPerFragment' = TotalShares \div totalSupply

Rebased(supply) ==
  /\ totalSupply' = supply
  /\ sharesPerFragment' = TotalShares \div supply

(* A change of nothing returns before the rate is computed again; a supply *)
(* of nothing reverts in the division.                                     *)
Rebase(supplyDelta) ==
  LET supply == Smaller(totalSupply + supplyDelta, MaxSupply)
  IN
  /\ ~rebasePaused
  /\ IF supplyDelta = 0 THEN UNCHANGED rate
     ELSE supply > 0 /\ Rebased(supply)
  /\ UNCHANGED <<shareBalances, allowedFragments, rebasePaused, remDiggMint>>

Move_RoundsDown(from, to, value) ==
  LET shareValue == Smaller(value * sharesPerFragment, shareBalances[from])
      debited == [shareBalances EXCEPT ![from] = @ - shareValue]
  IN
  /\ value <= BalanceOf(from) + 1
  /\ debited[to] + shareValue <= MaxWord
  /\ shareBalances' = [debited EXCEPT ![to] = @ + shareValue]

(* The shares of value fragments, at the rate of the moment. *)
Move(from, to, value) ==
  LET shareValue == value * sharesPerFragment
      debited == [shareBalances EXCEPT ![from] = @ - shareValue]
  IN
  /\ shareValue <= shareBalances[from]
  /\ debited[to] + shareValue <= MaxWord
  /\ shareBalances' = [debited EXCEPT ![to] = @ + shareValue]

Transfer(from, to, value) ==
  /\ Move(from, to, value)
  /\ UNCHANGED <<rate, allowedFragments, rebasePaused, remDiggMint>>

TransferFrom(spender, from, to, value) ==
  /\ value <= allowedFragments[from][spender]
  /\ allowedFragments' = [allowedFragments EXCEPT ![from][spender] = @ - value]
  /\ Move(from, to, value)
  /\ UNCHANGED <<rate, rebasePaused, remDiggMint>>

Allow(h, spender, value) ==
  /\ allowedFragments' = [allowedFragments EXCEPT ![h][spender] = value]
  /\ UNCHANGED <<rate, shareBalances, rebasePaused, remDiggMint>>

Approve(h, spender, value) == Allow(h, spender, value)

IncreaseAllowance(h, spender, value) ==
  /\ allowedFragments[h][spender] + value <= MaxAllowance
  /\ Allow(h, spender, allowedFragments[h][spender] + value)

(* What is more than the allowance takes all of it. *)
DecreaseAllowance(h, spender, value) ==
  Allow(h, spender, allowedFragments[h][spender]
                      - Smaller(value, allowedFragments[h][spender]))

(* The shares minted come on top of TOTAL_SHARES. *)
OneTimeMint ==
  LET shareValue == MintAmount * sharesPerFragment
  IN
  /\ ~remDiggMint
  /\ shareBalances[Treasury] + shareValue <= MaxWord
  /\ shareBalances' = [shareBalances EXCEPT ![Treasury] = @ + shareValue]
  /\ totalSupply' = totalSupply + MintAmount
  /\ remDiggMint' = TRUE
  /\ UNCHANGED <<sharesPerFragment, allowedFragments, rebasePaused>>

ToggleRebase ==
  /\ rebasePaused' = ~rebasePaused
  /\ UNCHANGED <<rate, shareBalances, allowedFragments, remDiggMint>>

(* What holders and the owner do; a rebase is the policy's. *)
TokenStep ==
  \/ \E h, to \in Callers, value \in Values :
       \/ Transfer(h, to, value)
       \/ \E s \in Spenders : TransferFrom(s, h, to, value)
  \/ \E h \in Callers, s \in Spenders, value \in Values :
       \/ Approve(h, s, value)
       \/ IncreaseAllowance(h, s, value)
       \/ DecreaseAllowance(h, s, value)
  \/ OneTimeMint
  \/ ToggleRebase

Next == TokenStep \/ \E supplyDelta \in Deltas : Rebase(supplyDelta)

Spec == Init /\ [][Next]_vars

-----------------------------------------------------------------------------
(* Properties *)

(* "If address 'A' transfers x Fragments to address 'B'. A's resulting     *)
(* external balance will be decreased by precisely x Fragments, and B's    *)
(* external balance will be precisely increased by x Fragments": with the  *)
(* shares below one fragment that rebases leave everywhere.                *)
TransferIsExact ==
  [][\A from, to \in Callers, value \in Values :
       from # to /\ Transfer(from, to, value) =>
         /\ BalanceOf(from)' = BalanceOf(from) - value
         /\ BalanceOf(to)' = BalanceOf(to) + value
         /\ \A h \in Holders \ {from, to} : BalanceOf(h)' = BalanceOf(h)]_vars

(* The fragments that the shares in existence are worth are the total      *)
(* supply, although the rate is rounded: the deviation the comment in      *)
(* rebase speaks of stays below one.                                       *)
SupplyAgrees == Fragments(SharesInExistence) = totalSupply

(* Until the one-time mint that holds. *)
SupplyAgreesUntilMint == remDiggMint \/ SupplyAgrees
=============================================================================
