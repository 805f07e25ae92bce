----------------------------- MODULE ShareVault -----------------------------
(***************************************************************************)
(* What a Sett promises its holders, with none of the machinery: a pot of  *)
(* one asset, and shares that are pro-rata claims on it.  Every rounding   *)
(* goes to the pot, never to the account that deposits or redeems, so the  *)
(* value of the shares that stay is never diluted.                         *)
(*                                                                         *)
(* SettVault (the Sett, its Controller and its Strategy) implements this   *)
(* specification with assets = Sett.balance().                             *)
(***************************************************************************)
EXTENDS Integers

CONSTANTS
  Holders,    \* the accounts that can hold shares
  Amounts     \* the amounts an operation can move; Nat, or a bounded part of it

VARIABLES
  assets,     \* Sett.balance(): the underlying the shares are a claim on
  supply,     \* ERC20 totalSupply() of the shares
  shares      \* ERC20 balanceOf

vars == <<assets, supply, shares>>

TypeOK ==
  /\ assets \in Nat
  /\ supply \in Nat
  /\ shares \in [Holders -> Nat]

Init ==
  /\ assets = 0
  /\ supply = 0
  /\ shares = [h \in Holders |-> 0]

(***************************************************************************)
(* a of the asset comes in and n shares are issued to h: one for one when  *)
(* there are none, otherwise no more than a's part of the pot.             *)
(***************************************************************************)
Mint(h, a, n) ==
  /\ IF supply = 0 THEN n = a ELSE n * assets <= a * supply
  /\ assets' = assets + a
  /\ supply' = supply + n
  /\ shares' = [shares EXCEPT ![h] = @ + n]

(***************************************************************************)
(* h gives up n shares and a of the asset leaves the pot: no more than the *)
(* n shares' part of it.                                                   *)
(***************************************************************************)
Redeem(h, n, a) ==
  /\ n <= shares[h] /\ n <= supply
  /\ a <= assets
  /\ a * supply <= n * assets
  /\ assets' = assets - a
  /\ supply' = supply - n
  /\ shares' = [shares EXCEPT ![h] = @ - n]

Transfer(f, t, n) ==
  /\ n <= shares[f]
  /\ shares' = IF f = t THEN shares
                        ELSE [shares EXCEPT ![f] = @ - n, ![t] = @ + n]
  /\ UNCHANGED <<assets, supply>>

(* Yield, or a gift: the pot only grows. *)
Gain(a) ==
  /\ assets' = assets + a
  /\ UNCHANGED <<supply, shares>>

Next ==
  \/ \E h \in Holders, a, n \in Amounts : Mint(h, a, n)
  \/ \E h \in Holders, n, a \in Amounts : Redeem(h, n, a)
  \/ \E f, t \in Holders, n \in Amounts : Transfer(f, t, n)
  \/ \E a \in Amounts : Gain(a)

Spec == Init /\ [][Next]_vars

-----------------------------------------------------------------------------
(* Every share outstanding is worth at least the one unit of the asset it  *)
(* was first issued for.                                                   *)
Backed == supply <= assets

(* The asset per share, assets / supply, does not fall in a step.          *)
PriceNeverFalls ==
  [][(supply > 0 /\ supply' > 0) => assets' * supply >= assets * supply']_vars
=============================================================================
