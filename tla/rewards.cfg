\* Two holders and the tree, native.digg and two boosted Setts, two harvests
\* and a schedule at any block, up to two cycles.
CONSTANTS
  u1 = u1
  u2 = u2
  tree = tree
  badger = badger
  cvx = cvx
  nativeDigg = nativeDigg
  curve = curve
  convex = convex
  Accounts = {u1, u2, tree}
  Tokens = {badger, cvx}
  Tree = tree
  AccountOrder <- TwoHolders
  Order <- ThreeSetts
  DiggSetts = {nativeDigg}
  BadgerSetts = {}
  Boosted = {curve, convex}
  Uncounted = {}
  NoRewards = {nativeDigg}
  Redistributed = {convex}
  Price <- Prices
  Wallet <- Wallets
  SharesPerFragment = 6
  Claimable <- WaitingInTree
  MaxBoost = 3
  Dust = 1
  TimeOf <- Timestamps
  Histories <- Moves
  Offers <- TwoOffers
  Yields <- TwoYields
  SanityBase = 14
  SanityRate = 1
  MaxHeight = 5
  Buffer = 1
  MaxSchedules = 1
  MaxHarvests = 2
SPECIFICATION Spec
CHECK_DEADLOCK FALSE
INVARIANTS BoostFollowsStake
PROPERTIES  HarvestsArePaid EntriesAreProven
