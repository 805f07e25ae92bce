\* Two holders, one a spender; the supply between 1 and 6 fragments, 48 shares.
\* Or two users of a Sett, a faucet notified twice and more, with and without a fee.
SPECIFICATION HoldersSpec
CONSTANTS
  owner = owner
  treasury = treasury
  u1 = u1
  u2 = u2
  faucet = faucet
  Holders = {owner, treasury, u1, u2, sett, strategy, faucet, rewards}
  Callers = {owner, treasury}
  Owner = owner
  Treasury = treasury
  Spenders = {owner, treasury}
  InitialSupply = 4
  TotalShares = 48
  MaxWord = 50
  MaxAllowance = 2
  MaxSupply = 6
  MintAmount = 1
  Values = {1, 2}
  Deltas <- SmallDeltas
  Users = {u1, u2}
  sett = sett
  strategy = strategy
  rewards = rewards
  Sett = sett
  Strategy = strategy
  Faucet = faucet
  Rewards = rewards
  ExtraScale = 2
  MaxFee = 4
  Mins = {3}
  Fees = {0, 1}
  Starts = {1, 2}
  Durations = {1, 2}
  RewardsInShares = {12}
  Last = 2
  Given <- HalfOfIt
  NoTrip = NoTrip
INVARIANT SupplyAgreesUntilMint
PROPERTY TransferIsExact BDiggKeepsItsWorth 
CHECK_DEADLOCK FALSE
