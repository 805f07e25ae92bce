\* Two windows and a change between them, prices below and above the target, and
\* a list of up to two transactions to a destination that may revert.
SPECIFICATION Spec
CONSTANTS
  owner = owner
  feed = feed
  pair = pair
  pool = pool
  Holders = {owner}
  Owner = owner
  Treasury = owner
  Spenders = {}
  InitialSupply = 3
  TotalShares = 48
  MaxWord = 60
  MaxAllowance = 0
  MaxSupply = 4
  MintAmount = 1
  Values = {}
  Deltas = {}
  Addresses = {feed}
  Payloads = {3, 10}
  Start = 9
  Horizon = 13
  MaxExpiration = 5
  Expirations = {5}
  Delays = {1}
  Minimums = {1}
  Unit = 5
  MaxRate = 9
  PolicyMaxSupply = 5
  BaseCpi = 5
  Cpis = {5}
  Thresholds = {1}
  Lags = {0, 1, 2}
  Timings <- TwoTimings
  Destinations = {pair}
  MaxTransactions = 2
INVARIANT WindowOpens
PROPERTY OneRebasePerWindow TowardsTarget
