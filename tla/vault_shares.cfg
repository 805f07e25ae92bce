\* Two accounts and a strategy whose partial exits may fall short: rounding, fees, losses.
CONSTANTS
  u1 = u1
  u2 = u2
  Users = {u1, u2}
  Contracts = {}
  Strategies = {s1}
  NoStrategy = NoStrategy
  NoList = NoList
  GuestLists <- NoGuestLists
  Approvals <- NoApprovals
  MaxFee = 4
  Mins = {3}
  Fees = {1}
  Thresholds = {0, 2}
  Amounts = {0, 1, 2, 3, 4, 5}
  InitialWant = 2
  MaxWant = 5
  PartialSlip = 1
  FullSlip = 0
SPECIFICATION Spec
CHECK_DEADLOCK FALSE
INVARIANTS Redeemable
PROPERTIES PricePerShareNeverFalls PayoutIsProRata ImplementsShareVault
