\* Two users, every kind of strategy, every order of the simulation's actions.
CONSTANTS
  u1 = u1
  u2 = u2
  Users = {u1, u2}
  Contracts = {}
  Strategies = {s1}
  NoStrategy = NoStrategy
  NoList = NoList
  NoTrip = NoTrip
  GuestLists <- NoGuestLists
  Approvals <- NoApprovals
  MaxFee = 5
  Mins = {4}
  Fees = {1}
  Thresholds = {0}
  Amounts = {0}
  InitialWant = 4
  MaxWant = 12
  PartialSlip = 0
  FullSlip = 0
  Kinds = {"badger", "sushi", "farm", "convex", "helper", "curve", "pancake", "badgerLp", "diggLp", "uni"}
  GovernanceFee = 1
  StrategistFee = 1
  KeepRate = 1
  CompoundRate = 1
  CompoundFee = 2
  SharePrices = {1, 2}
  Rewards1 = {1, 5}
  MaxReward = 6
SYMMETRY UserSymmetry
SPECIFICATION SimSpec
CHECK_DEADLOCK FALSE
INVARIANTS NothingLeftBehind FeesAreTakenOnce
PROPERTIES ConfirmationsHold
