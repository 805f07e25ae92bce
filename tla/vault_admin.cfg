\* Guest list, contract access, allowances and both pauses, and migrations that
\* may lose a unit.
CONSTANTS
  u1 = u1
  u2 = u2
  Users = {u1, u2}
  Contracts = {u2}
  Strategies = {s1, s2}
  NoStrategy = NoStrategy
  NoList = NoList
  GuestLists <- OneGuestList
  Approvals <- OneApproval
  MaxFee = 4
  Mins = {3, 4}
  Fees = {1}
  Thresholds = {0}
  Amounts = {1, 2}
  InitialWant = 1
  MaxWant = 3
  PartialSlip = 0
  FullSlip = 1
SPECIFICATION Spec
CHECK_DEADLOCK FALSE
INVARIANT NothingStranded
