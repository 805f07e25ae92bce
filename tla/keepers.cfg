\* Each of the four scripts, two Setts, up to three failures.
CONSTANTS
  k1 = k1
  k2 = k2
  Setts = {k1, k2}
  Scripts = {"earn", "harvest", "tend", "rebase"}
  Order <- TwoSetts
  SettsToSkip <- SkipSecondForTend
  Overrides <- OneOverride
  EarnRatio = 1
  Kinds <- CurveAndNone
  GasCost = 1
  MinProfit = 0
  RunInterval <- Intervals
  TxWait = 2
  BlockTime = 1
  Unbound = Unbound
  Nobody = Nobody
  Keeper = Keeper
  Manager = Manager
  Accounts = {Keeper, Manager}
  ManagerIsLocal = TRUE
  Threshold = 4
  MaxFaults = 3
  MaxWant = 3
  MaxYield = 2
SPECIFICATION Spec
INVARIANTS NoMissedAlarm
PROPERTIES AlarmIsDue WorkGetsDone
