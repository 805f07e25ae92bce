\* Each script up to twice, with a transaction that fails unnoticed; a pool that
\* takes stakes in its rewards token, two stakers, two notified periods.
SPECIFICATION OperatorSpec
CONSTANTS
  s1 = s1
  s2 = s2
  ren = ren
  badgerSett = badgerSett
  diggSett = diggSett
  diggLp = diggLp
  Accounts = {s1, s2}
  Stakers = {s1, s2}
  SameToken = TRUE
  Precision = 2
  Stakes = {1}
  MaxStake = 1
  Rewards = {3}
  MaxNotified = 6
  Durations = {1, 2}
  Offsets <- AroundNow
  Horizon = 3
  Scripts = {"none", "schedule", "compounded", "transfer", "grant", "distribute", "cover", "weekly", "one_off",
    "deploy", "setup", "digg", "sushiDiggWBtc", "convexRenCrv", "uniGenericLp", "cvx", "sushiWbtcIbBtc"}
  Order <- AllKeys
  Amount <- Weekly
  AllCompounds <- OnlyCompound
  HalfCompounds <- HalfCompound
  GeyserKeys <- WithGeyser
  Unlisted <- NotListed
  TopUp <- TopUps
  HarvestDigg = 2
  Compounded <- Compounding
  DaysSent <- DaysLeft
  SharesPerFragment = 2
  Logged <- OneSett
  Payment <- ToPayments
  Cover = 2
  NoCover = 3
  PoolStart = 2
  PoolDuration = 2
  PoolReward = 3
  EscrowHolds <- Holdings
  MaxRuns = 2
  DeployRuns = 3
  Setts <- AllSetts
  BscSetts <- OnBsc
  MiniSetts = {"sushiDiggWBtc", "convexRenCrv", "uniGenericLp", "cvx", "sushiWbtcIbBtc"}
  ReportDelay = 2
  MaxFaults = 1
SYMMETRY TwoStakers
CHECK_DEADLOCK FALSE
INVARIANTS PoolSolvent LocksAreFunded  WiredTogether  RebaseReady
PROPERTY EarnedIsKept
