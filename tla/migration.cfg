CONSTANTS
  ren = ren
  obtc = obtc
  oldRen = oldRen
  newRen = newRen
  newObtc = newObtc
  Wants = {ren, obtc}
  Strategies = {oldRen, newRen, newObtc}
  Want <- MCWant
  Native = Native
  Experimental = Experimental
  Controllers = {Native, Experimental}
  NoStrategy = NoStrategy
  Dev = Dev
  Ops = Ops
  Test = Test
  Timelock = Timelock
  Accounts = {Dev, Ops, Test, Timelock}
  Governance <- MCGovernance
  AdminOwner <- MCAdminOwner
  OldStrategies = {oldRen}
  Campaigns <- MCCampaigns
  Delay = 1
  GracePeriod = 1
  EtaAhead = 2
  MaxWant = 1
  MaxTime = 4
  MaxPosted = 2
  MaxFunctions = 2
  MaxQueued = 1
  Nothing = Nothing
SPECIFICATION Spec
INVARIANT NothingOutOfReach
PROPERTY ApprovalHadNotice
PROPERTY RemovedIsExecuted
CHECK_DEADLOCK FALSE
