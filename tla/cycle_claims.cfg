\* One combined script, two tokens, partial claims; fair, for the liveness.
SPECIFICATION FairSpec
CONSTANTS
  u1 = u1
  badger = badger
  digg = digg
  proposer = proposer
  guardian = guardian
  operator = operator
  second = second
  Users = {u1}
  Tokens = {badger, digg}
  Amounts = {0, 2}
  Proposers = {}
  Guardians = {}
  Operators = {operator}
  MaxHeight = 6
  Earned <- EarnedUnevenly
  Buffer = 1
  MinInterval = 2
  MaxStartBlockAge = 5
  MaxLag = 4
  MaxRun = 1
INVARIANTS ClaimedWithinTree NextCycleComputable
PROPERTIES ImplementsLedger 
