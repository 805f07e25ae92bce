\* The automatic scripts: one proposer, two guardians, and a stretch of blocks
\* in which nothing is earned.  Nobody claims.
SPECIFICATION Spec
CONSTANTS
  u1 = u1
  badger = badger
  digg = digg
  proposer = proposer
  guardian = guardian
  operator = operator
  second = second
  Users = {u1}
  Tokens = {badger}
  Amounts = {}
  Proposers = {proposer}
  Guardians = {guardian, second}
  Operators = {}
  MaxHeight = 5
  Earned <- EarnedWithLull
  Buffer = 1
  MinInterval = 2
  MaxStartBlockAge = 5
  MaxLag = 4
  MaxRun = 1
SYMMETRY GuardianSymmetry
INVARIANT PublishedIsEarned
PROPERTIES CyclesInOrder
