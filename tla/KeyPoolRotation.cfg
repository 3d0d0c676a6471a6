SPECIFICATION Spec
CONSTANTS
  k1 = k1
  k2 = k2
  r1 = r1
  r2 = r2
  r3 = r3
  Keys <- TwoKeys
  Requests <- TwoRequests
  Selections <- SearchAndLargeResearch
  UsageSnapshots <- SpentOrFour
  GroupSize = 1
  GroupUsageLimit = 2
  RetryAfters = {0}
  DefaultRetryAfter = 1
  MonthLength = 2
  MaxTime = 2
SYMMETRY PairSymmetry
INVARIANTS
  RotationIndexSafe
  RoundBudget
  NeverOvercharged
  ChargedGroupOwnsKey
\* The clock stops at MaxTime and every request is used once.
CHECK_DEADLOCK FALSE
