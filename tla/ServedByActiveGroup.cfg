SPECIFICATION CoordSafety
CONSTANTS
  k1 = k1
  k2 = k2
  r1 = r1
  r2 = r2
  r3 = r3
  Keys <- TwoKeys
  Requests <- TwoRequests
  Selections <- OneSearch
  UsageSnapshots <- SpentOrThree
  GroupSize = 1
  GroupUsageLimit = 1
  RetryAfters = {0}
  DefaultRetryAfter = 1
  MonthLength = 1
  MaxTime = 1
PROPERTY ServedByActiveGroup
CHECK_DEADLOCK FALSE
