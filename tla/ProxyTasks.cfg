SPECIFICATION ProxySpec
CONSTANTS
  k1 = k1
  k2 = k2
  search = search
  rest = rest
  mcp = mcp
  Keys <- TwoKeys
  PlainCalls <- NoCalls
  RestResearch <- OneRest
  McpResearch <- OneMcp
  Estimate <- TwoCredits
  Attempts = 3
  Requests <- LeaseIds
  Selections <- AllSelections
  UsageSnapshots <- FourLeft
  GroupSize = 0
  GroupUsageLimit = 4
  RetryAfters = {1}
  DefaultRetryAfter = 1
  MonthLength = 2
  MaxTime = 0
INVARIANTS
  AttemptsDistinct
  HoldHasWayOut
PROPERTY HoldsSettle
\* The calls end, and the clock stands still.
CHECK_DEADLOCK FALSE
