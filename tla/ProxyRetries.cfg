SPECIFICATION ProxySafety
CONSTANTS
  k1 = k1
  k2 = k2
  search = search
  rest = rest
  mcp = mcp
  Keys <- TwoKeys
  PlainCalls <- OneSearch
  RestResearch <- OneRest
  McpResearch <- NoCalls
  Estimate <- TwoCredits
  Attempts = 3
  Requests <- LeaseIds
  Selections <- AllSelections
  UsageSnapshots <- FourLeft
  GroupSize = 1
  GroupUsageLimit = 4
  RetryAfters = {1}
  DefaultRetryAfter = 1
  MonthLength = 2
  MaxTime = 1
INVARIANTS
  ProxyTypeOK
  LeaseHasHandler
\* The calls end, and the clock stops at MaxTime.
CHECK_DEADLOCK FALSE
