SPECIFICATION ThrottleSafety
CONSTANTS
  k1 = k1
  k2 = k2
  s1 = s1
  Keys <- TwoKeys
  Settlements <- OneSettlement
  Grouping = TRUE
  Period = 4
  Jitter = 0
  SuccessFloor = 1
  RetryBackoff = 2
  RateFloor = 5
  RetryAfters = {1}
PROPERTY ThrottleHolds
