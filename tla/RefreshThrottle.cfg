SPECIFICATION ThrottleSpec
CONSTANTS
  k1 = k1
  k2 = k2
  s1 = s1
  Keys <- TwoKeys
  Settlements <- OneSettlement
  Grouping = TRUE
  Period = 3
  Jitter = 1
  SuccessFloor = 1
  RetryBackoff = 1
  RateFloor = 2
  RetryAfters = {1}
INVARIANTS
  ThrottleTypeOK
  SlotRespectsFloor
  OnlyStragglersBreakFloor
PROPERTIES
  SweepEnds
  KeysRefreshed
