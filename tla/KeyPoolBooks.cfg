SPECIFICATION Spec
CONSTANTS
  k1 = k1
  k2 = k2
  r1 = r1
  r2 = r2
  r3 = r3
  Keys <- TwoKeys
  Requests <- ThreeRequests
  Selections <- SearchAndResearch
  UsageSnapshots <- SpentOrThree
  GroupSize = 0
  GroupUsageLimit = 2
  RetryAfters = {0, 2}
  DefaultRetryAfter = 1
  MonthLength = 2
  MaxTime = 2
SYMMETRY AnySymmetry
INVARIANTS
  TypeOK
  EstimateIsHeld
  SpentKeyStaysOut
  ProbeFollowsCooldown
PROPERTIES
  ResearchHoldSurvives
  AdmissionFits
  PauseIsOutlived
  CooldownIsServed
  ImplementsLedger
\* The clock stops at MaxTime and every request is used once.
CHECK_DEADLOCK FALSE
