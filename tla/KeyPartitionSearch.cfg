SPECIFICATION SearchSpec
CONSTANTS
  KeyCount = 5
  MaxAmount = 4
  MaxSize = 3
INVARIANT SearchIsOptimal
PROPERTY SearchReturns
\* A behaviour ends with its one rebuild.
CHECK_DEADLOCK FALSE
