SPECIFICATION FairMemTestSpec
CONSTANTS
  AddrSpace = 12
  ByteValues <- MCBytes
  MAX_REGIONS = 2
  MaxLength = 2
  Iterations <- MCIterations
  NewRegions <- MCNewRegions
  Data <- MCData
INVARIANTS
  AssertsHold
PROPERTIES
  Completes
CHECK_DEADLOCK FALSE
