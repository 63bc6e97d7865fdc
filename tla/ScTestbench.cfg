SPECIFICATION FairScSpec
CONSTANTS
  BUS_APB = FALSE
  MasterValues <- MCMasterValues
  RtlStep <- MCRtlStep
  RtlOut <- MCRtlOut
  RtlReset = 1
  Unknown = 0
  Iterations = 2
INVARIANTS
  RunsAll
PROPERTIES
  IsSynchronous
  Stops
CHECK_DEADLOCK FALSE
