SPECIFICATION HostSpec
CONSTANTS
  NumRows = 1
  RowWords = 1
  CasLatency = 2
  TrcdCycles = 1
  TrpCycles = 1
  TrfcCycles = 3
  StartDelay = 0
  RefreshCycles = 12
  Byte <- MCBytes
  Junk = 2
  HostPins <- MCPins
  HostData <- MCData
INVARIANTS
  BurstsStored
PROPERTIES
  BurstsFetched
