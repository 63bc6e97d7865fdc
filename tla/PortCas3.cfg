SPECIFICATION ClockedSpec
CONSTANTS
  NumRows = 1
  RowWords = 2
  CasLatency = 3
  TrcdCycles = 1
  TrpCycles = 1
  TrfcCycles = 3
  StartDelay = 0
  RefreshCycles = 12
  Byte <- ThreeBytes
  Junk = 2
  Requests <- SameRow
  Contents <- Blank
PROPERTIES
  IsWordMemory
