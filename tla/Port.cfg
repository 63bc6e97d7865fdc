SPECIFICATION ClockedSpec
CONSTANTS
  NumRows = 2
  RowWords = 2
  CasLatency = 2
  TrcdCycles = 1
  TrpCycles = 1
  TrfcCycles = 3
  StartDelay = 0
  RefreshCycles = 14
  Byte <- ThreeBytes
  Junk = 2
  Requests <- TwoRows
  Contents <- Blank
PROPERTIES
  IsWordMemory
  HeldIsAccepted
