SPECIFICATION FairTopSpec
CONSTANTS
  NumRows = 2
  RowWords = 1
  CasLatency = 2
  TrcdCycles = 1
  TrpCycles = 1
  TrfcCycles = 3
  StartDelay = 0
  RefreshCycles = 13
  AddrSpace = 64
  Byte <- MCBytes
  Junk = 0
  IdleData <- OnlyWord
  Requests <- MCRequests
  Contents <- MCContents
  ReadBursts <- ReadOne
  WriteBursts <- WriteOne
  Beats <- MaskedBeats
PROPERTIES
  WritesComplete
