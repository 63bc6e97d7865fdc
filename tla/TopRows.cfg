SPECIFICATION TopSpec
CONSTANTS
  NumRows = 2
  RowWords = 1
  CasLatency = 2
  TrcdCycles = 1
  TrpCycles = 1
  TrfcCycles = 3
  StartDelay = 0
  RefreshCycles = 26
  AddrSpace = 64
  Byte <- MCBytes
  Junk = 0
  IdleData <- OnlyWord
  Requests <- MCRequests
  Contents <- MCContents
  ReadBursts <- RowOne
  WriteBursts <- RowZero
  Beats <- FullBeats
INVARIANTS
  PmemTypeOK
  BeatsInPlace
  LatchedIsNext
  WrittenBeforeAnswered
  AcksMatch
PROPERTIES
  IsSdramChip

