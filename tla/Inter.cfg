SPECIFICATION MCSpec
CONSTANTS
  NumRows = 2
  RowWords = 1
  CasLatency = 2
  TrcdCycles = 1
  TrpCycles = 1
  TrfcCycles = 3
  StartDelay = 0
  RefreshCycles = 17
  AddrSpace = 64
  Byte <- MCBytes
  Junk = 0
  IdleData <- OnlyWord
  Requests <- MCRequests
  Contents0 <- MCContents0
  Contents1 <- MCContents1
  ReadBursts <- ReadLong
  WriteBursts <- WriteRow
  Beats <- FullBeats
INVARIANTS
  PendingAccounted
  WordsInOrder
  ReadsAccounted
  LatchedIsNextOnBoth
  WriteAcksMatch
  WrittenOnBothBeforeAnswered
