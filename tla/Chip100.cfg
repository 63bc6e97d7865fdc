SPECIFICATION TimingSpec
CONSTANTS
  NumRows = 2
  RowWords = 1
  CasLatency = 2
  TrcdCycles = 2
  TrpCycles = 2
  TrfcCycles = 6
  StartDelay = 0
  RefreshCycles = 30
  Byte <- MCBytes
  Junk = 0
  Requests <- MCRequests
  Contents <- MCContents
INVARIANTS
  TypeOK
  ChipAssertions
  RightRow
  BusExclusive
  BurstsUndisturbed
  RefreshOnTime
  PoweredUp
  TimesKept
