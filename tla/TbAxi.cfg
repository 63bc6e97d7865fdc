SPECIFICATION FairMCSpec
CONSTANTS
  AddrSpace = 64
  IdleData <- EmptyWord
  Calls <- MCCalls
  Ids <- MCIds
  ByteValues <- MCBytes
  m_enable_bursts = TRUE
  MaxDue = 2
INVARIANTS
  ResponsesExpected
PROPERTIES
  IsBlockDriver
  IsPortClient
  IsAxiMaster
  CallsReturn
