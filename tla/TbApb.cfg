SPECIFICATION FairMCSpec
CONSTANTS
  AddrSpace = 16
  Calls <- MCCalls
  ByteValues <- MCBytes
INVARIANTS
  ApbRules
PROPERTIES
  IsBlockDriver
  CallsReturn
