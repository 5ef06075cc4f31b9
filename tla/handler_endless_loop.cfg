CONSTANTS
  Chunks <- MCTest
  Bytes <- MCBytes
  IntHalf = 128
  Header = 2
  DefaultLimit = 4
  Limits = {4}
  MaxCalls = 1
SPECIFICATION FairSpec
PROPERTIES
  ProcessInputReturns
