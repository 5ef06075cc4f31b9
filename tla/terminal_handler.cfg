CONSTANTS
  Chunks <- MCChunks
  Bytes <- MCBytes
  IntHalf = 128
  Header = 2
  DefaultLimit = 4
  Limits = {2, 4}
  MaxCalls = 2
SPECIFICATION Spec
INVARIANTS
  TypeOK
  GateFollowsMode
  PlainTextAppears
  
  LaterTurnsDoNothing
PROPERTIES
  OutputOnlyGrows
