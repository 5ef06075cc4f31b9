CONSTANTS
  BlockSize = 2
  MaxStarts = 2
  MaxBytes = 4
SPECIFICATION Spec
INVARIANTS
  TypeOK
  OutputIntact
  SpinsOnFullBlocks
  NothingDangles
