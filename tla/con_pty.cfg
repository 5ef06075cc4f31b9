CONSTANTS
  MaxStarts = 2
  MaxBlocks = 2
SPECIFICATION Spec
INVARIANTS
  TypeOK
  OutputIntact
  NewsIsAnnounced
  ReleasedOnce
  EventLoopIsSafe
PROPERTIES
  StoppedReaderEnds
