CONSTANTS
  t1 = t1
  t2 = t2
  NoThread = NoThread
  Threads = {t1, t2}
  Sizes <- MCSizes
  Header = 2
  DefaultMax = 6
  Limits <- MCLimits
  MaxLimit = 6
  Timeout = 2
  Clock <- MCClock
  WordSize = 8
  MaxItems = 3
SPECIFICATION FairSpec
INVARIANTS
  TypeOK
  NothingStranded
  FullMeansFlushing
  LateItemsLeave
  MemoryBound
  DirectOnlyWhenOff
  ExactlyOnce
  SerialOrder
  SizeAccounting
PROPERTIES
  DisabledOutputAppears
  ImplementsGate
