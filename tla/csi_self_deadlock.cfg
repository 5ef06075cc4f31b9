CONSTANTS
  t1 = t1
  NoThread = NoThread
  Threads = {t1}
  Bytes = {27, 91, 104}
  IntHalf = 32
  MaxBytes = 3
SPECIFICATION LockedSpec
PROPERTIES
  ProcessByteReturns
CHECK_DEADLOCK FALSE
