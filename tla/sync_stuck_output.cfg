CONSTANTS
  t1 = t1
  NoThread = NoThread
  Threads = {t1}
  Sizes <- MCSizes
  Header = 2
  DefaultMax = 6
  Limits = {}
  MaxLimit = 6
  Timeout = 2
  Clock <- MCClock
  WordSize = 8
  MaxItems = 1
SPECIFICATION TimedSpec
PROPERTIES
  BufferedOutputAppears
