CONSTANTS
  t1 = t1
  t2 = t2
  Sync = Sync
  AutoWrap = AutoWrap
  ShowCursor = ShowCursor
  Threads = {t1, t2}
  Modes = {Sync, AutoWrap, ShowCursor}
  MaxCalls = 4
SPECIFICATION FairSpec
INVARIANTS
  PendingIsCurrent
  NoChangeForgotten
  SerialViewAgrees
PROPERTIES
  ToggleTakesEffect
  EveryCallReturns
CHECK_DEADLOCK FALSE
