CONSTANTS
  w1 = w1
  w2 = w2
  Workers = {w1, w2}
  Main = Main
  a = a
  b = b
  Ids = {a, b}
  MainId = MainId
  NoId = NoId
  StaticCount = 1
  MaxValues = 2
SPECIFICATION Spec
INVARIANTS
  TypeOK
  SlotsAreSound
  GetIsOwn
PROPERTIES
  FinishedIsFreed
