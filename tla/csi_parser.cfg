CONSTANTS
  Bytes = {27, 91, 57, 59, 33, 63, 104}
  IntHalf = 32
  MaxBytes = 7
SPECIFICATION Spec
INVARIANTS
  TypeOK
  LeftoverIsEnough
  CommandsAreInStream
  SequencesAreParsed
