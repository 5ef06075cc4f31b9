CONSTANTS
  Bytes = {27, 91, 63, 57, 104}
  IntHalf = 32
  MaxBytes = 5
SPECIFICATION Spec
INVARIANT
  PrivateModesAreParsed
