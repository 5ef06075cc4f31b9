CONSTANTS
  BlockSize = 2
  MaxStarts = 1
  MaxBytes = 2
SPECIFICATION Spec
PROPERTIES
  SlotReturns
