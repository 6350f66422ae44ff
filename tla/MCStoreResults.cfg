SPECIFICATION Spec
CONSTANTS
  NumPages = 3
  PageWords = 8
  MaxPageErases = 1
  MaxValueWords = 2
  MaxKey = 1
  MaxUpdates = 2
  WordBits = 3
  MaxWordWrites = 2
  MaxPowerLosses = 0
  NoValue = NoValue
  NoOp = NoOp
  Operations <- ResultOperations
PROPERTIES
  Atomic
