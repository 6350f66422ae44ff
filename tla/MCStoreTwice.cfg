SPECIFICATION Spec
CONSTANTS
  NumPages = 3
  PageWords = 9
  MaxPageErases = 0
  MaxValueWords = 2
  MaxKey = 1
  MaxUpdates = 2
  WordBits = 3
  MaxWordWrites = 2
  MaxPowerLosses = 2
  NoValue = NoValue
  NoOp = NoOp
  Operations <- TwiceOperations
PROPERTIES
  OnlyClearsBits
  Atomic
