SPECIFICATION ClientSpec
CONSTANTS
  NumPages = 12
  PageWords = 8
  MaxPageErases = 1
  MaxValueWords = 256
  MaxKey = 6
  MaxUpdates = 31
  WordBits = 32
  MaxWordWrites = 2
  MaxPowerLosses = 0
  NoValue = NoValue
  NoOp = NoOp
  Operations <- MCOperations
INVARIANTS
  AlwaysCompactable
