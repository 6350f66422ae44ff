SPECIFICATION Spec
CONSTANTS
  NumPages = 3
  PageWords = 9
  MaxPageErases = 1
  MaxValueWords = 2
  MaxKey = 1
  MaxUpdates = 2
  WordBits = 3
  MaxWordWrites = 2
  MaxPowerLosses = 1
  NoValue = NoValue
  NoOp = NoOp
  Operations <- CrashOperations
INVARIANTS
  RecoverySucceeds
  DeletedValuesWiped
  FlashRespected
PROPERTIES
  SpaceKept
  LogKept
