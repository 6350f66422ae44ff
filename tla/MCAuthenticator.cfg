SPECIFICATION Spec
CONSTANTS
  RpIds = {1, 2}
  Users = {1, 2}
  Creations <- MixedCreations
  MAX_SUPPORTED_RESIDENTIAL_KEYS = 2
  INITIAL_SIGNATURE_COUNTER = 1
  Increments = {1, 2}
  CounterModulus = 4
  RESET_TIMEOUT = 1
  STATEFUL_COMMAND_TIMEOUT = 2
  TOUCH_TIMEOUT = 1
  WithCtap1 = TRUE
  Materials = {m1, m2}
  MaxIssued = 2
  MaxUnattested = 0
  MaxEra = 1
  MaxListed = 1
  NoCredential = NoCredential
  NoUser = NoUser
  NoInput = NoInput
  NoCommand = NoCommand
  NoMaterial = NoMaterial
SYMMETRY MaterialSymmetry
INVARIANTS
  CounterIncreases
  HandlesOpen
PROPERTIES
  AttestationPaired
  ResetOnlyAfterBoot
