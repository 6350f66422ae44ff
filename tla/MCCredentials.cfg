SPECIFICATION Spec
CONSTANTS
  RpIds = {1, 2}
  Users = {1, 2}
  Creations <- ResidentCreations
  MAX_SUPPORTED_RESIDENTIAL_KEYS = 2
  INITIAL_SIGNATURE_COUNTER = 1
  Increments = {1}
  CounterModulus = 2
  RESET_TIMEOUT = 1
  STATEFUL_COMMAND_TIMEOUT = 1
  TOUCH_TIMEOUT = 1
  WithCtap1 = FALSE
  Materials = {}
  MaxIssued = 4
  MaxUnattested = 4
  MaxEra = 0
  MaxListed = 2
  NoCredential = NoCredential
  NoUser = NoUser
  NoInput = NoInput
  NoCommand = NoCommand
  NoMaterial = NoMaterial
INVARIANTS
  OneCredentialPerUser
  NewestFirst
  AssertionsLive
  ProtectedNeedsUv
