SPECIFICATION Spec
CONSTANTS
  INIT_DATA = 1
  CONT_DATA = 2
  MAX_SEQ = 1
  MAX_LEN = 6
  MAX_MESSAGE = 5
  TIMEOUT_DURATION = 2
  HALF_PERIOD = 2
  BROADCAST = 2
  Commands <- MCCommands
  Bytes <- MCBytes
  Packets <- MCPackets
  Responses <- MCResponses
  NonceLen = 1
  WithCtap1 = TRUE
  Watched = 1
  NoMessage = NoMessage
INVARIANTS
  DeliveredAsSent
  RepliesFit
  BusyOnlyWhileActive
PROPERTIES
  ResyncAnswered
  AcceptedIsDelivered
