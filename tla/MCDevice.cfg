SPECIFICATION Spec
CONSTANTS
  Packets <- MCPackets
  NoPacket = NoPacket
  Waiting = Waiting
  HALF_PERIOD = 4
  REQUEST_DURATION = 1
  PRESENCE_DURATION = 2
  STATEFUL_DURATION = 2
  RESET_DURATION = 1
  WINK_DURATION = 1
  TIMEOUT_ITERATIONS = 2
  REPLY_PACKETS = 2
  OLD = 3
INVARIANTS
  PresenceJustified
  PermissionsFresh
  SentIsTaken
  KernelPanicsOnlyOnStale
PROPERTY Responsive
