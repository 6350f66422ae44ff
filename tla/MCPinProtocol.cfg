CONSTANTS
  four = four
  six = six
  padded = padded
  NoPin = NoPin
  NoRp = NoRp
  NoCommand = NoCommand
  Garbage = Garbage
  WrongLength = WrongLength
  Pins = {four, six, padded}
  PinLength <- MCPinLength
  RpIds = {rp1, rp2}
  MinLengths = {3, 5}
  MAX_PIN_RETRIES = 8
  MAX_MISMATCHES = 3
  DEFAULT_MIN_PIN_LENGTH = 4
  PIN_PADDED_LENGTH = 64
  WithCtap21 = TRUE
SPECIFICATION Spec
INVARIANTS
  GuessesPaid
  GuessesPerBoot
  TokenMatchesPin
  OneRpPerToken
  FullRetriesWithoutPin
PROPERTY BlockedUntilReset
