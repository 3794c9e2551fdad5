SPECIFICATION FairSpec
CONSTANTS
  MAX_RETRIES = 3
  TIMEOUT_MS = 5000
  BASE_DELAY_MS = 200
  ErrorStatus <- MCErrorStatus
INVARIANTS
  TypeOK
  DurationBounded
PROPERTIES
  ImplementsContract
  CallEnds
CHECK_DEADLOCK FALSE
