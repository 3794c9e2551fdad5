SPECIFICATION Spec
CONSTANTS
  A = A
  B = B
  K1 = K1
  K2 = K2
  R1 = R1
  R2 = R2
  R3 = R3
  None = None
  Account = {A, B}
  Key = {K1, K2}
  Request = {R1}
  Body <- AllBodies
  Hash <- MCHash
  Opening <- Bare
  Csv <- PlainA
  DAILY_LIMIT = 3
  HIGH_VALUE_THRESHOLD = 2
  MAX_RETRIES = 3
  MaxInFlight = 1
  MaxTime = 0
  TicksPerDay = 2
  MaxCrashes = 1
  MaxChanges = 0
  Revision <- NoRevision
  Faults = {"net", "db"}
CHECK_DEADLOCK FALSE
INVARIANTS
  BalanceAfterWasReal
  MoneyMovesInOrder
PROPERTIES
  NothingDoneAfterAnswer
  ImplementsSaga
