SPECIFICATION Spec
CONSTANTS
  Request = {r1, r2}
  MAX_RETRIES = 2
  MaxEffects = 1
  MaxDeaths = 1
  MaxGone = 1
INVARIANTS TypeOK NoticeStandsOnLedger NoticeAccounted
PROPERTIES GracefulKeepsWaiting ShutdownEnds NoticeSettles
CHECK_DEADLOCK FALSE
