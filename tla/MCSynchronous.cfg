SPECIFICATION MCSpec
CONSTANTS
  Server = {"server"}
  Script = {"script"}
  Account = {"a1", "a2"}
  Txn = {"t1", "t2", "demo"}
  Demo = {"demo"}
  LastVersion = 2
  AccountRows <- MCAccountRows
  TxnRows <- MCTxnRows
  FirstFiles = {{"accounts"}, {"accounts", "transactions"}}
  MaxFaults = 2
  Kind = {"out", "in"}
  Cap = 2
  Default = 2
  LimitQuery <- MCLimits
  FromQuery <- MCFrom
  ToQuery <- MCTo
  SecondsPerDay = 2
  MaxRows = 3
  MaxTime = 2
  HALF = 7
  Char = {34, 46, 49, 56}
  Spread = 10
  MaxLen = 4
  IdValue = {"absent", "blank", "word", "number"}
  KeyValue = {"absent", "word", "long", "object"}
  ChannelValue = {"absent", "empty", "word", "channel", "object"}
  FreeValue = {"absent", "word", "number", "true", "object"}
CHECK_DEADLOCK FALSE
INVARIANTS
  MarkedIsLoaded
  OneCharacterTells
  ShortChangeTells
  OnlyFreeTextUnrecordable
  NothingMissed
  WalkIsOrderly
  PageBounded
PROPERTIES
  BootEnds
