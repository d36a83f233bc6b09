SPECIFICATION LiveSpec
CONSTANTS
  Dispatchers = {d1}
  Bookings = {b1}
  Channels <- TelegramOnly
  Enabled = {"telegram"}
  MaxAttempts = 2
  BatchSize = 2
  LockTTL = 1
  Interval = 1
  SendTimeout = 0
  BaseBackoff = 1
  MaxBackoff = 2
  MaxTime = 10
  MaxFaults = 1
INVARIANTS AttemptsBounded
PROPERTIES OrderKept EveryNoticeSettled
CHECK_DEADLOCK FALSE
