SPECIFICATION Spec
CONSTANTS
  Dispatchers = {d1}
  Bookings = {b1}
  Channels <- TelegramOnly
  Enabled = {"telegram"}
  MaxAttempts = 2
  BatchSize = 2
  LockTTL = 3
  Interval = 1
  SendTimeout = 1
  BaseBackoff = 1
  MaxBackoff = 2
  MaxTime = 5
  MaxFaults = 1
INVARIANT OnlyTelegramDisabled
CHECK_DEADLOCK FALSE
