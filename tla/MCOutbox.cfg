SPECIFICATION Spec
CONSTANTS
  Dispatchers = {d1, d2}
  Bookings = {b1}
  Channels <- TelegramOnly
  Enabled = {"telegram"}
  MaxAttempts = 2
  BatchSize = 2
  LockTTL = 3
  Interval = 1
  SendTimeout = 1
  BaseBackoff = 1
  MaxBackoff = 2
  MaxTime = 4
  MaxFaults = 2
CONSTRAINT NoneCancelled
SYMMETRY Symmetry
INVARIANTS SettledTruly OneSender RepeatedOnlyAfterTrouble IInv
PROPERTIES SettledFinal ImplementsDelivery
CHECK_DEADLOCK FALSE
