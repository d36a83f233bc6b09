\* Two requests and two due notices over a pool of two connections.
SPECIFICATION LiveSpec
CONSTANTS
  Handlers = {h1, h2}
  Scheduler = scheduler
  Listener = listener
  Notices = {n1, n2}
  NoNotice = NoNotice
  PoolSize = 2
CHECK_DEADLOCK FALSE
INVARIANTS
  IInv
  CleanExitAnswersAll
  NoStatementAtExit
  AtMostOneRepeated
PROPERTIES
  ShutdownEnds
  EveryQueryEnds
