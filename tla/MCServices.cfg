SPECIFICATION Spec
CONSTANTS
  QueueSize = 2
  Buffers = 1
  MaxConns = 2
  MaxUpdates = 1
  MaxAnswers = 2
INVARIANTS ServicesTypeOK NoLostWakeup SendsAreAddressed TagHasLatestContent CrashIsProvoked
CHECK_DEADLOCK FALSE
