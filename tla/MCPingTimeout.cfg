SPECIFICATION Spec
CONSTANTS
  PING_INTERVAL = 120
  PING_TIMEOUT = 120
  SweepPeriod = 30
  MaxPass = 2
CHECK_DEADLOCK FALSE
INVARIANTS SilenceIsBounded DroppedAfterGrace
