SPECIFICATION Spec
CONSTANTS
  Threads = {t1, t2}
  IDLE = IDLE
  NULL = NULL
  QUANTUM = 3
  MaxSleep = 1
INVARIANT KmainFinishes
CHECK_DEADLOCK FALSE
