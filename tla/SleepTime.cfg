SPECIFICATION SpecTime
CONSTANTS
  Threads = {t1, t2}
  IDLE = IDLE
  NULL = NULL
  QUANTUM = 3
  MaxSleep = 3
INVARIANT SleepLastsItsMs
CHECK_DEADLOCK FALSE
