SPECIFICATION FairSpec
CONSTANTS
  Threads = {t1, t2, t3}
  IDLE = IDLE
  NULL = NULL
  QUANTUM = 3
  MaxSleep = 3
INVARIANTS
  Inv
  NoThreadLost
  RunsOnOwnStack
  SleepAndExitHold
PROPERTIES
  ExitIsFinal
  ReadyRuns
  SleepReturns
  ExitLeavesCpu
CHECK_DEADLOCK FALSE
