SPECIFICATION Spec
CONSTANTS
  Threads = {t1, t2, t3}
  IDLE = idle
  NULL = null
INVARIANTS
  ListIsSound
PROPERTIES
  ImplementsReadyQueue
