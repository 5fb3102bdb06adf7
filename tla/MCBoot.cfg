SPECIFICATION FairSpec
CONSTANTS
  UINT8 = 5
  MaxKeys = 2
  MaxPeriods = 2
  MaxYields = 1
  MaxClis = 1
  BYTE = 4
  PIT_TICKS = 6
  RATE = 10
  MaxGap = 2
  MAX_CPUS = 2
  MAX_ISOS = 1
  Machines <- MCMachines
INVARIANTS
  MadtIsRead
  CalibrationIsRight
  EoiMatches
  OnlyOursComeIn
  TicksAreCounted
PROPERTIES
  BootEnds
  KeyIsRead
CHECK_DEADLOCK FALSE
