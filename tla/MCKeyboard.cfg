SPECIFICATION FairSpec
CONSTANTS
  KEYBOARD_BUF_SIZE = 4
  Printable = {30}
  ScanCodes = {29, 30, 42, 54, 58, 59, 158, 170, 182, 224}
INVARIANTS
  ShiftOnlyWhileHeld
PROPERTIES
  ImplementsCharQueue
  GetcharReturns
