SPECIFICATION Spec
CONSTANTS
  Size = 5
  Bytes = {0, 1, 200}
  Ints <- MCInts
INVARIANTS
  AsTheStandardMandates
CHECK_DEADLOCK FALSE
