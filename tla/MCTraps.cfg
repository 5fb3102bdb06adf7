SPECIFICATION Spec
CONSTANTS
  BYTE = 2
  SIZEOF_TSS = 4
  Stubs <- MCStubs
INVARIANTS
  TrapsAreTransparent
CHECK_DEADLOCK FALSE
