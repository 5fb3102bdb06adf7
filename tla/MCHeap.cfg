SPECIFICATION Spec
CONSTANTS
  PAGE_SIZE = 16
  ALLOC_HEADER = 3
  SLAB_HEADER = 3
  SlabSizes <- MCSlabSizes
  PT_SPAN = 2
  PhysPages = 5
  VPages = 4
  Sizes = {1, 5, 10, 13, 14}
INVARIANTS
  OnePageOneUse
  ObjectsAccounted
  BlocksUsable
  NullMeansExhausted
CHECK_DEADLOCK FALSE
