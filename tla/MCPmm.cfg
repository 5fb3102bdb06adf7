SPECIFICATION Spec
CONSTANTS
  PAGE_SIZE = 2
  MemMaps <- MCMemMaps
INVARIANTS
  FreePagesExact
  PagesAccounted
  BitmapKeepsItsPages
PROPERTY ImplementsPageAllocator
CHECK_DEADLOCK FALSE
