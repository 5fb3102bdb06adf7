SPECIFICATION Spec
CONSTANTS
  BLOCK = 2
  WORD = 8
  Archives <- MCArchives
  Lookups <- MCLookups
  Contents <- MCContents
  Vnodes = {1, 2, 3, 4}
  Offsets = {0, 2, 7}
INVARIANTS
  ArchiveIsLoaded
  TreeIsSound
  HandlesStayValid
  ReadIsExact
PROPERTIES
  ImplementsPathMap
  LookupsBalance
CHECK_DEADLOCK FALSE
