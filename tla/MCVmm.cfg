SPECIFICATION Spec
CONSTANTS
  Indices = {0, 1, 2}
  KernelIndices = {1, 2}
  Virts <- MCVirts
  Phys = {101, 102}
  MaxFrames = 6
  MaxPagemaps = 1
INVARIANTS
  TablesDistinct
  KernelHalfShared
  TlbCoherent
PROPERTY ImplementsAddressSpaces
