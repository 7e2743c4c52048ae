CONSTANTS
  Begin = 1
  End = 5
  Sizes <- MCSizes
  MaxPos = 7
  MaxBlocks = 5
  Lengths <- MCLengths
SPECIFICATION BuffersSpec
INVARIANTS Tiled Coalesced BuffersInv
PROPERTIES ImplementsPool FreeReleases
