CONSTANTS
  PageCount = 4
  Perms <- MCPerms
  Contents <- MCContents
  Zero <- MCZero
  MEM_BLOCK_INCR = 2
SPECIFICATION UcSpec
INVARIANT UcInv
PROPERTIES ImplementsPageTable LoopShrinks
