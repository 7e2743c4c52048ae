CONSTANTS
  PAGE_SIZE = 2
  PAGES = 2
  MAX_TBS = 3
  SMC_BITMAP_USE_THRESHOLD = 2
  BranchTo = 0
  Untils <- MCUntils
  RemoveLen = 2
  Patches <- MCPatches
SPECIFICATION TbSpec
INVARIANTS
  TbInv
  CodeCurrent
  HaltsOnlyAtUntil
PROPERTY
  EntersCurrent
