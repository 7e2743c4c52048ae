SPECIFICATION MemSpec
CONSTANTS
  PageSize = 2
  ModulesMin = 8
  ModulesMax = 16
  HeapMin = 20
  HeapMax = 22
  MappingMin = 24
  MappingMax = 28
  MmapSizes <- MCSizes
  MmapProts <- MCProts
  Addresses <- MCAddresses
  Images <- MCImages
  MaxPos = 26
  MaxModules = 3
CHECK_DEADLOCK FALSE
INVARIANT
  MemInv
PROPERTIES
  MmapServed
  LoadsBySegments
