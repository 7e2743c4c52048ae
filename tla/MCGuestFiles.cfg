SPECIFICATION FilesSpec
CONSTANTS
  Names <- MCNames
  Urandom = "/dev/urandom"
  NoDirectory <- MCNoDirectory
  Counts <- MCCounts
  Descriptors <- MCDescriptors
  MaxFd = 4
CHECK_DEADLOCK FALSE
INVARIANT
  FilesInv
PROPERTIES
  DescriptorsKept
  StreamsAdvance
