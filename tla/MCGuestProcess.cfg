SPECIFICATION ProcSpec
CONSTANTS
  Names <- MCNames
  Urandom = "/dev/urandom"
  NoDirectory <- MCNoDirectory
  Counts <- MCCounts
  Descriptors <- MCDescriptors
  MaxFd = 4
  Domains = {"unix", "inet"}
  BindDomains = {"unix"}
  MaxSockets = 1
  MaxCalls = 3
  MaxForks = 2
CHECK_DEADLOCK FALSE
INVARIANT
  ProcInv
