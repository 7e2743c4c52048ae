CONSTANTS
  UC_MAX_NESTED_LEVEL = 2
  Callbacks <- MCCallbacks
SPECIFICATION EmuSpec
INVARIANTS EmuInv StopIsHeard ErrorOfOwnLevel
PROPERTIES StopEndsLevel TimeoutEndsLoop JoinReturns
