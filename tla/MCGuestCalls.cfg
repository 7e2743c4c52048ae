SPECIFICATION CallsSpec
CONSTANTS
  Files <- MCFiles
  NotShared = {"exe"}
  Names = {"f", "g", "dlopen", "property"}
  Symbol <- MCSymbol
  SymHooks <- MCSymHooks
  MaxModules = 3
  HostNames = {"f", "dlopen"}
  Constructors <- MCConstructors
  JniIds = {0, 3}
  Unimplemented = {0}
  MaxLevel = 2
  MaxHooks = 2
  MaxStack = 3
CHECK_DEADLOCK FALSE
INVARIANTS
  CallsInv
  BindingsAgree
  SlotsJustified
  ReturnsToCaller
  ConstructorsCalled
PROPERTY JniAnswered
