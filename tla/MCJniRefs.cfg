CONSTANTS
    c1 = c1
    a1 = a1
    o1 = o1
    o2 = o2
    Null = Null
    Classes <- MCClasses
    Arrays <- MCArrays
    Others <- MCOthers
    LocalStart = 1
    LocalSize = 1
    GlobalStart = 4
    GlobalSize = 1
    MaxLocals = 4
    MaxGlobals = 2
SPECIFICATION Spec
INVARIANT RefsInv
PROPERTY DeletesThatReference
