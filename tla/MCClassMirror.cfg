CONSTANTS
    c1 = c1
    c2 = c2
    c3 = c3
    a1 = a1
    o1 = o1
    Null = Null
    Classes <- MCClasses
    Arrays <- MCArrays
    Others <- MCOthers
    LocalStart = 1
    LocalSize = 3
    GlobalStart = 5
    GlobalSize = 3
    MaxLocals = 1
    MaxGlobals = 1
    Klasses = {"pkg.A", "B"}
    Packaged = {"pkg.A"}
    Members <- MCMembers
    MaxIds = 1
SYMMETRY MCSymmetry
SPECIFICATION MirrorSpec
INVARIANT MirrorInv
