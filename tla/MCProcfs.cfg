CONSTANTS
    p1 = p1
    p2 = p2
    b1 = b1
    b2 = b2
    Proc = {p1, p2}
    Max = 2
    HelloLen = 1
    Byte = {b1, b2}
    MaxLen = 3
    Unknown = Unknown
SPECIFICATION Spec
SYMMETRY Symmetry
INVARIANTS
    TypeOK
    CopyInBounds
    UndisturbedCalls
    HandlersInModule
