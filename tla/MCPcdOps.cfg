CONSTANTS
    p1 = p1
    p2 = p2
    f1 = f1
    f2 = f2
    d1 = d1
    d2 = d2
    Proc = {p1, p2}
    File = {f1, f2}
    Dev = {d1}
    Size <- OneSize
    Perm <- OnePerm
    Byte = {0, 1}
    Zero = 0
    MaxCount = 2
    NoProc = NoProc
    NoDev = NoDev
    NoArg = NoArg
SPECIFICATION Spec
SYMMETRY Symmetry
CHECK_DEADLOCK FALSE
INVARIANTS
    TypeOK
    CopyIsolated
    CopyInBounds
PROPERTY ImplementsAtomic
