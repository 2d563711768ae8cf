CONSTANTS
    p1 = p1
    p2 = p2
    f1 = f1
    f2 = f2
    d1 = d1
    Proc = {p1, p2}
    File = {f1}
    Dev = {d1}
    Size <- OneSize
    Perm <- OnePerm
    Byte = {0, 1}
    Zero = 0
    MaxCount = 2
    NoProc = NoProc
    NoDev = NoDev
    NoArg = NoArg
SPECIFICATION SingleFairSpec
INVARIANTS
    SingleTypeOK
    MutexAccounted
    Stacked
PROPERTY SignalledCallsReturn
