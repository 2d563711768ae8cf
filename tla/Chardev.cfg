CONSTANTS
    Proc = {p1, p2, p3}
    MsgLen = 2
    MaxOpens = 3
SPECIFICATION Spec
INVARIANTS
    TypeOK
    ExclusiveOpen
    MessageIsOwn
    UsageCountAccurate
PROPERTY CountedIsNotStranded
