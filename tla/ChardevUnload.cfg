CONSTANTS
    Proc = {p1, p2}
    MsgLen = 1
    MaxOpens = 2
SPECIFICATION Spec
INVARIANT OpenKeepsModule
