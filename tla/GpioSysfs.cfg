CONSTANTS
    N = 3
    Proc = {p1, p2}
    Free = Free
SPECIFICATION FairSpec
INVARIANTS
    TypeOK
    Serialised
    FilesHaveData
    RemoveFindsDevices
PROPERTIES
    HandlersReturn
    LoaderTerminates
CHECK_DEADLOCK FALSE
