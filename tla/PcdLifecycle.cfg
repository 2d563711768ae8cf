CONSTANTS
    N = 4
    File = {f1, f2, f3}
SPECIFICATION FairSpec
INVARIANTS
    TypeOK
    LayersOrdered
    AllOrNothing
    UnloadWaitsForFiles
PROPERTY LoaderTerminates
