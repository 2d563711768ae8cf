CONSTANTS
    Columns = 2
    Chars = {42}
SPECIFICATION Spec
INVARIANTS
    TypeOK
    InStep
PROPERTY ImplementsDisplay
