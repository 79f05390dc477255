SPECIFICATION Spec
CONSTANTS
    Missing = Missing
    Empty = Empty
    None = None
    NumPages = 3
    MaxRenders = 4
    Faults = {"kill", "power", "io", "render"}
CHECK_DEADLOCK FALSE
INVARIANTS
    TypeOK
    RenderUnblocked
PROPERTY
    ImplementsContract
