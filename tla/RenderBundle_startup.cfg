SPECIFICATION Spec
CONSTANTS
    Missing = Missing
    Empty = Empty
    None = None
    NumPages = 1
    MaxRenders = 1
    Faults = {"kill"}
CHECK_DEADLOCK FALSE
INVARIANT
    StartupAuditsEveryRun
