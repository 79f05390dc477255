SPECIFICATION FairSpec
CONSTANTS
    p1 = p1
    p2 = p2
    r1 = r1
    r2 = r2
    None = None
    Processes <- MCProcesses
    Runs <- MCRuns
    MaxBoots = 2
    Faults = {"kill", "power", "io", "database"}
CHECK_DEADLOCK FALSE
INVARIANTS
    TypeOK
    OwnerWritesAlone
    BoundHasSource
    WorkUndisturbed
    ReadyRootIsTidy
    AbandonedSettled
PROPERTIES
    SubmissionsEnd
    ClosingUnlocks
