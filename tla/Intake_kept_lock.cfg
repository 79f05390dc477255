SPECIFICATION FairSpec
CONSTANTS
    p1 = p1
    p2 = p2
    r1 = r1
    r2 = r2
    None = None
    Processes <- MCProcesses
    Runs <- MCRuns
    MaxBoots = 1
    Faults = {"io"}
CHECK_DEADLOCK FALSE
PROPERTY
    ClosingAlwaysUnlocks
