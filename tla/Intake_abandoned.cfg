SPECIFICATION Spec
CONSTANTS
    p1 = p1
    p2 = p2
    r1 = r1
    r2 = r2
    None = None
    Processes <- MCProcesses
    Runs <- MCRuns
    MaxBoots = 1
    Faults = {"database"}
SYMMETRY Symmetry
CHECK_DEADLOCK FALSE
INVARIANT
    FailedSubmissionSettled
