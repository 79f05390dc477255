SPECIFICATION Spec
CONSTANTS
    NumPages = 2
    MaxAttempts = 2
    Faults = {"crash"}
INVARIANT
    CancelledPagesPending
