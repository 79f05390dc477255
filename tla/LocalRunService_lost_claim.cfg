SPECIFICATION Spec
CONSTANTS
    r1 = r1
    c1 = c1
    NoRun = NoRun
    Runs = {r1}
    Clients = {c1}
    Capacity = 1
    MaxGeneration = 2
    MaxOffloads = 1
    Operations = {"resume"}
CHECK_DEADLOCK FALSE
INVARIANT
    ClaimsCleanedUp
