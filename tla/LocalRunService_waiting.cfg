SPECIFICATION FairSpec
CONSTANTS
    r1 = r1
    c1 = c1
    c2 = c2
    NoRun = NoRun
    Runs = {r1}
    Clients = {c1, c2}
    Capacity = 1
    MaxGeneration = 2
    MaxOffloads = 1
    Operations = {"submit", "cancel", "wait"}
CHECK_DEADLOCK FALSE
PROPERTY
    WaitersReturn
