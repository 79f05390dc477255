SPECIFICATION Spec
CONSTANTS
    r1 = r1
    r2 = r2
    c1 = c1
    c2 = c2
    NoRun = NoRun
    Runs = {r1, r2}
    Clients = {c1, c2}
    Capacity = 1
    MaxGeneration = 2
    MaxOffloads = 1
    Operations = {"submit", "resume", "cancel"}
SYMMETRY Symmetric
CHECK_DEADLOCK FALSE
INVARIANTS
    TypeOK
    SingleOwner
    LiveRunsOwned
    ReservationsHold
PROPERTY
    SilentAfterClose
