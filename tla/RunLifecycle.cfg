SPECIFICATION FairSpec
CONSTANTS
    NumPages = 3
    MaxAttempts = 2
    Faults = {"crash", "storage", "render", "analyzer", "config", "corruption"}
INVARIANTS
    TypeOK
    LedgerInvariant
    AttemptBudget
    CompletedIsWhole
    ReleasedSettled
    RunnerAtHead
    DestinationsFree
    FlaggedOutcome
    RecoveryAccepts
    PublishedReported
PROPERTIES
    ImplementsContract
    AcceptedWorkEnds
    CancellationTakesEffect
