SPECIFICATION Spec
CONSTANTS
    h1 = h1
    h2 = h2
    p1 = p1
    p2 = p2
    EmptyMemory = EmptyMemory
    NoContent = NoContent
    NoFile = NoFile
    Headings = {h1, h2}
    Positions = {p1, p2}
    NumPages = 2
    MaxAttempts = 2
    MaxAlterations = 3
    Answers <- MCAnswers
    Faults = {"crash", "storage", "alteration"}
CHECK_DEADLOCK FALSE
INVARIANTS
    TypeOK
    RunnerFollowsAnswers
    AuditExact
    NothingRefused
    PublishedFollowsAnswers
