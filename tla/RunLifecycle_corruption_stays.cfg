SPECIFICATION Spec
CONSTANTS
    NumPages = 2
    MaxAttempts = 2
    Faults = {"crash", "storage", "render", "analyzer", "config", "corruption"}
PROPERTY
    CorruptionStays
