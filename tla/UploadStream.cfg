SPECIFICATION Spec
CONSTANTS
    percent = percent
    other = other
    None = None
    Bytes <- MCBytes
    PDF_SIGNATURE <- MCSignature
    MaxFileBytes = 4
    OverheadBytes = 2
    MaxMessage = 3
    MaxChunk = 3
INVARIANTS
    StoredIsUploaded
    RefusalsJustified
