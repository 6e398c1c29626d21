SPECIFICATION Spec
CONSTANTS
    Fd = {a, b, c}
    Nobody = Nobody
    MaxId = 2
    MaxFileSize = 2
    MaxChunk = 1
    IdleTimeout = 1
    MaxPass = 2
INVARIANTS
    IInv
    OneActivePerPair
    BooksAgree
PROPERTIES
    TransfersGoForward
    StalledEnds
