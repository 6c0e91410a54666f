SPECIFICATION Spec
CONSTANTS
    Streams <- MCStreams
    UTFMax = 2
    BufferSize = 5
    Faults = {1}
    MaxMarks = 2
    MaxHeld = 1
    MaxRead = 2
INVARIANTS
    TypeOK
    BufferIsWindow
    MarksHold
    CacheIsNext
    RightAnswers
    TokensIntact
    NothingButTail
