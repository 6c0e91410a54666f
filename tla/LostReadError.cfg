SPECIFICATION Spec
CONSTANTS
    Streams <- LongStream
    UTFMax = 2
    BufferSize = 5
    Faults = {0, 1}
    MaxMarks = 1
    MaxHeld = 1
    MaxRead = 1
INVARIANT ReadErrorReported
