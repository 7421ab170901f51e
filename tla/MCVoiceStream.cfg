SPECIFICATION FairSpec
CONSTANTS
    Period = 2
    Reads = {1, 4}
    MaxFrames = 6
    RecordSlots = 1
    Width = 8
    Starts = {0, 2, 6}
    MaxRepeated = 1
    PlaySlots = 2
    MaxBuffered = 2
    MaxConcealed = 1
INVARIANTS
    ChunksExact
    Accounted
    OrderKept
PROPERTIES
    BufferDrains
    EndsWithSource
    CallbackReturns
CHECK_DEADLOCK FALSE
