SPECIFICATION FairClientSpec
CONSTANTS
    Sources = {s1}
    Own = own
    MaxAttempts = 2
    OutSlots = 1
    IncSlots = 1
    VoiceSlots = 1
    MaxEvents = 1
    MaxCopies = 1
    OutputMissing = TRUE
    None = None
INVARIANTS
    ClientIInv
    ViewFollows
    TodoNeedsRepeat
PROPERTIES
    Heard
    ClientEnds
CHECK_DEADLOCK FALSE
