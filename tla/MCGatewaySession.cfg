SPECIFICATION FairSpec
CONSTANTS
    Channels = {c1, c2}
    Attempts = {a1, a2}
    InCap = 1
    OutCap = 1
    Floods = FALSE
    None = None
INVARIANTS
    IInv
    ClientKnows
    
PROPERTIES
    SessionCompletes
    DeadVoiceNoticed
CHECK_DEADLOCK FALSE
