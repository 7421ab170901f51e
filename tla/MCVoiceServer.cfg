SPECIFICATION FairSpec
CONSTANTS
    Channels = {c1, c2}
    Instances = {i1, i2}
    Callers = {k1, k2}
    FirstPort = 1
    LastPort = 2
    NotifyCap = 1
    MayPanic = TRUE
    None = None
INVARIANTS
    PortsOwned
    CleanupSparesLive
    IInv
PROPERTIES
    EndedIsRemoved
    CallersAnswered
