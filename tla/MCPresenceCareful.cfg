SPECIFICATION FairSpec
CONSTANTS
    Clients = {c1, c2, c3}
    States = {s1, s2}
    Leavers = {l1}
    EventCap = 2
    MayRejoin = FALSE
    None = None
INVARIANTS
    OneChannel
    Watch
    ViewExact
PROPERTY JoinDecided
