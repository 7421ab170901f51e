SPECIFICATION Spec
CONSTANTS
    Clients = {c1, c2}
    Gateways = {g1, g2}
    States = {s1, s2}
    Leavers = {l1, l2}
    EventCap = 2
    PipeCap = 1
    MayRejoin = FALSE
    MayFail = TRUE
    None = None
SYMMETRY Symmetry
INVARIANTS
    Watch
    HashAccounted
    ViewExact
