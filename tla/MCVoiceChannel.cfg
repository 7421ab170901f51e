SPECIFICATION Spec
CONSTANTS
    Clients = {1, 2}
    SrcIds = {1, 2, 3}
    Tasks = {t1, t2, t3}
    Addrs = {a1}
    Packets = {"ping"}
    MsgCap = 1
    Allowed = {"reopen", "drop"}
    None = None
SYMMETRY Symmetry
INVARIANTS
    AlwaysPresent
    EndsIdle
    IInv
PROPERTY SessionPromise
CHECK_DEADLOCK FALSE
