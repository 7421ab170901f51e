SPECIFICATION Spec
CONSTANTS
    Clients = {1, 2}
    SrcIds = {1, 2}
    Tasks = {t1, t2}
    Addrs = {a1}
    Packets = {"ping"}
    MsgCap = 1
    Allowed = {}
    None = None
INVARIANT PeersPaired
CHECK_DEADLOCK FALSE
