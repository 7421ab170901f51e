SPECIFICATION FairSpec
CONSTANTS
    Clients = {1, 2}
    SrcIds = {1, 2}
    Tasks = {t1, t2}
    Addrs = {a1, a2}
    Packets = {"voice", "ping", "bad"}
    MsgCap = 1
    Allowed = {"drop"}
    None = None
INVARIANTS
    NoLeak
    AnswersGoBack
PROPERTY AbandonedChannelEnds
CHECK_DEADLOCK FALSE
