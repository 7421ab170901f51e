SPECIFICATION Spec
CONSTANTS
    Servers = {v1, v2, v3}
    Channels = {c1, c2}
    States = {s1, s2, s3}
    Clients = {d1, d2}
    Users = {u1}
    DefaultSize = 1
    MaxSize = 2
    AskedPages = {None, 0, 2, 3}
    AskedSizes = {None, 0, 4}
    None = None
SYMMETRY Symmetry
INVARIANTS
    IInv
    PagesTell
    AnswerExact
