SPECIFICATION Spec
CONSTANTS
    Channels = {c1}
    Servers = {s1, s2}
    g1 = g1
    g2 = g2
    p1 = p1
    p2 = p2
    p3 = p3
    Gateways = {g1, g2}
    Sessions = {p1, p3}
    Home <- HomeOfTwo
    None = None
PROPERTY ReturnedIsStored
