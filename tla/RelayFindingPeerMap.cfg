SPECIFICATION Spec
CONSTANTS
    a = a
    b = b
    s = s
    ip1 = ip1
    ip2 = ip2
    ip3 = ip3
    t1 = t1
    t2 = t2
    Console = {a, b, s}
    Address = {ip1, ip2, ip3}
    Real <- SharedAddress
    Scope = {t1, t2}
    Unscoped = unscoped
    Start <- TwoSessions
    PeerMapMax = 1
    MaxMoves = 0
    MaxFaults = 0
PROPERTY StrangerTakesNoPlace
