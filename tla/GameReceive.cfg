SPECIFICATION FairSpec
CONSTANTS
    Threads = {t1, t2}
    s1 = s1
    s2 = s2
    Sockets = {s1, s2}
    PortOf <- TwoPorts
    NoSocket = none
    MaxEntries = 2
    MaxFrames = 3
    MaxSessions = 2
CHECK_DEADLOCK FALSE
INVARIANT TypeOK
INVARIANT ServedInOrder
PROPERTY RingIsQueue
PROPERTY WaitEnds
