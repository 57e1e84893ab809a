SPECIFICATION Spec
CONSTANTS
    Consoles = {a, b}
    NoPeer = none
    MaxStreams = 1
    PendingMax = 1
    GameFds = {1}
    Dialers = {a, b}
    Writers = {a}
    MaxConnects = 2
    MaxIds = 1
    MaxChunks = 2
    MaxWritten = 2
    MaxReceived = 2
    Stoppers = {}
CHECK_DEADLOCK FALSE
INVARIANT TypeOK
INVARIANT NoCrossTalk
INVARIANT GotAsArrived
