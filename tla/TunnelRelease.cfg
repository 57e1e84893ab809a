SPECIFICATION FairSpec
CONSTANTS
    Consoles = {a, b}
    NoPeer = none
    MaxStreams = 1
    PendingMax = 1
    GameFds = {1}
    Dialers = {a}
    Writers = {a}
    MaxConnects = 2
    MaxIds = 2
    MaxChunks = 1
    MaxWritten = 2
    MaxReceived = 1
    Stoppers = {a}
CHECK_DEADLOCK FALSE
PROPERTY OwnCloseIsReleased
