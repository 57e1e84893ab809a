SPECIFICATION FairSpec
CONSTANTS
    Station = {s1}
    Slots = 1
    SeqSpace = 16
    Window = 4
    Timeout = 2
    Starts = {12}
    MaxLag = 3
    MaxJump = 1
    MaxSyncs = 5
    MaxEpochs = 2
    MaxCalls = 2
    MaxInFlight = 3
    MaxRepeats = 1
CHECK_DEADLOCK FALSE
INVARIANT TypeOK
PROPERTY NewestSyncWins
PROPERTY GoneIsReaped
PROPERTY DeadHostIsLeft
