SPECIFICATION Spec
CONSTANTS
    HeaderSize = 2
    BufferSize = 6
    MaxRun = 2
    Payloads <- Messages
    Inputs <- UpToSixBytes
    MaxSent = 3
    MaxNoise = 2
CHECK_DEADLOCK FALSE
INVARIANT TypeOK
INVARIANT CompressionUndone
INVARIANT EndsBySender
INVARIANT StrayCostsOne
PROPERTY ImplementsChannel
