SPECIFICATION Spec
CONSTANTS
    Session = {a, b}
    Overlay = overlay
    Address = {x, y}
    None = none
    PingMaxMisses = 1
    UserLines = 2
    LinesRead = 1
SYMMETRY Alike
INVARIANT TypeOK
INVARIANT NifmHeld
INVARIANT BridgeIsOpen
INVARIANT PumpEndsWithTransports
INVARIANT OneClientId
INVARIANT FileKept
