SPECIFICATION Spec
CONSTANTS
    Self = self
    Peers = {p1, p2}
    NoIp = noIp
    StationCountMax = 2
    Roles = {"host"}
    RelaySettings = {TRUE, FALSE}
    TcpJoins = TRUE
    NifmMayFail = TRUE
SYMMETRY Symmetry
INVARIANT TypeOK
INVARIANT HostTableMatchesSlots
INVARIANT OneRelaySlotPerConsole
