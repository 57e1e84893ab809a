SPECIFICATION Spec
CONSTANTS
    Self = self
    Peers = {p1, p2}
    NoIp = noIp
    StationCountMax = 2
    Roles = {"host"}
    RelaySettings = {TRUE}
    TcpJoins = FALSE
    NifmMayFail = FALSE
SYMMETRY Symmetry
INVARIANT RegistryListsLivePeers
