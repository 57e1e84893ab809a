SPECIFICATION FairSpec
CONSTANTS
    Self = self
    Peers = {p1}
    NoIp = noIp
    StationCountMax = 1
    Roles = {"station"}
    RelaySettings = {TRUE, FALSE}
    TcpJoins = TRUE
    NifmMayFail = TRUE
INVARIANT ConnectedOnlyWithTarget
INVARIANT DeadSocketIsMarked
INVARIANT SessionWholeOrGone
PROPERTY CallsReturn
PROPERTY RunningWorkerIsJoined
