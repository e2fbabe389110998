SPECIFICATION Spec
CONSTANTS
    self = self
    n1 = n1
    n2 = n2
    s1 = s1
    d = d
    NoPort = NoPort
    Ports = {self, n1, d}
    MAX_ROUTERS = 3
    INT_MAX = 3
    Self = self
    neighbor_info <- OneNeighbor
    Strangers = {}
    initial_cost <- OneLink
    Datagrams <- OneDatagram
    SqEntries = 4
    CqEntries = 8
    Faults = {"wait"}
    Watched = {}
    InboxBound = 1
    TickBound = 1
INVARIANTS
    EveryWaitGetsCqe
