SPECIFICATION FairSpec
CONSTANTS
    self = self
    n1 = n1
    n2 = n2
    s1 = s1
    d = d
    NoPort = NoPort
    Ports = {self, n1, d}
    MAX_ROUTERS = 3
    INT_MAX = 3
    Self = self
    neighbor_info <- OneNeighbor
    Strangers = {}
    initial_cost <- OneLink
    Datagrams = {}
    SqEntries = 4
    CqEntries = 8
    Faults = {}
    Watched = {n1}
    InboxBound = 0
    TickBound = 9
PROPERTIES
    CtrlCExits
