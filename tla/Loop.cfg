SPECIFICATION FairSpec
CONSTANTS
    self = self
    n1 = n1
    n2 = n2
    s1 = s1
    d = d
    NoPort = NoPort
    Ports = {self, n1, s1, d}
    MAX_ROUTERS = 3
    INT_MAX = 3
    Self = self
    neighbor_info <- OneNeighbor
    Strangers = {s1}
    initial_cost <- LinkAndStranger
    Datagrams <- StrangerDatagrams
    SqEntries = 4
    CqEntries = 4
    Faults = {"submit", "receive", "timer", "wait"}
    Watched = {n1}
    InboxBound = 1
    TickBound = 1
INVARIANTS
    TypeOK
    TimerAccounting
    ReceiveAccounting
    SqeAvailable
    KnownBound
PROPERTIES
    StrangerStopsRouter
    ShutdownCompletes
    NeverDeaf
    SilentNeighborPurged
    DownNeighborRecovers
