SPECIFICATION HSpec
CONSTANTS
    self = self
    n1 = n1
    n2 = n2
    s1 = s1
    d = d
    NoPort = NoPort
    Ports = {self, n1, n2, d}
    MAX_ROUTERS = 4
    INT_MAX = 7
    Self = self
    neighbor_info <- TwoNeighbors
    Strangers = {}
    initial_cost <- Links
    Datagrams <- RouteDatagrams
    SqEntries = 8
    CqEntries = 16
    Faults = {"submit"}
    Watched = {}
    InboxBound = 1
    TickBound = 0
INVARIANTS
    RouteConsistency
    RouteIsLastHeard
    RoutesUseLiveLinks
    CqeValid
PROPERTIES
    SwitchOnlyIfCheaper
    ImplementsRouteTable
