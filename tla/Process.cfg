SPECIFICATION PSpec
CONSTANTS
    self = self
    n1 = n1
    n2 = n2
    x = x
    Self = self
    Ports = {self, n1, n2, x}
    NoPort = NoPort
    BadPort = BadPort
    MAX_ROUTERS = 4
    INT_MAX = 3
    neighbor_info <- MCNeighborInfo
    Changes <- MCChanges
    LateBound = 2
    CommandLines <- MCCommandLines
    AddressCount = 2
INVARIANTS
    LockedIn
    IdsIntact
    RouterMayStart
    OnlyKnownLeaks
