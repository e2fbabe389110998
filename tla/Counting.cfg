CONSTANTS
    a = a
    b = b
    c = c
    d = d
    Ports = {a, b, c, d}
    NoPort = NoPort
    MAX_ROUTERS = 4
    INT_MAX = 7
    Networks <- PendantNetwork
    ChannelBound = 1
SPECIFICATION Spec
INVARIANTS CostsAreOfPaths
