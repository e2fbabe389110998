CONSTANTS
    a = a
    b = b
    c = c
    d = d
    Ports = {a, b, c}
    NoPort = NoPort
    MAX_ROUTERS = 4
    INT_MAX = 7
    Networks <- SmallNetworks
    ChannelBound = 1
SPECIFICATION FairSpec
INVARIANTS TypeOK MessagesHonest RoutesTakeTheOnlyWay
PROPERTIES Converges TwoLoopsDissolve
