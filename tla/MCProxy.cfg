SPECIFICATION ProxySpec
CONSTANTS
    Conns = {c1, c2, c3}
    IPs = {ip1}
    Addrs = {a1, a2}
    Keys = {k1}
    Unset = Unset
    MaxConns = 3
    MaxStartupsPerIP = 1
INVARIANTS
    SlotsExact
    CancelMapExact
PROPERTIES
    CancelsOwnOnly
    StartupSlotReturns
    HalfClosedEnds
CHECK_DEADLOCK FALSE
