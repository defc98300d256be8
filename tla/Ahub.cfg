SPECIFICATION Spec
CONSTANTS
    p1 = p1
    p2 = p2
    u1 = u1
    u2 = u2
    d = d
    None = None
    Packets = {p1, p2}
    Nodes = {u1, u2, d}
    Dest <- MCDest
    Holders <- MCHolders
    Bad = {p2}
    DestQuota = 2
    UploaderQuota = 1
    MaxFaults = 1
    MaxBans = 1
    RelayNodes = {"a", "b"}
    Pairs <- MCPairs
    Conns = {1, 2}
    MaxConnections = 2
    MaxReservations = 1
    MaxGen = 2
    MaxRestarts = 1
    NoConn = NoConn
    Requests = {"r1", "r2", "r3"}
    Senders = {"n", "m"}
    From <- MCFrom
    Skew = 1
    Retention = 1
    Horizon = 4
    Callers = {"x", "y"}
    Cost = 3
    Rate = 2
    Burst = 1
    MinStale = 1
    MaxBuckets = 1
    MaxSecond = 5
    MaxCalls = 3
INVARIANTS
    CustodyKept
    SessionsAreExact
    AtMostOnce
    LimiterSound
PROPERTIES
    EventuallyAcked
    OwnerReleased
CHECK_DEADLOCK FALSE
