SPECIFICATION PartSpec
CONSTANTS
    Nodes = {"s", "a", "b", "d"}
    Links <- Ring
    Source = "s"
    Dest = "d"
    MaxHops = 2
    Offline = {"s", "d"}
    Nobody = "nobody"
    MaxFlight = 2
    MaxFaults = 1
    NoPage = NoPage
    Runners = {"node", "cli"}
    OutOfScope = {2}
    BatchLimit = 1
    MaxEvents = 2
    MaxPrepared = 2
    MaxRewrites = 1
INVARIANTS
    CustodyIsReal
    AckIsAtomic
    ProvenContinuous
CHECK_DEADLOCK FALSE
