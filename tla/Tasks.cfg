SPECIFICATION PartSpec
CONSTANTS
    Packets = {"r1", "r2", "c1"}
    Matching = {"r1", "r2", "c1"}
    Transient = {"c1"}
    IncludeTransient = TRUE
    Senders = {"s1"}
    Sender <- MCSender
    MaxClaims = 2
    Tasks = {"t1"}
    Task <- MCTask
    Kind <- MCKind
    Body <- MCBody
    NoBody = "nobody"
    Allowed = {"r1", "r2", "c1"}
    MaxRuns = 3
INVARIANTS
    RevocationReaches
    LedgersSound
PROPERTIES
    RunsAreFenced
    CancellationConcludes
    EventuallyAcknowledged
CHECK_DEADLOCK FALSE
