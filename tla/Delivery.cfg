SPECIFICATION DeliverySpec
CONSTANTS
    Nodes = {"s", "a", "d"}
    Links <- Line
    Source = "s"
    Dest = "d"
    MaxHops = 2
    Offline = {"a", "d"}
    Nobody = "nobody"
    MaxFlight = 2
    MaxFaults = 1
    Workers = {"sync", "listener"}
    MaxEvents = 3
    Messages = {"m", "n"}
    Drainers = {"v", "w"}
    Keys = {"k"}
    BatchLimit = 2
    MaxMishaps = 1
    Reports = {"completed", "canceled"}
INVARIANTS
    CheckpointIsPublished
    OnePacketPerIntent
    CancelSound
PROPERTIES
    EventuallySettled
    EventuallyPublished
    EventuallyDispatched
CHECK_DEADLOCK FALSE
