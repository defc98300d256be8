SPECIFICATION FairSpec
CONSTANTS
    MaxGen = 2
    BatchSize = 1
    LowWatermark = 1
    Workers = {daemon, cli}
    Static = Static
    Require = TRUE
    MaxTransit = 2
    MaxFaults = 1
INVARIANTS
    KeysServeOnce
PROPERTIES
    Replenished
CHECK_DEADLOCK FALSE
