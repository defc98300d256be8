SPECIFICATION Spec
CONSTANTS
    Pages = {"p", "q", "u", "b"}
    Seq0 <- MCSeq
    ConfigOf <- MCConfig
    NodesOf <- MCNodes
    SoftwareOf <- MCSoftware
    Signed = {"p", "q", "b"}
    Refused = {"b"}
    OneShots = {"cli"}
    Pinned = {"x"}
    Nothing = "nothing"
    MaxDeaths = 1
    MaxTroubles = 1
    Challenges = {"c"}
    Verifiers = {"v", "w"}
    Materials = {"m1", "m2"}
    MaxSigned = 5
    MaxExpired = 1
    Parties = {"a", "b"}
    Loads = {"p"}
    Shipper <- MCShipper
    Rotating = {"b"}
    History = 2
    MaxAge = 1
    MaxWeek = 2
    MaxMishaps = 1
    Lanes = {"w", "h"}
    Mode <- MCMode
    HasDirect = TRUE
    Jobs = {"j"}
    Urgent = {}
    DirectFailures = 2
    DirectRecovery = 2
    LaneFailures = 1
    LaneRecovery = 1
    Replicas = 1
    MaxBackoff = 2
    MaxUpsets = 1
INVARIANTS
    HomeIsCurrent
    ContinuitySound
PROPERTIES
    EventuallyApplied
    RevocationTakesEffect
    EventuallyCarried
    EventuallyRouted
CHECK_DEADLOCK FALSE
