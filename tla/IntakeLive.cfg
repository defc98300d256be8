SPECIFICATION FairSpec
CONSTANTS
    Packets = {"c", "e"}
    Prekeys = {"k"}
    Senders = {"s1", "s2"}
    Workers = {loop, carrier}
    NoKey = NoKey
    NoPacket = NoPacket
    Sender <- MCSender
    KeyOf <- MCKeyOf
    Kind <- MCKind
    Undecodable <- MCUndecodable
    PrekeyPeer <- MCPrekeyPeer
    Pinned = {"s1"}
    MaxAborts = 1
INVARIANTS
    AtMostOnceIntake
    ConsumedByItsPeer
PROPERTIES
    EventuallyAcked
CHECK_DEADLOCK FALSE
