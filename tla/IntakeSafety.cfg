SPECIFICATION Spec
CONSTANTS
    Packets = {"a", "b"}
    Prekeys = {"k"}
    Senders = {"s1", "s2"}
    Workers = {loop, carrier}
    NoKey = NoKey
    NoPacket = NoPacket
    Sender <- MCSender
    KeyOf <- MCKeyOf
    Kind <- MCKind
    Undecodable <- MCUndecodable
    PrekeyPeer <- MCPrekeyPeer
    Pinned = {"s1"}
    MaxAborts = 1
SYMMETRY WorkerSymmetry
INVARIANTS
    AckMeansSettled
PROPERTIES
    ImplementsCustody
CHECK_DEADLOCK FALSE
