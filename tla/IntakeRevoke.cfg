SPECIFICATION Spec
CONSTANTS
    Packets = {"e"}
    Prekeys = {"k"}
    Senders = {"s1", "s2"}
    Workers = {loop}
    NoKey = NoKey
    NoPacket = NoPacket
    Sender <- MCSender
    KeyOf <- MCKeyOf
    Kind <- MCKind
    Undecodable <- MCUndecodable
    PrekeyPeer <- MCPrekeyPeer
    Pinned = {"s1"}
    MaxAborts = 0
INVARIANTS
    CleanupIsComplete
CHECK_DEADLOCK FALSE
