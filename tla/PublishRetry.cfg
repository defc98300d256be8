SPECIFICATION PubSpec
CONSTANTS
    Workers = {"sync"}
    MaxEvents = 3
INVARIANTS
    RevisionCanBeRetried
CHECK_DEADLOCK FALSE
