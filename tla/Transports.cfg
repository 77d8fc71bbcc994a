SPECIFICATION MCSpec
CONSTANTS
    Parts = {"memory", "kafka"}
    Listeners = {"server"}
    Transports = {"client", "server"}
    Emits = {"event"}
    Sends = {"call"}
    Legacy = {"old"}
    SenderOf <- MCSenderOf
    Setups <- MCSetups
    Payloads <- MCPayloads
    Workers = {"w1", "w2"}
    Partitions = {"p1"}
    Records <- MCRecords
    Readers <- MCReaders
    MaxLog = 2
    MaxClock = 2
    MaxMoves = 1
INVARIANTS
    HandledAsSent
    NothingVanishes
    OffsetsAccounted
    PartitionInOrder
PROPERTIES
    PoisonDoesNotStall
CHECK_DEADLOCK FALSE
