\* Two operations share a connection, which either side may close at any point.
CONSTANTS
    t1 = t1  t2 = t2
    Tags <- MCTags
    NoEntry = NoEntry
    Capacity = 2
    Sends = 2
    Depth = 1
    MaxCloses = 1
SPECIFICATION Spec
INVARIANTS NoOverwrite MemoryHeld DeliveredInOrder
PROPERTY EverythingDelivered
CHECK_DEADLOCK FALSE
