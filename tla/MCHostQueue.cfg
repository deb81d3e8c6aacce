SPECIFICATION Spec
CONSTANTS
    Consumers = {c1, c2}
    Depth = 3
    HandleLimit = 4
    Batch = 2
    Lease = 1
    MaxMessages = 4
    MaxId = 5
    MaxClock = 2
    MaxDeliveries = 2
INVARIANTS
    TypeOK
    NothingLostOrDoubled
    EndedIdsStayDead
    RedeliveredFirst
SYMMETRY Symmetry
CHECK_DEADLOCK FALSE
