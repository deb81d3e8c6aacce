SPECIFICATION Spec
CONSTANTS
    Outputs = {o1, o2}
    OutputLimit = 3
    TenantLimit = 4
    InFlightCap = 2
    LaneQueue = 1
    LaneBatch = 2
    MaxSize = 2
    MaxCalls = 2
    MaxRequests = 1
INVARIANTS
    TypeOK
    InFlightExact
    LossRecorded
PROPERTIES
    FlushAnswered
CHECK_DEADLOCK FALSE
