SPECIFICATION Spec
CONSTANTS
    Outputs = {o1, o2}
    OutputLimit = 3
    TenantLimit = 4
    InFlightCap = 1
    LaneQueue = 1
    LaneBatch = 2
    MaxSize = 1
    MaxCalls = 2
    MaxRequests = 1
INVARIANTS
    TenantUseExact
CHECK_DEADLOCK FALSE
