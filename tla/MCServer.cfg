SPECIFICATION Spec
CONSTANTS
    t1 = t1
    t2 = t2
    Conns = {c1, c2, c3}
    Tenants <- MCTenants
    Ceiling <- MCCeiling
    GlobalBudget = 1
    AcceptLimit = 2
    MaxRequests = 2
    NoTenant = NoTenant
INVARIANTS
    LedgerExact
    BoundHonoured
    OneRequestAfterSignal
PROPERTIES
    DrainTerminates
CHECK_DEADLOCK FALSE
