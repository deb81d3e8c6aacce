\* Three names compete for two entries, two clients hold leases, one displaced
\* generation may be retired, and the counter is exhausted at revision six.
CONSTANTS
    Names = {n1, n2, n3}
    Clients = {c1, c2}
    Capacity = 2
    RetiredLimit = 1
    MaxRevision = 6
SPECIFICATION Spec
SYMMETRY Symmetric
INVARIANTS
    TypeOK
    LeasesAccounted
    Bounded
    RemovalWins
PROPERTIES
    LatestWins
    OnlyRemoveStopsService
