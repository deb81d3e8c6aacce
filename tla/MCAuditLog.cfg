\* Five rows, three crashes and one orphan; the stream keeps a window of one row,
\* so a sequence the worker skipped can be older than the window.
CONSTANTS
    MaxRows = 5
    MaxCrashes = 3
    MaxOrphans = 1
    RingCapacity = 1
SPECIFICATION Spec
CHECK_DEADLOCK FALSE
INVARIANTS
    AckedBytesKept
    RecoveredInOrder
    FrontierNeverAhead
PROPERTIES
    QuarantinedFirst
