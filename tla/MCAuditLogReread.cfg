\* A crash between the record and its line feed, then an ordinary run.
CONSTANTS
    MaxRows = 3
    MaxCrashes = 3
    MaxOrphans = 0
    RingCapacity = 4
SPECIFICATION Spec
CHECK_DEADLOCK FALSE
INVARIANT LogReread
