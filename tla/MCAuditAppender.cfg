\* Two requests of one or two rows race for a queue of two and may resubmit
\* their rows once after a timeout.
CONSTANTS
    Producers = {p1, p2}
    MaxRows = 2
    MaxSequence = 4
    MaxAttempts = 2
    QueueBound = 2
    BatchSize = 2
SPECIFICATION Spec
CHECK_DEADLOCK FALSE
INVARIANTS
    TypeOK
    FileInOrder
    NoStrandedRow
    RowsAccounted
    CleanReportComplete
    AckNeverHidesLoss
PROPERTIES
    ShutdownTerminates
    ImplementsTrail
