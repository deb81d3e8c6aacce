\* Two coordinators and two requests share the app; one displaced generation may be retired.
CONSTANTS
    App = app
    Names = {app}
    Clients = {w1, w2, r1, r2}
    Coordinators = {w1, w2}
    NoOne = NoOne
    Capacity = 1
    RetiredLimit = 1
    MaxRevision = 9
SPECIFICATION LiveSpec
INVARIANTS
    NoLeakedReservation
PROPERTIES
    PreparationEnds
