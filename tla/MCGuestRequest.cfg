\* Three requests compete for one slot and a budget of two bytes.
CONSTANTS
    Requests = {r1, r2, r3}
    Capacity = 1
    Budget = 2
    Sizes = {1, 2}
SPECIFICATION Spec
CHECK_DEADLOCK FALSE
INVARIANTS
    SlotsConserved
    BudgetConserved
    NoAnswerWithoutEvidence
    DropsCounted
PROPERTIES
    EveryRequestEnds
