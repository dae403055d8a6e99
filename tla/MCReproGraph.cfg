SPECIFICATION Spec
CONSTANTS
    MaxHypotheses = 4
    Ceiling = 3
    Outcomes <- MCOutcomes
    RecursionLimit = 17
INVARIANTS
    TypeOK
    AttemptsInOrder
    NothingAfterDecisive
    StatusTellsOutcome
    MinimizedIsTheMatch
PROPERTY
    GraphFinishes
