SPECIFICATION Spec
CONSTANTS
    MaxHypotheses = 1
    Ceiling = 1
    Outcomes <- MCOutcomes
    RecursionLimit = 25
INVARIANT
    SucceedsOnTheRevision
