INIT AboutToPersist
NEXT Next
CONSTANTS
    r1 = r1
    r2 = r2
    Runs <- TwoRuns
    MaxHypotheses = 1
    Ceiling = 1
    Outcomes <- Match
    MaxTries = 2
    MaxJobs = 2
    AllowDegraded = FALSE
    MaxCrashes = 2
    MaxOutages = 1
SYMMETRY RunSymmetry
INVARIANTS
    CompletedRunIsAccounted
PROPERTY
    LettersAreDelivered
