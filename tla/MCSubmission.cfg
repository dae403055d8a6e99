SPECIFICATION Spec
CONSTANTS
    r1 = r1
    r2 = r2
    Reqs <- TwoReqs
    MaxFaults = 1
INVARIANTS
    TypeOK
    OnlyOutagesLoseJobs
    TakesBounded
PROPERTIES
    ImplementsExecutions
    QueuedRunsAreTaken
    AnalyzingRunsEnd
CHECK_DEADLOCK FALSE
