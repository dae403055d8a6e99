SPECIFICATION Spec
CONSTANTS
    r1 = r1
    r2 = r2
    Runs <- OneRun
    MaxHypotheses = 2
    Ceiling = 2
    Outcomes <- DecisiveOutcomes
    MaxTries = 2
    MaxJobs = 1
    AllowDegraded = TRUE
    MaxCrashes = 1
    MaxOutages = 1
INVARIANTS
    TypeOK
    ErrorsAreExplained
    AttemptsPerDelivery
PROPERTIES
    KeepsPromise
    JobsSettle
    OutcomesReachTheRow
