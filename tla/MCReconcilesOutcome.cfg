SPECIFICATION Spec
CONSTANTS
    r1 = r1
    r2 = r2
    Runs <- OneRun
    MaxHypotheses = 1
    Ceiling = 1
    Outcomes <- DecisiveOutcomes
    MaxTries = 2
    MaxJobs = 1
    AllowDegraded = FALSE
    MaxCrashes = 0
    MaxOutages = 1
PROPERTY
    ReconcilesOnlyOrphans
