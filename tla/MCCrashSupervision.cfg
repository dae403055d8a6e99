SPECIFICATION Spec
CONSTANTS
    r1 = r1
    r2 = r2
    r3 = r3
    Runs <- ThreeRuns
    MaxJobs = 2
    AllowDegraded = FALSE
    MaxFaults = 4
INVARIANTS
    TypeOK
    OneIncidentPerCrash
    IncidentsNameInterrupted
PROPERTY
    WorkerServesAgain
