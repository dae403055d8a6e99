SPECIFICATION Spec
CONSTANTS
    j1 = j1
    j2 = j2
    Jobs <- TwoJobs
    Slots = 1
INVARIANTS
    TypeOK
    ContainersHaveSlots
PROPERTIES
    HonestTimeout
    StartedJobsEnd
    QueueDrains
CHECK_DEADLOCK FALSE
