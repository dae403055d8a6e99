INIT OpenedMidway
NEXT Next
CONSTANTS
    Outcomes <- BothOutcomes
    MaxSteps = 2
    MaxArtifacts = 1
    MaxFaults = 1
    MaxDrops = 1
    MaxLate = 1
    MaxFetches = 1
INVARIANTS
    TypeOK
    DoneMissesAtMostPersist
    PageIsTruthful
CHECK_DEADLOCK FALSE
