SPECIFICATION Spec
CONSTANTS
    N = 2
    GroundTruth <- SecondOnly
    MaxPolls = 2
    MaxSteps <- SecondTwice
    MaxRedeliveries = 1
INVARIANTS
    TypeOK
    MatchedIsNotPenalized
    RatesAreRates
PROPERTY
    BenchmarkEnds
CHECK_DEADLOCK FALSE
