SPECIFICATION FairSpec
CONSTANTS
    Cases <- MCCases
    Events = 1
    Max = 1
    MaxTurns = 2
    Occs = 1
    MaxTicks <- MCTicks
INVARIANTS
    CoversSectionEnd
    CollectedIsSafe
    WrapsAccumulated
    RecordFresh
    ResultsHaveAllTargets
PROPERTIES
    FrozenWhenCollected
    ResultsReturn
    DestructorReturns
