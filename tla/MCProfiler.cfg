SPECIFICATION Spec
CONSTANTS
    EnergyBits = 8
    MaxExecutions = 2
    Scenarios <- MCScenarios
INVARIANTS
    TypeOK
    ResultsUnderOwnSection
    InstrumentsNamedImage
    LinesAsAsked
    TrapsComplete
    CallsUnambiguous
    EventsComplete
    OutputComplete
    NoMutualWait
