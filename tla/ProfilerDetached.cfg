SPECIFICATION Spec
CONSTANTS
    EnergyBits = 8
    MaxExecutions = 2
    Scenarios <- MCScenarios
INVARIANT
    KilledOnError
