SPECIFICATION Spec
CONSTANTS
    Callers = {c1}
    Occs = 2
    MaxTicks <- MCTicks
    ReadsFail = TRUE
INVARIANT
    SomeSideValid
