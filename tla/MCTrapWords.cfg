SPECIFICATION Spec
CONSTANTS
    W = 3
    Code <- MCCode
    Plans <- MCPlans
    FirstPushes = {0, 1}
    NoAddr = NoAddr
INVARIANTS
    TypeOK
    CodeWhole
    NotAstray
    EndInPlace
