SPECIFICATION Spec
CONSTANTS
    W = 2
    Code <- MCCode
    Plans <- OneFunction
    FirstPushes = {0, 1}
    NoAddr = NoAddr
INVARIANT ReturnTrapped
