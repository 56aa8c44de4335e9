SPECIFICATION Spec
CONSTANTS
    W = 2
    Code <- MCCode
    Plans <- Adjacent
    FirstPushes = {1}
    NoAddr = NoAddr
INVARIANT OriginalWord
