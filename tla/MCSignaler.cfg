SPECIFICATION FairSpec
CONSTANTS
    Posters = {p1, p2}
    Waiters = {w1, w2}
    Free = Free
INVARIANTS
    TypeOK
    NoLostWakeup
PROPERTIES
    ImplementsEvent
    TimedWaitReturns
    PostWakes
