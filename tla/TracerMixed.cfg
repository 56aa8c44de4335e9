SPECIFICATION FairSpec
CONSTANTS
    main = main
    t1 = t1
    t2 = t2
    range = range
    func = func
    None = None
    Root = main
    Threads <- Two
    Sections <- Both
    FuncSections <- OneFunc
    Concurrent <- OneRange
    SlowSignals = TRUE
    MaxVisits = 2
    MaxSignals = 1
PROPERTY Termination
