SPECIFICATION Spec
CONSTANTS
    main = main
    t1 = t1
    t2 = t2
    range = range
    func = func
    None = None
    Root = main
    Threads <- Two
    Sections <- OneRange
    FuncSections <- NoSection
    Concurrent <- OneRange
    SlowSignals = FALSE
    MaxVisits = 1
    MaxSignals = 0
INVARIANT ConcurrencyAllowed
