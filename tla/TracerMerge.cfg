SPECIFICATION Spec
CONSTANTS
    main = main
    t1 = t1
    t2 = t2
    range = range
    func = func
    None = None
    Root = main
    Threads <- Three
    Sections <- OneRange
    FuncSections <- NoSection
    Concurrent <- NoSection
    SlowSignals = FALSE
    MaxVisits = 1
    MaxSignals = 0
INVARIANT OthersAlwaysStopped
