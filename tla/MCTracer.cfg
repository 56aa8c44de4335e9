SPECIFICATION Spec
CONSTANTS
    main = main
    t1 = t1
    t2 = t2
    range = range
    func = func
    None = None
    Root = main
    Threads <- Three
    Sections <- Both
    FuncSections <- OneFunc
    Concurrent <- NoSection
    SlowSignals = FALSE
    MaxVisits = 1
    MaxSignals = 0
SYMMETRY Symmetry
INVARIANTS
    TypeOK
    OneSection
    TrapsRestored
    OthersStopped
    ManualWaitIsAttach
    EveryPassMeasured
