SPECIFICATION FairSpec
CONSTANTS
    Callers = {c1, c2, c3}
    Requests <- MCRequests
    Results <- MCResults
    Errors <- MCErrors
    Finish = Finish
    Main = Main
    NoOne = NoOne
    peek = peek
    fork = fork
INVARIANTS
    TypeOK
    NoDataRace
PROPERTIES
    ImplementsSyncCall
    HolderReturns
    DtorReturns
