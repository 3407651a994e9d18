SPECIFICATION FairSpec
CONSTANTS
    NWorkers = 2
    NLoops = 2
    Conns = {c1, c2}
    Null = Null
    None = None
CHECK_DEADLOCK FALSE
INVARIANTS
    TidKnown
    ClientsAccounted
    DeletedOnce
    FreedAfterUse
PROPERTIES
    StartAndEnd
