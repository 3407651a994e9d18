SPECIFICATION FairSpec
CONSTANTS
    t1 = t1
    t2 = t2
    Timers = {t1, t2}
    Ids = {1, 2}
    Users = {u1}
    InitialStack <- MCInitialStack
    StackLimit = 1
    None = None
CHECK_DEADLOCK FALSE
INVARIANTS
    TimersKept
    ArmedIsKnown
PROPERTIES
    DispatcherLives
