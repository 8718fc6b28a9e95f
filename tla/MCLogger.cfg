CONSTANTS
    g1 = g1
    g2 = g2
    Caller <- MCCaller
    Nobody = Nobody
    Capacity = 1
    ErrorLimit = 1
    Levels = {TRUE, FALSE}
    MaxEntries = 2
SPECIFICATION FairSpec
INVARIANTS
    TypeOK
    PendingCounts
    FlushWritesAll
    CloseWritesAll
    WaitGroupNotReused
    RecentErrors
PROPERTIES
    LogReturns
CHECK_DEADLOCK FALSE
