SPECIFICATION FairSyncSpec
CONSTANTS
    Threads = {t1, t2, t3}
    Addr = {p1, p2}
    Kinds = {k1, k2}
    MaxCalls = 4
    NoThread = NoThread
    Free = Free
    Unsized = Unsized
    NoAddr = NoAddr
INVARIANT
    SnapshotConsistent
PROPERTIES
    ImplementsAllocator
    EveryCallReturns
CHECK_DEADLOCK FALSE
