SPECIFICATION RegistrySpec
CONSTANTS
    CacheThreads = {t1, t2}
    CachedAllocators = {a1, a2}
    HighWatermark = 1
    LowWatermark = 0
    Batch = 2
    Capacity = 3
    None = None
CHECK_DEADLOCK FALSE
INVARIANTS
    FlushesIntoLiveState
    NoBlockStranded
PROPERTY
    StateReclaimed
