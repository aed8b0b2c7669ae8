SPECIFICATION Spec
CONSTANTS
    Threads = {t1, t2}
    p1 = p1
    p2 = p2
    p3 = p3
    small = small
    medium = medium
    large = large
    odd = odd
    Addr <- MCAddr
    Classes = {0, 1}
    Requests = {small, medium, large, odd}
    SizeClass <- MCSizeClass
    Fallback = Fallback
    Rejected = Rejected
    Shards <- MCShards
    ShardOf <- MCShardOf
    HighWatermark = 2
    LowWatermark = 1
    RefillBatch = 2
    Unsized = Unsized
    NoThread = NoThread
    NoRecord = NoRecord
    Free = Free
    NoAddr = NoAddr
SYMMETRY MCSymmetry
CHECK_DEADLOCK FALSE
INVARIANTS
    NoInternalError
    BlockHasOneHolder
    OwnershipQueryConsistent
    BinsWithinReserve
    GaugesExact
PROPERTY
    ImplementsAllocator
