SPECIFICATION ClientSpec
CONSTANTS
    Threads = {t1, t2}
    p1 = p1
    p2 = p2
    p3 = p3
    small = small
    large = large
    Addr <- MCAddr
    Classes <- MCClasses
    Requests <- MCRequests
    SizeClass <- MCSizeClass
    Fallback = Fallback
    Rejected = Rejected
    Shards <- MCShards
    ShardOf <- MCShardOf
    HighWatermark = 2
    LowWatermark = 1
    RefillBatch = 2
    Unsized = Unsized
    NoThread = NoThread
    NoRecord = NoRecord
    Free = Free
    NoAddr = NoAddr
    MaxCalls = 7
CHECK_DEADLOCK FALSE
INVARIANTS
    HeldPointersStayLive
    LiveGaugeNeverWraps
PROPERTIES
    EveryCallReturns
