SPECIFICATION MisuseSpec
CONSTANTS
    BlockCount = 3
    BlockBytes = 3
    MaxSize = 7
    MaxRequests = 4
    Null = Null
    Canary = Canary
    AllocatedPattern = AllocatedPattern
    FreedPattern = FreedPattern
    Data = Data
    Raw = Raw
CHECK_DEADLOCK FALSE
PROPERTY
    DoubleFreeLeavesListIntact
