SPECIFICATION ObjectSpec
CONSTANTS
    Slots = {b1, b2, b3}
    MaxDepth = 3
    MaxCreates = 5
CHECK_DEADLOCK FALSE
INVARIANTS
    LostBlocksAreBreached
    LifetimesBalance
