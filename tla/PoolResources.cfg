SPECIFICATION Spec
CONSTANTS
    PointerSize = 2
    r1 = r1
    r2 = r2
    c1 = c1
    c2 = c2
    c3 = c3
    Allocators = {r1, r2}
    Containers = {c1, c2, c3}
    ResourceOf <- MCResourceOf
    Slabs = {s1, s2, s3, s4, s5}
    Classes <- MCClasses
    Requests <- MCRequests
    InitialBlocks = 2
    Spare = 1
    MaxRequests = 3
    MaxAcquires = 2
    Unshared = {r1}
    Unsized = Unsized
    Free = Free
    NoAddr = NoAddr
INVARIANTS
    ReturnsAccepted
    ProviderBalanced
PROPERTY
    ImplementsCentralStorage
SYMMETRY SlabSymmetry
CHECK_DEADLOCK FALSE
