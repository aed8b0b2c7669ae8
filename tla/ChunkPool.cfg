SPECIFICATION Spec
CONSTANTS
    s1 = s1
    s2 = s2
    s3 = s3
    Slabs <- MCSlabs
    Growths <- MCGrowths
    Policies = {"null", "throw", "grow", "heap"}
    Spares = {0, 1, 2}
    InitialBlocks = 2
    SizeMax = 9
    Stride = 2
    MaxGrows = 4
SYMMETRY SlabSymmetry
INVARIANTS
    HeldPointersExact
    ProviderBalanced
    PoolNeverDriesUp
    GrowthClosedForm
PROPERTY
    EmptyChunksBounded
CHECK_DEADLOCK FALSE
