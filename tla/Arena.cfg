SPECIFICATION SpecLifetimes
CONSTANTS
    Requests <- MCRequests
    Growths <- MCGrowths
    ResetPolicies = {"retain_all", "retain_initial"}
    InitialSize = 4
    InitialAlignment = 2
    PowersOfTwo = {1, 2, 4, 8}
    MaxSize = 31
    ProviderLimit = 20
    MaxRequests = 4
    MaxResets = 2
    MaxDepth = 4
INVARIANTS
    LiveRegionsSafe
    ObjectsInLiveStorage
    CapacityFollowsPolicy
    RepeatedWorkloadReusesAddresses
PROPERTY
    DestroyedInReverse
CHECK_DEADLOCK FALSE
