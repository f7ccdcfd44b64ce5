SPECIFICATION FairSpec
CONSTANTS
    k1 = k1
    k2 = k2
    k3 = k3
    routeA = routeA
    routeB = routeB
    none = none
    None = none
    Keys = {k1, k2, k3}
    Routes = {routeA, routeB}
    Limit = 2
    TTL = 1
    MaxTime = 1
    MaxOps = 3
    MaxFaults = 2
INVARIANT TypeOK
INVARIANT CleanIsSaved
INVARIANT DirtyIsScheduled
PROPERTY EventuallySaved
CHECK_DEADLOCK FALSE
