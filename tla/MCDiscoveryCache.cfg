SPECIFICATION Spec
CONSTANTS
    p1 = p1
    p2 = p2
    p3 = p3
    l1 = l1
    l2 = l2
    Path <- MCPath
    Lookup <- MCLookup
    Ttl = 2
    FetchDeadline = 1
    MaxCacheEntries = 2
    MaxVersion = 1
    MaxTime = 4
SYMMETRY PathSymmetry
PROPERTIES
    LiveEvictedOnlyUnderPressure
    ImplementsBoundedStaleness
