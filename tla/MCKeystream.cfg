CONSTANTS
    BlockSize = 2
    CounterMod = 3
    Offsets = {0, 3, 5}
    Lengths = {0, 1, 4}
    CacheLimits <- Limits
    DefaultLimit = 2
    MaxPosition = 8
SPECIFICATION Spec
INVARIANTS
    TypeOK
    CacheCoherent
PROPERTIES
    CacheGrowsWithinLimit
    RefinesCursor
