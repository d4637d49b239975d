CONSTANTS
    t1 = t1
    t2 = t2
    Threads = {t1, t2}
    DimChoices <- MCDimChoices
    GrowthLimit = 9
    InitialTarget = 4
    ConcurrentStartBytes = 5
    ChunkOverhead = 1
    ArrayHeader = 1
    Alignment = 2
    MallocAlignment = 2
    MaxCalls = 3
SPECIFICATION Spec
INVARIANT FootprintTypeOK
INVARIANT OvershootBounded
INVARIANT MultiArrayShape
PROPERTY TargetGrowsWithinLimit
PROPERTY AllocationsReturn
