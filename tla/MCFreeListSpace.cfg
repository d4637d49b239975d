\* Five pages and requests of one or two pages: enough for a free block
\* between live blocks, exact and partial fits, coalescing on both sides
\* and a full space.
CONSTANTS
    Capacity = 5
    MaxAllocPages = 2
SPECIFICATION Spec
INVARIANT FreeListTypeOK
INVARIANT WalkReachesFreeEnd
INVARIANT AlwaysCoalesced
INVARIANT FreeBlocksIndexed
INVARIANT Accounting
PROPERTY ImplementsLargeObjectAllocator
