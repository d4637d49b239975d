CONSTANTS
    i1 = i1
    i2 = i2
    i3 = i3
    s1 = s1
    s2 = s2
    Ids <- MCIds
    Slots <- MCSlots
    FreeSlot = FreeSlot
    MaxAddr = 4
    Sizes = {1, 2}
    LargeObjectThreshold = 2
    SwapDuringSweep = FALSE
SPECIFICATION Spec
INVARIANT LosTypeOK
INVARIANT NoStaleEntry
INVARIANT SweepFreesOnlyGarbage
PROPERTY GarbageFreed
