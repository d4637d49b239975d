CONSTANTS
    t1 = t1
    t2 = t2
    o1 = o1
    o2 = o2
    o3 = o3
    Threads <- MCThreads
    Objects <- MCTwoObjects
    GlobalIds = {1}
    WeakIds = {1}
    TrackingDelta = 1
    Empty = Empty
    Cleared = Cleared
SPECIFICATION Spec
INVARIANT JniTypeOK
INVARIANT HeldObjectsLive
INVARIANT NativeRefsValid
PROPERTY WeakClearedOnlyIfUnreachable
PROPERTY WaitersResume
