\* Two threads loading one library from two class loaders, with loads
\* nested in JNI_OnLoad: the race between the two lookups, a reload from
\* JNI_OnLoad, a load from the other class loader, and unloading.
CONSTANTS
    t1 = t1
    t2 = t2
    p1 = p1
    p2 = p2
    l1 = l1
    l2 = l2
    Threads <- MCThreads
    Paths <- MCOnePath
    Loaders <- MCTwoLoaders
    LibIds <- MCLibIds
    MaxDepth = 2
    MaxCalls = 2
    None = None
    NoThread = NoThread
SPECIFICATION Spec
INVARIANT NativeTypeOK
INVARIANT SingleOnLoad
PROPERTY LoadsReturn
INVARIANT NativeCodeLoaded
