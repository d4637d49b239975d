\* A load from one class loader finds the library of another, collected
\* class loader, which the class-loader cleanup deletes meanwhile.
CONSTANTS
    t1 = t1
    t2 = t2
    p1 = p1
    p2 = p2
    l1 = l1
    l2 = l2
    Threads <- MCThreads
    Paths <- MCOnePath
    Loaders <- MCTwoLoaders
    LibIds <- MCLibIds
    MaxDepth = 2
    MaxCalls = 2
    None = None
    NoThread = NoThread
SPECIFICATION Spec
INVARIANT NoDanglingLibrary
