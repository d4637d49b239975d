\* Two application threads race LockFromAppThread against kernel swap-ins,
\* with UnlockAllEntries at pauses.  MaxCalls = 4 lets both threads lock
\* twice while the counter cannot wrap.
CONSTANTS
    t1 = t1
    t2 = t2
    Threads <- MCThreads
    CounterWidth = 8
    MaxCalls = 4
SPECIFICATION RecoverySpec
INVARIANT EntryTypeOK
INVARIANT CounterAccounting
PROPERTY ImplementsEntryLock
PROPERTY LockReturns
