\* One application thread on a stub accessed 255 times with no
\* UnlockAllEntries in between: the 8-bit counter, which keeps one count per
\* completed access, wraps to 0 while the thread holds the entry.
CONSTANTS
    t1 = t1
    t2 = t2
    Threads <- MCOneThread
    CounterWidth = 8
    MaxCalls = 255
SPECIFICATION EntrySpec
PROPERTY ImplementsEntryLock
