\* One application thread reads and writes a field of a swapped-out object
\* through its stub, and also exchanges it with ExchangeFieldObject.
CONSTANTS
    t1 = t1
    v1 = v1
    v2 = v2
    undef = undef
    Threads <- MCOneThread
    Values <- MCValues
    V0 = v1
    Undef = undef
    Ops = {"get", "set"}
    CounterWidth = 8
    MaxCalls = 3
SPECIFICATION BypassSpec
INVARIANT Coherent
