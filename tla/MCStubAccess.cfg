\* One application thread reads and writes a field of a swapped-out object
\* through its stub while the kernel may fault the payload in.
CONSTANTS
    t1 = t1
    t2 = t2
    v1 = v1
    v2 = v2
    undef = undef
    Threads <- MCOneThread
    Values <- MCValues
    V0 = v1
    Undef = undef
    Ops = {"get", "set", "cas", "casweak"}
    CounterWidth = 8
    MaxCalls = 3
SPECIFICATION Spec
INVARIANT StubTypeOK
PROPERTY ImplementsFieldRegister
