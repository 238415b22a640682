SPECIFICATION FairSpec
CONSTANTS
    w0 = w0
    w1 = w1
    c0 = c0
    k0 = k0
    k1 = k1
    v1 = v1
    v2 = v2
    None = None
    Procs = {w0, w1, c0}
    Keys = {k0, k1}
    Values = {v1, v2}
    NumServers = 2
    Home <- MCHome
    Hash <- MCHash
    Requests <- MCRequests
    CommThreads = 1
    MaxCalls = 1
INVARIANT TypeOK
PROPERTIES ImplementsAtomicStore ReturnsUnlessCircular
\* The system stops when every process has made its calls, or in a circular
\* wait of the handlers.
CHECK_DEADLOCK FALSE
