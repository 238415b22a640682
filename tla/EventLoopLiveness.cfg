SPECIFICATION FairSpec
CONSTANTS
    c1 = c1
    c2 = c2
    Clients = {c1}
    NumWorkers = 2
    MAX_PREFETCH_EVENTS = 1
    MaxPushes = 2
    MaxThrows = 1
    Free = Free
PROPERTIES PushedIsHandled StopReturns
