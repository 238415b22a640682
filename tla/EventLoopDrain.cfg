SPECIFICATION Spec
CONSTANTS
    c1 = c1
    c2 = c2
    Clients = {c1, c2}
    NumWorkers = 1
    MAX_PREFETCH_EVENTS = 1
    MaxPushes = 1
    MaxThrows = 0
    Free = Free
INVARIANT StopDrains
