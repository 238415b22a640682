SPECIFICATION Spec
CONSTANTS
    c1 = c1
    c2 = c2
    Clients = {c1, c2}
    NumWorkers = 2
    MAX_PREFETCH_EVENTS = 1
    MaxPushes = 2
    MaxThrows = 1
    Free = Free
SYMMETRY ClientSymmetry
INVARIANTS TypeOK EachEventInOnePlace HandledInPushOrder StopDrainsUnlessTorn
