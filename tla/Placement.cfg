SPECIFICATION Spec
CONSTANTS
    None = None
    Last = 3
    Memory = {1}
    Capacity <- MCCapacity
    SegmentSize = 3
    IntMax = 4
    KB = 2
    MaxEnd = 3
    Counted <- MCCounted
    MaxNames = 3
    MaxSegments = 2
    MaxEvents = 4
INVARIANTS TypeOK CacheExact PlanClimbs PlanCovers
PROPERTY OverflowIsNoticed
\* The buffer names are bounded.
CHECK_DEADLOCK FALSE
