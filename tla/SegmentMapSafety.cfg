SPECIFICATION Spec
CONSTANTS
    Size = 3
    LAST = 3
    ReadSizes = {1, 2, 3, 4}
    Weights = {0, 1}
    MaxReads = 2
    MaxMoves = 3
INVARIANTS TypeOK Tiling ExactHeat ExactLayer LookupMissesOnlyInTransit TouchedIsScored
