SPECIFICATION Spec
CONSTANTS
    Size = 2
    LAST = 2
    ReadSizes = {1, 2}
    Weights = {0, 1}
    MaxReads = 2
    MaxMoves = 1
INVARIANT LocationExact
