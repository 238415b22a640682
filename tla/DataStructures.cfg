SPECIFICATION Spec
CONSTANTS
    MaxEnd = 6
    MaxText = 7
    MaxLayers = 2
    MaxIoSize = 40
    UInt8Size = 4
INVARIANTS  IntersectExact MeetsIsOverlap
    SplitExact OptionReadBack DefaultOrdered
    LayersLinked FileArrives EventArrives
