SPECIFICATION Spec
CONSTANTS
    s1 = s1
    s2 = s2
    f1 = f1
    f2 = f2
    f3 = f3
    Servers = {s1, s2}
    Files = {f1, f2, f3}
    Uses <- OwnFiles
    NumBuffers = 2
    Memory = {1}
    MaxFiles = 3
    UInt32Size = 8
    MaxOpens = 2
    None = None
INVARIANTS TypeOK ActiveExact NoDeleteWhileOpen DistinctMaps OneMapPerFile
PROPERTY NamedDataStays
SYMMETRY FileSymmetry
