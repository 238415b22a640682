SPECIFICATION Spec
CONSTANTS
    None = None
    Stale = Stale
    NumServers = 2
    NumClients = 3
    RanksPerServer = 2
    NumLayers = 3
    OffsetMaps <- MCOffsetMaps
INVARIANTS TypeOK SharesItsServersMemory NothingMissing NoBindDuringCall
PROPERTY AllFinish
\* Every process may have ended.
CHECK_DEADLOCK FALSE
