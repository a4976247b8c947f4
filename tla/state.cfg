SPECIFICATION StateSpec
CONSTANTS
    a = a
    b = b
    none = none
    Keys <- MCKeys
    NoKey = none
    NLogs <- MCNLogs
    MaxBlock = 3
    BlockOf <- MCBlockOf
    IndexOf <- MCIndexOf
    KeyOf <- MCKeyOf
    Removals <- MCRemovals
    ReplayMax = 2
    Steady = TRUE
    MaxLoads = 3
    Fields = {pos}
    NEntities = 2
    Orders <- MCOrders
    MaxIndexLoads = 3
    MaxMerged = 1
    w1 = w1
    w2 = w2
    w3 = w3
    daemon = daemon
    child = child
    Writers <- MCWriters
    Pids <- MCPids
    PidOf <- MCPidOf
    MaxSets = 4
    MaxEmitted = 6
    BatchMax = 2
    Ids = {k1, k2, k3}
    Components = {owns, name}
    Indexed = {owns}
    Values = {v1, v2}
    NoValue = none
    MaxEntities = 2
    Nodes = {n7, n9}
    NoNode = none
    NodeWindow = 2
    AgeCap = 3
    MaxVersion = 2
    HeapFloor = 5120
    HeapTarget = 6144
    MinMem = 5632
    Limits <- MCLimits
    Memories <- MCMemories
INVARIANTS
    GuardTypeOK
    PlaceIsTrue
    FinalIsLast
    BaselineIsTrue
    SavedRowsAreNamed
    LoadFindsIt
    TempIsSafe
    ResolvedIsOnDisk
    IndexIsInverse
    OutputIsAChannel
    RefusalIsDue
    RowIsCurrent
    NeverShortUnasked
PROPERTIES
    HoldsGround
    StaysReadable
    OutputArrives
CHECK_DEADLOCK FALSE
