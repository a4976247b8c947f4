SPECIFICATION ServicesSpec
CONSTANTS
    MaxAttempts = 5
    OutlastFrom = 6
    Streaks <- MCFirstProcess
    Counts <- MCOnce
    FailureCap = 7
    MaxLive = 5
    FeedTypes <- MCFeedTypes
    Readers <- MCReaders
    Wanted <- MCWanted
    Limit <- MCLimit
    Capacity = 2
    MaxFeedEvents = 4
    Conns <- MCConns
    Asks <- MCAsks
    MaxTip = 3
    CatchUpBlocks = 2
    MaxTries = 2
    MaxPairs = 4
    ChunkBlocks = 2
    LastBlock = 5
    MaxRanges = 1
    UnhealedBlocks = 4
    MaxListed = 2
    MaxClock = 1
    MaxRetries = 1
    MaxWorkers = 2
INVARIANT
    StampsAreOrdered
CHECK_DEADLOCK FALSE
