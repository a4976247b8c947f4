SPECIFICATION FairSpec
CONSTANTS
    a = a
    b = b
    none = none
    Keys <- MCKeys
    NoKey = none
    NLogs <- MCNLogs
    MaxBlock = 5
    BlockOf <- MCBlockOf
    IndexOf <- MCSameIndexOf
    KeyOf <- MCKeyOf
    BootHead = 2
    Boots <- LiveBoots
    GapMax = 2
    PassMax = 1
    CatchUpMax = 2
    ReconcileOn = TRUE
    MaxCatchUps = 0
    MaxTeardowns = 0
INVARIANTS
    UnhealedIsAhead
    AppliedCoversReconciled
PROPERTY
    ReconcileCatchesUp
CHECK_DEADLOCK FALSE
