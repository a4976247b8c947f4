SPECIFICATION Spec
CONSTANTS
    a = a
    b = b
    none = none
    Keys <- MCKeys
    NoKey = none
    NLogs <- MCNLogs
    MaxBlock = 6
    BlockOf <- MCBlockOf
    IndexOf <- MCIndexOf
    KeyOf <- MCKeyOf
    BootHead = 2
    Boots <- SafetyBoots
    GapMax = 2
    PassMax = 2
    CatchUpMax = 2
    ReconcileOn = TRUE
    MaxCatchUps = 0
    MaxTeardowns = 1
INVARIANTS
    ReconciledIsHeld
    AppliedIsHeld
    RepairsAreLosses
PROPERTY
    NeverOlder
CHECK_DEADLOCK FALSE
