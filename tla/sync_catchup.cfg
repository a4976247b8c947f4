SPECIFICATION Spec
CONSTANTS
    a = a
    b = b
    none = none
    Keys <- MCKeys
    NoKey = none
    NLogs <- MCNLogs
    MaxBlock = 6
    BlockOf <- MCBlockOf
    IndexOf <- MCIndexOf
    KeyOf <- MCKeyOf
    BootHead = 2
    Boots <- AllBoots
    GapMax = 9
    PassMax = 2
    CatchUpMax = 2
    ReconcileOn = FALSE
    MaxCatchUps = 2
    MaxTeardowns = 0
INVARIANTS
    AppliedIsHeld
CHECK_DEADLOCK FALSE
