SPECIFICATION Spec
CONSTANTS
    a = a
    b = b
    none = none
    Keys <- MCKeys
    NoKey = none
    NLogs <- MCNLogs
    MaxBlock = 6
    BlockOf <- MCBlockOf
    IndexOf <- MCIndexOf
    KeyOf <- MCKeyOf
    BootHead = 2
    Boots <- OrderedBoots
    GapMax = 9
    PassMax = 2
    CatchUpMax = 2
    ReconcileOn = TRUE
    MaxCatchUps = 1
    MaxTeardowns = 0
INVARIANTS
    ReconciledIsHeld
CHECK_DEADLOCK FALSE
