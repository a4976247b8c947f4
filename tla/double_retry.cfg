SPECIFICATION Spec
CONSTANTS
    MaxAttempts = 5
    OutlastFrom = 6
    Streaks <- MCAfterGivingUp
    Counts <- MCOnce
    FailureCap = 13
PROPERTY
    LiveIsLasting
CHECK_DEADLOCK FALSE
