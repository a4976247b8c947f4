SPECIFICATION ReconSpec
CONSTANTS
    MaxTries = 2
    MaxPairs = 5
INVARIANT
    OutageIsServed
CHECK_DEADLOCK FALSE
