SPECIFICATION WorkerSpec
CONSTANTS
    MaxRetries = 1
    MaxWorkers = 2
INVARIANT
    HookIsLive
CHECK_DEADLOCK FALSE
