CONSTANTS
    NumWorkers = 3
    NumTests = 2
    MaxTests = 2
    MaxTestInstances = 2
    QueueSize = 2
    MaxAttempts = 2

SPECIFICATION Spec
CHECK_DEADLOCK FALSE

PROPERTY DeinitReturns
