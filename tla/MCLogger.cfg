CONSTANTS
    Level = {error, info}
    DefaultLevel = error
    QueueSize = 2
    MaxMessages = 5

SPECIFICATION Spec
CHECK_DEADLOCK FALSE

INVARIANTS
    TypeOK
    InOrderOnce
    FlushedAtDeinit

PROPERTIES
    DeinitReturns
