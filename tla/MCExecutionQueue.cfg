CONSTANTS
    Worker = {w1, w2, w3}
    Instance = {a, b}
    QueueSize = 3
    NULL = NULL

SPECIFICATION Spec

INVARIANTS
    TypeOK
    NoLostWakeup

PROPERTIES
    OldestIsTaken
    ImplementsFifo
