CONSTANTS
    led = led
    button = button
    blink = blink
    press = press
    t1 = t1
    t2 = t2
    Directory <- MCDirectory
    CommandLine <- MCCommandLine
    Unusable = Unusable
    Missing = Missing
    Unnamed = Unnamed
    Implemented = {t2}
    MaxTests = 2
    MaxDevices = 2
    HeapCount = {2}
    NULL = NULL

SPECIFICATION Spec

INVARIANTS
    TypeOK
    FreedExactlyOnce
    PointersStayValid
    StatusTellsTheTruth
    CompleteTestsAreSupported
    

CHECK_DEADLOCK FALSE
