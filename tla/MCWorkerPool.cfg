CONSTANTS
    led = led
    button = button
    bus = bus
    blink = blink
    press = press
    scan = scan
    b1 = b1
    p1 = p1
    s1 = s1
    s2 = s2
    Worker = {w1, w2}
    Capacity = 2
    Device = {led, button, bus}
    Function = {blink, press, scan}
    Instance = {b1, p1, s1, s2}
    DevicesOf <- MCDevicesOf
    FunctionOf <- MCFunctionOf
    MaxResources = 3
    NULL = NULL
    Executable = {b1, p1, s1}

SPECIFICATION Spec
CHECK_DEADLOCK FALSE

INVARIANTS
    TypeOK
    BusyMeansRunning

PROPERTIES
    CleanedBeforeGivenBack
    QueuedIsJudged
