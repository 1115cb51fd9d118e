CONSTANTS
    led = led
    button = button
    bus = bus
    blink = blink
    press = press
    scan = scan
    b1 = b1
    p1 = p1
    s1 = s1
    w1 = w1
    w2 = w2
    Device = {led, button, bus}
    Function = {blink, press, scan}
    Instance = {b1, p1, s1}
    DevicesOf <- MCDevicesOf
    FunctionOf <- MCFunctionOf
    MaxResources = 3
    NULL = NULL
    Wild = Wild
    Submitter = {main}
    Asker = {w1, w2}
    Queued = {p1}
    MaxTestInstances = 2
    MaxInstances = 2
    WordSize = 4
    HeapCount = {0, 1, 2, 3}

SPECIFICATION SchedulingSpec
SYMMETRY Workers

INVARIANTS
    TypeOK
    HolderOwnsAll
    NothingLeaks
    HandedWereSubmitted

PROPERTIES
    OnlyOwnerGivesBack
