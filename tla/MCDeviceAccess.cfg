CONSTANTS
    Handle = {h1, h2}
    chipA = chipA
    chipB = chipB
    Chip = {chipA, chipB}
    Offset = {0, 1}
    NoChip = NoChip
    MaxLines = 2
    Configuration <- MCConfiguration
    NULL = NULL
    MaxParameters = 8
    Missing = Missing
    Stray <- MCStray
    GpioBinding <- MCGpioBinding
    GpioPlugin = "gpio"
    Plugin = {p1, p2}
    NameOf <- MCNameOf
    MaxPlugins = 2
    NoPlugin = NoPlugin
    I2cContext = {x1, x2}
    I2cConfiguration <- MCI2cConfiguration
    bus = bus
    FileDescriptor = {d1, d2}
    NoBus = NoBus
    Unset = Unset

SPECIFICATION Spec
SYMMETRY MCSymmetry
CONSTRAINT MCApart

INVARIANTS
    TypeOK
    NothingLeaks
    ReadsBack
    LinesAsBound
    LoadedOnce
    TransfersReachTheSlave

\* Once every plugin has failed to load, no test has a device to open.
CHECK_DEADLOCK FALSE
