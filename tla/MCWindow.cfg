SPECIFICATION TWSpec
CONSTANTS
    U32Range = 64
    U64Range = 100000
    UsecPerMsec = 1
    UsecPerSec = 1
    BytesPerMbps = 1
    AdvMss = 3
    DefaultMss = 1
    ScaleUnit = 2
    MaxUint = 1000
    StartClocks = {13}
    TickSizes = {1}
    MaxTime = 7
    ClockSets = {}
    InitialSeq = 60
    SegmentSizes = {3}
    MaxBytes = 6
    NormalWindows = {}
    RcvRtts = {32}
    RcvMsses = {3}
    Sport = 20075
    Dport = 5000
    InitSysctls <- AllSysctls
    InitPorts <- BootPorts
    SysctlWrites <- SwitchWrites
    PortWrites = {}
    Buffer = 8
    WindowClamp = 8
    InitialWindow = 6
    SsThreshes = {8}
    ReadSizes = {2}
    MaxScaled = 3
INVARIANTS WireFloor
PROPERTIES OfferKept
CHECK_DEADLOCK FALSE
