SPECIFICATION TWSpec
CONSTANTS
    U32Range = 64
    U64Range = 100000
    UsecPerMsec = 1
    UsecPerSec = 1
    BytesPerMbps = 1
    AdvMss = 3
    DefaultMss = 1
    ScaleUnit = 2
    MaxUint = 1000
    StartClocks = {13}
    TickSizes = {1}
    MaxTime = 8
    ClockSets = {}
    InitialSeq = 60
    SegmentSizes = {1, 3}
    MaxBytes = 9
    NormalWindows = {}
    RcvRtts = {32}
    RcvMsses = {3}
    Sport = 20075
    Dport = 5000
    InitSysctls <- NoShrinkDynamicSysctls
    InitPorts <- OtherPorts
    SysctlWrites = {}
    PortWrites = {}
    Buffer = 8
    WindowClamp = 8
    InitialWindow = 6
    SsThreshes = {8}
    ReadSizes = {2}
    MaxScaled = 7
INVARIANT ShrinkOnlyIfEnabled
CHECK_DEADLOCK FALSE
