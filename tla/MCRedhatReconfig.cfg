SPECIFICATION Spec
CONSTANTS
    U32Range = 64
    U64Range = 100000
    UsecPerMsec = 1
    UsecPerSec = 1
    BytesPerMbps = 1
    AdvMss = 1
    DefaultMss = 1
    ScaleUnit = 1
    MaxUint = 1000
    StartClocks = {17}
    TickSizes = {1}
    MaxTime = 6
    ClockSets = {20}
    InitialSeq = 63
    SegmentSizes = {2}
    MaxBytes = 2
    NormalWindows = {4}
    RcvRtts = {32}
    RcvMsses = {1}
    Sport = 20075
    Dport = 5000
    InitSysctls <- ScaledSysctls
    InitPorts <- BootPorts
    SysctlWrites <- MidCycleWrites
    PortWrites <- MidCyclePorts
INVARIANTS TypeOK SafeShrink
PROPERTIES HeldUntilRamp
CHECK_DEADLOCK FALSE
