SPECIFICATION Spec
CONSTANTS
    U32Range = 64
    U64Range = 100000
    UsecPerMsec = 1
    UsecPerSec = 1
    BytesPerMbps = 1
    AdvMss = 1
    DefaultMss = 1
    ScaleUnit = 1
    MaxUint = 1000
    StartClocks = {13}
    TickSizes = {1}
    MaxTime = 22
    ClockSets = {}
    InitialSeq = 63
    SegmentSizes = {2}
    MaxBytes = 4
    NormalWindows = {4, 5}
    RcvRtts = {32}
    RcvMsses = {1}
    Sport = 20075
    Dport = 5000
    InitSysctls <- ScaledSysctls
    InitPorts <- BootPorts
    SysctlWrites = {}
    PortWrites = {}
INVARIANTS NoStaleSnapshot ControlEndsByBoundary
PROPERTIES CyclesAdvance MonotoneWithinCycle
CHECK_DEADLOCK FALSE
