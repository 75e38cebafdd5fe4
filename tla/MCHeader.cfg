SPECIFICATION HeaderSpec
CONSTANTS
    Macs = {13}
    Cookies = {10}
    MptcpSizes = {12}
    BpfSizes = {13}
    Mtus = {60, 150}
    PeerMss = {20, 120}
    Windows = {30, 65535}
    SackCounts = {0, 1, 4}
    ExtHdr = 0
    MinSndMss = 48
    BaseMss = 70
    ProbeFloor = 48
    Spaces = {0, 6000000}
    Clamps = {0, 40000}
    MaxRmem = 6291456
    InitRwnds = {10}
INVARIANTS HeaderFits MssFloor SegmentFits
CHECK_DEADLOCK FALSE
