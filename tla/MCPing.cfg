SPECIFICATION PingSpec
CONSTANTS
    PktLen = 2
    MaxPkts = 3
    Threshold = 4
    MaxTime = 14
    Gaps = {1, 4, 5}
INVARIANTS EchoesIntact NoPopOrphan
PROPERTIES ReconfigIsGap StopEnds
CHECK_DEADLOCK FALSE
