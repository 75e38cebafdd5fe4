SPECIFICATION DeferSpec
CONSTANTS
    Truesize = 8
    Limit = 16
    Writes = {3}
    MaxEvents = 4
    MaxBacklog = 1
    MaxFails = 2
    Atos = {9}
    DelackMin = 3
    DelackMax = 4
    RtoMax = 6
INVARIANTS RefsBalanced MemoryKept WakeupComing
PROPERTIES NeverPostponed EventuallySent EventuallyAcked
CHECK_DEADLOCK FALSE
