SPECIFICATION MCSpec
CONSTANTS
    Msses = {3, 2}
    MaxData = 5
    WriteSizes = {2, 5}
    Windows = {0, 3, 5}
    Cwnds = {4}
    MaxSegs = 2
    TsoWinDivisor = 1
    MtuProbing = TRUE
    ProbeCwnd = 4
    Reordering = 0
    FastOpenSizes <- FastOpen
    Nagles <- Nagle
    Env <- Envs
    Rooms = {0, 1}
    Failures = {"early", "mid", "late"}
    MaxTrouble = 2
INVARIANTS QueuesCover CountersMatch CountersCover HintSkipsNothing NoBug NeverStranded
PROPERTIES SentInWindow
CHECK_DEADLOCK FALSE
