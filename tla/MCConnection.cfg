SPECIFICATION ConnSpec
CONSTANTS
    Msses = {2}
    MaxData = 3
    WriteSizes = {3}
    Windows = {0, 3}
    Cwnds = {4}
    MaxSegs = 2
    TsoWinDivisor = 1
    MtuProbing = FALSE
    ProbeCwnd = 4
    Reordering = 0
    FastOpenSizes <- NoFastOpen
    Nagles <- Nagle
    Env <- Envs
    Calm <- CalmEnv
    MaxTrouble = 3
PROPERTIES ImplementsStream AllAcknowledged
CHECK_DEADLOCK FALSE
