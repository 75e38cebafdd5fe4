SPECIFICATION Spec
CONSTANTS
    PairRuns = 2
    MaxAttempt = 2
    Randomize = TRUE
    SlowStart = TRUE
    CanInterrupt = TRUE
INVARIANTS NormalStaysOff
PROPERTIES AbortedNotCounted OneMonitor OrphanOnlyBeforePidFile Terminates
CHECK_DEADLOCK FALSE
