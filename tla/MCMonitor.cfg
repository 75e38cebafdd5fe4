SPECIFICATION Spec
CONSTANTS
    MaxUint = 100000
    Targets = {t1, t2}
    MinTargets = 2
    Resolution = 2
    Periods = {3, 5}
    PhaseErrors <- MCPhaseErrors
    Anchors = {4}
    AnalysisEvery = 2
    FirstAnalysis = 1
    AnalysisWindow = 1
    LearnTime = 2
    ValidationInterval = 2
    ConfirmCycles = 1
    ValidationCycles = 1
    CooldownCycles = 1
    ResyncCycles = 1
    LockWindow = 2
    LockMinFits = 2
    RelearnThreshold = 1
    RelearnCount = 2
    ConsensusWindow = 2
    ConsensusMin = 1
    ConsensusPercent = 80
    ResyncThreshold = 1
    AlphaPercent = 100
    ConfirmMin = 1
    ValidationMin = 1
    AutoGuard = TRUE
    GuardValues = {20}
    GuardMinSamples = 2
    GuardStep = 10
    InitSysctl <- FoundSysctl
    CanFail = TRUE
INVARIANTS KernelFollows
PROPERTIES PeriodFixedWhileOn SessionsEnd ValidatedAgain
