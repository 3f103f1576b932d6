SPECIFICATION Spec
CONSTANTS
    Unattended = FALSE
    PullRequests = TRUE
    CIObserved = TRUE
    MergeEnabled = TRUE
    PolishEnabled = FALSE
    MaxTotalAttempts = 2
    CIRepairAttempts = 1
    MaxReplans = 1
    MaxRounds = 2
    MaxReopens = 1
    MaxRestartRecoveries = 1
    Trees = {t0, t1, t2}
    Base = t0
    None = None
    MaxInterrupts = 1
    MaxEscalations = 0
    MaxEdits = 1
SYMMETRY TreeSymmetry
INVARIANTS
    TypeOK
PROPERTIES
    PushesAcceptedWork
    MergesOnlyAcceptedWork
CHECK_DEADLOCK FALSE
