SPECIFICATION MCSpec
CONSTANTS
    Unattended = TRUE
    PullRequests = TRUE
    CIObserved = TRUE
    MergeEnabled = TRUE
    PolishEnabled = FALSE
    MaxTotalAttempts = 1
    CIRepairAttempts = 1
    MaxReplans = 1
    MaxRounds = 1
    MaxReopens = 1
    MaxRestartRecoveries = 1
    Trees = {t0, t1}
    Base = t0
    None = None
    MaxInterrupts = 1
    MaxEscalations = 0
    MaxEdits = 0
PROPERTIES
    RunsFinish
CHECK_DEADLOCK FALSE
