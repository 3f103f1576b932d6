SPECIFICATION Spec
CONSTANTS
    Unattended = FALSE
    PullRequests = TRUE
    CIObserved = TRUE
    MergeEnabled = TRUE
    PolishEnabled = FALSE
    MaxTotalAttempts = 1
    CIRepairAttempts = 1
    MaxReplans = 1
    MaxRounds = 1
    MaxReopens = 0
    MaxRestartRecoveries = 1
    Trees = {t0, t1, t2}
    Base = t0
    None = None
    MaxInterrupts = 0
    MaxEscalations = 0
    MaxEdits = 0
SYMMETRY TreeSymmetry
INVARIANTS
    SingleRouteDelivers
CHECK_DEADLOCK FALSE
