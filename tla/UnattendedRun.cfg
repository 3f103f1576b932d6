SPECIFICATION Spec
CONSTANTS
    Unattended = TRUE
    PullRequests = TRUE
    CIObserved = TRUE
    MergeEnabled = TRUE
    PolishEnabled = FALSE
    MaxTotalAttempts = 1
    CIRepairAttempts = 1
    MaxReplans = 0
    MaxRounds = 1
    MaxReopens = 0
    MaxRestartRecoveries = 1
    Trees = {t0, t1, t2}
    Base = t0
    None = None
    MaxInterrupts = 2
    MaxEscalations = 1
    MaxEdits = 1
SYMMETRY TreeSymmetry
CONSTRAINT EscalatedRunBounds
INVARIANTS
    CallsWithinBudget
    PullRequestHoldsAcceptedWork
    DoneMeansDelivered
PROPERTIES
    ImplementsLifecycle
CHECK_DEADLOCK FALSE
