SPECIFICATION MCSpec
CONSTANTS
    Trees = {t1, t2}
    MaxRevisions = 2
    MaxFaults = 2
    MaxRetries = 1
    MaxMeddles = 1
    RequiredChecks = {"build", "test"}
    OtherChecks = {}
    Heads = {"h1", "h2"}
    Checkers = {"s1", "s2"}
    Hand = "cli"
    Items = {"a", "b"}
    Polls = 2
    Faults = 1
    Reopens = 1
    Changes = 1
    Moves = 1
    Crashes = 1
    LastHead = 1
    Troubles = 1
    LastTask = 3
    AtOnce = 2
    Resumes = 1
    Failures = 1
    Process = {p1, p2, p3}
    Inode = {n1, n2, n3}
    Retries = 2
    None = None
INVARIANTS
    ReachesOnlyItsRepository
    ReportedMergeIsProven
    PublishesOwnSetup
    RejectedIsNotIntegrated
    NoTaskIsMissing
    DirectoriesAreRegistered
    ChangeIsWhole
PROPERTIES
    PublishesInOrder
    PublishesWhatWasReviewed
    MergesOnlyEnforced
    IsALock
CHECK_DEADLOCK FALSE
