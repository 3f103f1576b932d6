SPECIFICATION MCSpec
CONSTANTS
    Items = {1, 2}
    Labels = {0}
    Hands = {"hand"}
    Titles = {"plan", "repair"}
    Contents = {"x"}
    Settings = {"m1", "m2"}
    Modules = {"src", "docs"}
    Kinds = {"plain", "dependency", "migration", "protected"}
    MaxAge = 1
    MaxTurns = 3
    MaxTicks = 2
    MaxRounds = 2
    ReviewAttempts = 2
    CIAttempts = 1
    MaxAccepted = 1
    MaxOpen = 2
    HaltAttempts = 1
    MaxEpisodes = 2
    MaxPlans = 2
    Levels = {0, 1, 2}
    OptionLists <- TwoOptions
    WorkerMaps <- ThreeTiers
    SameModel = 2
    Total = 3
    MaxGrants = 1
    Chances = 1
    Capacity = 1
    MaxWorkers = 2
    MaxEdits = 1
    MaxProcessCrashes = 1
    MaxJobs = 2
    MaxSteps = 1
    MaxNotes = 2
    MaxStops = 1
    MaxStalls = 1
    MaxCrashes = 1
    MaxCalls = 3
    MaxRestarts = 1
    MaxRunCrashes = 2
    MaxFiles = 1
    MaxAttempts = 2
    MaxReplans = 1
INVARIANTS
    ServiceRunsAnIssueOnce
    CancelledAgentIsSignalled
    StopHoldsAtNextStep
    NewestNoteIsKept
    HoldsTheRequest
    ReviewsWhatWasVerified
    SafetyFindingsNeedPerson
    PublishesClearedFiles
    OneAttemptPerGrant
    RoutingIsMonotone
PROPERTIES
    ActsOnWhatWasShown
CHECK_DEADLOCK FALSE
