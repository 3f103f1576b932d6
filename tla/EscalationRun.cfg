SPECIFICATION MCSpec
CONSTANTS
    None = None
    Drains = TRUE
    Window = 0
    MaxReopens = 1
    MaxAttempts = 2
    PageSize = 1
    PagesPerPoll = 1
    HaltClasses = {"PLAN_DECISION"}
    MaxEpisodes = 5
    MaxClock = 1
    MaxComments = 2
    MaxHalts = 1
    MaxEscalations = 0
    MaxFaults = 1
    MaxCrashes = 1
    MaxDeletions = 0
INVARIANTS
    ReopenedHasItsAnswers
    AcceptedRequestsStayPending
PROPERTIES
    DrainedDecisions
    RepliesAreTaken
    EpisodesSettle
CHECK_DEADLOCK FALSE
