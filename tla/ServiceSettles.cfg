SPECIFICATION FairSpec
CONSTANTS
    Items = {i1}
    Jobs = {j1, j2}
    None = None
    Unattended = {i1}
    MaxConcurrent = 2
    MaxRunsPerDay = 1
    MaxReopens = 1
    MaxHangs = 1
    MaxFaults = 1
    MaxCrashes = 1
INVARIANTS
    CompletionIsNotLost
PROPERTIES
    WorkSettles
