SPECIFICATION ScopeSpec
CONSTANTS
    Modules = {"src", "docs"}
    Kinds = {"plain", "dependency", "migration", "protected"}
    MaxFiles = 2
    MaxAttempts = 2
    MaxReplans = 1
INVARIANTS
    ApprovedWorkPassesScope
CHECK_DEADLOCK FALSE
