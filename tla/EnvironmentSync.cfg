SPECIFICATION Spec
CONSTANTS
    ReplayLimit = 2
    DetailEventLimit = 1
    MaxProjectEvents = 2
    Budgets <- MCBudgets
INVARIANTS
    ProjectFollowsVersion
    DetailFollowsLog
PROPERTIES
    VersionNeverGoesBack
    RecoveryEnds
    ProjectionCatchesUp
CHECK_DEADLOCK FALSE
