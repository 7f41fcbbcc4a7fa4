SPECIFICATION Spec
CONSTANTS
    ReplayLimit = 2
    DetailEventLimit = 1
    MaxProjectEvents = 1
    Budgets <- Undisturbed
INVARIANTS
    NoPieceShownTwice
CHECK_DEADLOCK FALSE
