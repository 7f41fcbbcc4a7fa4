SPECIFICATION Spec
CONSTANTS
    MaxBuffered = 1
    MaxTurns = 2
    MaxItems = 2
    MaxPieces = 4
    MaxRequests = 2
    MaxUpsets = 1
INVARIANTS
    TextKept
    ShownOnce
    ShownInOrder
    StreamingEnds
CHECK_DEADLOCK FALSE
