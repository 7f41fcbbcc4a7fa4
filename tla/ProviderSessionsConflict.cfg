SPECIFICATION Spec
CONSTANTS
    Instance = {i1, i2}
    None = None
    MaxTurns = 2
    MaxEvents = 1
INVARIANT
    ListSessionsSucceeds
CHECK_DEADLOCK FALSE
