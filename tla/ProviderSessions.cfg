SPECIFICATION Spec
CONSTANTS
    Instance = {i1, i2}
    None = None
    MaxTurns = 2
    MaxEvents = 1
INVARIANTS
    DiesOnlyWhenCrossed
    
PROPERTIES
    ReapedTurnsAreNews
CHECK_DEADLOCK FALSE
