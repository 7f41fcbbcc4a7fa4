SPECIFICATION Spec
CONSTANTS
    k1 = k1
    k2 = k2
    NoKey = NoKey
    Key <- MCKey
    MaxEnqueues = 4
    MaxDrains = 2
    MaxFailures = 2
INVARIANTS
    DrainWaitsForWork
    NoValueStranded
    HandedInOrder
PROPERTIES
    EveryCallSettles
CHECK_DEADLOCK FALSE
