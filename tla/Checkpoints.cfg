SPECIFICATION Spec
CONSTANTS
    MaxTurns = 2
    MaxReverts = 1
    MaxFaults = 1
    MaxLag = 3
INVARIANTS
    RefsBackCheckpoints
    DiffIsItsTurns
PROPERTIES
    RevertKeepsInStep
    PlaceholdersFinalized
CHECK_DEADLOCK FALSE
