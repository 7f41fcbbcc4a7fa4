SPECIFICATION Spec
CONSTANTS
    p1 = p1
    t1 = t1
    None = None
    worker = worker
    startup = startup
    ProjectId = {p1}
    ThreadId = {t1}
    Project = p1
    Thread = t1
    RequestId = {}
    MessageId <- MCMessageId
    TurnId <- MCTurnId
    Limits <- SafetyLimits
INVARIANTS
    
    DirectStartsSurvive
PROPERTIES
    StartsInOrder
CHECK_DEADLOCK FALSE
