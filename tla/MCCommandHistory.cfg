SPECIFICATION Spec
CONSTANTS
    p1 = p1
    t1 = t1
    u1 = u1
    u2 = u2
    r1 = r1
    None = None
    ProjectId = {p1}
    ThreadId = {t1}
    TurnId = {u1, u2}
    RequestId = {r1}
    MessageId <- MCMessageId
    ClientCommandTypes <- TurnCommands
    MaxSequence = 10
    MaxRestarts = 2
INVARIANTS
    
    MessageHandedOnce
    
    SettledIsQuiet
CHECK_DEADLOCK FALSE
