SPECIFICATION Spec
CONSTANTS
    p1 = p1
    t1 = t1
    none = none
    CommandId = {c1, c2, c3}
    None = none
    NoCommand = none
    ProjectId <- MCProjectId
    ThreadId <- MCThreadId
    TurnId = {}
    RequestId = {}
    MessageId <- MCMessageId
    Command <- MCCommand
    Event <- MCEvent
    ReadModel <- MCReadModel
    EmptyReadModel <- InitialReadModel
    Projectors <- MCProjectors
    RequiredProjectors <- MCRequiredProjectors
    ReplayLimit = 2
    File <- MCThreadId
    Decide <- DecideCommandOn
    Project <- ProjectEvent
    Table <- MCTable
    EmptyTable <- EmptyProjection
    ApplyProjector <- ApplyProjection
    LoadReadModel <- MCLoadReadModel
    FilesPrunedBy <- MCFilesPrunedBy
    MaxDispatches = 3
    MaxFaults = 1
    MaxLostReads = 1
    MaxCrashes = 1
    MaxUpgrades = 1
INVARIANTS
    ProjectionsReplayLog
    ReadModelCurrent
    ReceiptsMatchLog
    DecidedOnCommittedState
    AcksAreDurable
    PublishedWithoutGaps
PROPERTIES
    ImplementsCommandLog
    EveryDispatchAnswered
CHECK_DEADLOCK FALSE
