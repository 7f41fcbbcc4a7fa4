SPECIFICATION Spec
CONSTANTS
    MaxSequence = 5
    MaxUnpublished = 1
    PageSize = 2
    ReplayLimit = 3
INVARIANTS
    FeedIsOrderedAndComplete
PROPERTIES
    ImplementsEventFeed
    EveryEventReachesSubscriber
CHECK_DEADLOCK FALSE
