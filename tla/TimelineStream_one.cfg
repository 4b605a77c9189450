SPECIFICATION FairSpec
CONSTANTS
    c1 = c1
    Client <- MCClient
    ReplayLimit = 2
    HistoryLimit = 4
    QueueSize = 2
    Window = 3
    MaxEvents = 5
    MaxDisconnects = 2
INVARIANTS
    TypeOK
    ShownInOrder
    FeedInOrder
    GapsAreKnown
PROPERTIES
    QueuedIsShown
    ImplementsFeed
CHECK_DEADLOCK FALSE
