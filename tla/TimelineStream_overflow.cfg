SPECIFICATION Spec
CONSTANTS
    c1 = c1
    Client <- MCClient
    ReplayLimit = 4
    HistoryLimit = 4
    QueueSize = 1
    Window = 4
    MaxEvents = 4
    MaxDisconnects = 2
INVARIANTS
    SlowClientsCanReplay
CHECK_DEADLOCK FALSE
