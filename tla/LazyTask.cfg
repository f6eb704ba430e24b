\* A root with or without an executor, two executors that may refuse.
CONSTANTS
    Executors = {e1, e2}
    WorkerIds = {0, 1}
    NullExecutor = NullExecutor
    Main = Main
    Outside = Outside
    NoThread = NoThread
    Roots = {"via", "plain"}
    Awaits <- MCAwaits
    MayRefuse = TRUE
    MaxDepth = 3
    MaxAwaits = 5
SPECIFICATION FairSpec
INVARIANTS
    NoFault
    BackOnContext
    OnOwnExecutor
    ReturnsRootResult
PROPERTIES
    SyncAwaitReturns
