\* Fair behaviours of one future, which its owner continues, or waits for and takes.
CONSTANTS
    Promises = {p1, p2}
    Futures = {f1}
    Task = task
    Values = {v1, v2}
    Broken = Broken
    MovedOut = MovedOut
    Nothing = Nothing
    Destroyed = Destroyed
    NullExecutor = NullExecutor
    Ex = Ex
    RefMod = 256
    Setters = {p1}
    Continuers = {f1}
    Waiters = {f1}
    Takers = {f1}
    Forcers = {p1, p2}
    Checkouts = {"worker"}
    ViaArgs = {Ex}
    MoveAssigned = {}
SPECIFICATION MCFairSpec
INVARIANTS
    DeliveredOnce
    PublishedUntilTaken
PROPERTIES
    WaitReturns
    ContinuationRuns
    ImplementsLiveOneShot
