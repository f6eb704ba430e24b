\* Two workers and two clients, without stealing and with it.
CONSTANTS
    thread_num_ = 2
    Clients = {c1, c2}
    Destroyer = Destroyer
    Items = {a, b, c, d}
    Free = Free
    NullFn = NullFn
    Usages <- MCUsages
    a = a
    b = b
    c = c
    d = d
    c1 = c1
    c2 = c2
SPECIFICATION FairSpec
INVARIANTS
    TypeOK
    ItemsAccountedFor
    PinnedRunsAtHome
    PinnedRunInOrder
PROPERTIES
    AcceptedRuns
    SyncScheduleReturns
    DestructionEnds
