\* Two promise copies and two futures of one shared state, an executor that may
\* refuse, force-scheduling and a checked-out context.
CONSTANTS
    Promises = {p1, p2}
    Futures = {f1, f2}
    Task = task
    Values = {v1, v2}
    Broken = Broken
    MovedOut = MovedOut
    Nothing = Nothing
    Destroyed = Destroyed
    NullExecutor = NullExecutor
    Ex = Ex
    RefMod = 256
    Setters = {p1}
    Continuers = {f1}
    Waiters = {}
    Takers = {}
    Forcers = {p1, p2}
    Checkouts = {"worker"}
    ViaArgs = {Ex}
    MoveAssigned = {}
SPECIFICATION Spec
INVARIANTS
    TypeOK
    IndInv
    RefCountExact
    NoFault
    FreedWhenUnreferenced
PROPERTIES
    ImplementsOneShot
