\* Clients that break every rule: two setters, two continuers, a context checked
\* out of the pool, futures lost by move assignment; counters that hold exactly
\* the references there can be.
CONSTANTS
    Promises = {p1, p2}
    Futures = {f1, f2}
    Task = task
    Values = {v1}
    Broken = Broken
    MovedOut = MovedOut
    Nothing = Nothing
    Destroyed = Destroyed
    NullExecutor = NullExecutor
    Ex = Ex
    RefMod = 7
    Setters = {p1, p2}
    Continuers = {f1, f2}
    Waiters = {}
    Takers = {f1, f2}
    Forcers = {p1, p2}
    Checkouts = {"outside"}
    ViaArgs = {Ex}
    MoveAssigned = {f1, f2}
SYMMETRY Symmetry
SPECIFICATION Spec
INVARIANTS
    NoUseAfterFree
    CalledAtMostOnce
