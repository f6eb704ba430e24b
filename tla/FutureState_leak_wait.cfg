\* Wait overwrites the future it waits on.
CONSTANTS
    Promises = {p1}
    Futures = {f1}
    Task = task
    Values = {v1}
    Broken = Broken
    MovedOut = MovedOut
    Nothing = Nothing
    Destroyed = Destroyed
    NullExecutor = NullExecutor
    Ex = Ex
    RefMod = 256
    Setters = {p1}
    Continuers = {}
    Waiters = {f1}
    Takers = {}
    Forcers = {}
    Checkouts = {"worker"}
    ViaArgs = {Ex}
    MoveAssigned = {}
SPECIFICATION Spec
INVARIANTS
    FreedWhenUnreferenced
