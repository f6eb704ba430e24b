\* A running closure schedules another one while the pool is destroyed.
CONSTANTS
    thread_num_ = 2
    Clients = {c1}
    Destroyer = Destroyer
    Items = {a, b}
    Free = Free
    NullFn = NullFn
    Usages <- NestedUsages
    a = a
    b = b
    c = c
    d = d
    c1 = c1
    c2 = c2
SPECIFICATION Spec
INVARIANTS
    AcceptedRunsBeforeDestruction
