\* Two objects of each class, two values and two exceptions.
CONSTANTS
    Tries = {x, y}
    Voids = {u, w}
    Values = {v1, v2}
    Exceptions = {e1, e2}
    Moved = Moved
    Empty = Empty
    Dead = Dead
SPECIFICATION Spec
INVARIANTS
    LifetimesMatch
    ReadsBack
