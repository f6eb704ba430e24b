\* Three lazies that end in any order, or never, on any thread.
CONSTANTS
    size = 3
    IsVoid = FALSE
    Null = Null
SPECIFICATION FairSpec
INVARIANTS
    NoFault
    FirstWins
PROPERTIES
    ParentGoesOn
