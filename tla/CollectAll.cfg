\* Four lazies, collected by each of MCCalls.
CONSTANTS
    input_size = 4
    Calls <- MCCalls
    Null = Null
SPECIFICATION FairSpec
INVARIANTS
    NoFault
    ResumedWhenComplete
    ResultsInOrder
    WindowRespected
PROPERTIES
    ParentReturns
