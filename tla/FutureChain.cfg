\* Five programs of futures, an executor that may refuse, promises set anywhere.
CONSTANTS
    Programs <- MCPrograms
SPECIFICATION FairSpec
INVARIANTS
    ResultsAgree
    NoFault
    CallbackOnExecutor
PROPERTIES
    AllFulfilled
