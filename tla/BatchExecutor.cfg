SPECIFICATION FairBatchSpec
CONSTANTS
    N = 3
    Groups = 2
    Plans <- MCPlans
    Cancellable = TRUE
INVARIANTS
    BatchTypeOK
    OrderHonoured
    UnsafeAlone
    NothingForgotten
PROPERTIES
    AbortStartsNothing
    BatchEnds
CHECK_DEADLOCK FALSE
