SPECIFICATION BatchSpec
CONSTANTS
    N = 3
    Groups = 2
    Plans <- TwoWrites
    Cancellable = FALSE
INVARIANTS
    MutationsSerialized
CHECK_DEADLOCK FALSE
