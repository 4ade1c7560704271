CONSTANTS
    o1 = o1
    w1 = w1
    w2 = w2
    w3 = w3
    Operations <- MCOperations
    Workers <- MCWorkers
    Sweepers <- MCSweepers
    MAX_ATTEMPTS = 2
    Nobody = Nobody
    Legacy <- MCOperations
    Unpaid <- MCOperations
    MAX_CRASHES = 2
SPECIFICATION LiveSpec
CHECK_DEADLOCK FALSE
INVARIANTS
    TypeOK
    ReleasedMeansNothingCreated
PROPERTIES
    ClaimUndisturbed
    ConclusionStands
    ImplementsDelivery
    NothingStranded
