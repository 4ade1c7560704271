CONSTANTS
    o1 = o1
    e1 = e1
    e2 = e2
    r1 = r1
    r2 = r2
    Nobody = Nobody
    Operations <- MCOperations
    STEPS = 2
    Executors <- MCTwoExecutors
    Sweepers <- MCTwoSweepers
    MAX_ATTEMPTS = 2
    MAX_CONCURRENT = 1
    MAX_RECONCILE = 2
    SCOPED = TRUE
    MAX_FAULTS = 1
SYMMETRY MCSymmetry
SPECIFICATION Spec
CHECK_DEADLOCK FALSE
INVARIANTS
    TypeOK
    DispositionsTrue
    NeverAskedInFlight
PROPERTIES
    OutcomeDecidedOnce
    ImplementsPlanRun
