CONSTANTS
    o1 = o1
    e1 = e1
    e2 = e2
    r1 = r1
    r2 = r2
    Nobody = Nobody
    Operations <- MCOperations
    STEPS = 2
    Executors <- MCOneExecutor
    Sweepers <- MCOneSweeper
    MAX_ATTEMPTS = 2
    MAX_CONCURRENT = 1
    MAX_RECONCILE = 1
    SCOPED = TRUE
    MAX_FAULTS = 0
SPECIFICATION LiveSpec
CHECK_DEADLOCK FALSE
PROPERTIES
    DeadExecutorSettles
