CONSTANTS
    a1 = a1
    a2 = a2
    a3 = a3
    w1 = w1
    s1 = s1
    Approvals <- MCApprovals
    Request <- MCRequest
    Writers <- MCWriters
    Sweepers <- MCSweepers
    Nobody = Nobody
    LIMIT = 2
    MAX_LOST = 1
    MAX_CRASHES = 1
    MAX_SESSIONS = 1
SPECIFICATION LiveSpec
CHECK_DEADLOCK FALSE
INVARIANTS
    TypeOK
    HoldDescribed
    FundedWithoutSessionLoss
PROPERTIES
    SettledIsFinal
    HoldsDecided
