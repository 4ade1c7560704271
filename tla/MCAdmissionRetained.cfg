CONSTANTS
    a1 = a1
    a2 = a2
    a3 = a3
    w1 = w1
    s1 = s1
    Approvals <- MCOneApproval
    Request <- MCRequest
    Writers <- MCWriters
    Sweepers <- MCSweepers
    Nobody = Nobody
    LIMIT = 1
    MAX_LOST = 1
    MAX_CRASHES = 0
    MAX_SESSIONS = 0
SPECIFICATION LiveSpec
CHECK_DEADLOCK FALSE
PROPERTIES IntentsResolved
