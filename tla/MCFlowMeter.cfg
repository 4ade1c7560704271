CONSTANTS
    q1 = q1
    q2 = q2
    q3 = q3
    Requests <- MCRequests
    Cap = 3
    Est <- MCEst
    Ceiling <- MCCeiling
    Costs <- MCCosts
    TTL = 2
    SLACK = 1
    MARK = 1
    GRACE = 0
SPECIFICATION Spec
INVARIANTS TypeOK LostStaysLost
PROPERTIES AdmissionCovered
SYMMETRY Sym
