CONSTANTS
    q1 = q1
    q2 = q2
    q3 = q3
    Requests <- MCRequestsPair
    Cap = 2
    Est <- MCEst
    Ceiling <- MCCeiling
    Costs <- MCCosts
    TTL = 2
    SLACK = 1
    MARK = 1
    GRACE = 1
SPECIFICATION FairSpec
PROPERTIES SettledStaysSettled
