CONSTANTS
    q1 = q1
    q2 = q2
    q3 = q3
    Requests <- MCRequests
    Budgets <- MCBudgets
    BudgetsOf <- MCBudgetsOf
    Cap <- MCCap
    Est <- MCEst
    Costs <- MCCosts
    TTL = 2
    MAX_CHECK = 1
    MAX_POST = 2
SPECIFICATION Spec
INVARIANTS TypeOK OverrunOnlyByLate AllBudgetsOrNone
PROPERTIES ExpiredStaysExpired
