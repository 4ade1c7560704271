CONSTANTS
    a1 = a1
    b1 = b1
    Streams <- MCStreams
    Scopes <- MCScopes
    ScopesOf <- MCScopesOf
    Limit <- MCLimit
    LEASE = 3
SPECIFICATION FairSpec
INVARIANTS TypeOK WriterHoldsLease WritersWithinLimit ScopesAgree
PROPERTIES OverStaysOver CapacityReclaimed
