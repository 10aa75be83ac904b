CONSTANTS
    c1 = c1
    c2 = c2
    Conns <- MCConns
    MaxRequests <- MCMaxRequests
    MaxShort = 1
SPECIFICATION LiveSpec
INVARIANTS
    TypeOK
    IdleMeansAnswered
    DeletedIsUnreachable
PROPERTIES
    ClosedForGood
    AnsweredEventually
    GoneIsDropped
CHECK_DEADLOCK FALSE
