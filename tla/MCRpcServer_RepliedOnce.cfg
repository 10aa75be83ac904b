CONSTANTS
    c1 = c1
    c2 = c2
    Conns <- MCConns
    MaxRequests <- MCMaxRequests
    MaxShort = 1
SPECIFICATION Spec
INVARIANT RepliedOnce
CHECK_DEADLOCK FALSE
