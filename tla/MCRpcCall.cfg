CONSTANTS
    MaxRetry = 3
    MaxReplies = 3
SPECIFICATION Spec
INVARIANTS TypeOK ClosureAtMostOnce
PROPERTIES ReportIsTrue ImplementsCall CallFinishes
CHECK_DEADLOCK FALSE
