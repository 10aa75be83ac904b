CONSTANTS
    NumLoops = 2
    Fds = {f1, f2}
    MaxSockets = 3
SPECIFICATION Spec
INVARIANTS TypeOK WaitingIsWatched ForeignOnlyIfLeft
PROPERTY AcceptedIsWatched
CHECK_DEADLOCK FALSE
