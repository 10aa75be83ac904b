CONSTANTS
    once = once
    often = often
    Events <- MCEvents
    Interval <- MCInterval
    Repeated <- MCRepeated
    Callers = {t1, t2}
    LoopThread = loopThread
    Grace = 1
SPECIFICATION Spec
INVARIANTS TypeOK ArmedWhileWaiting CancelledRunsAtMostOnce
PROPERTIES CancelledLeaves WaitingIsCollected
CHECK_DEADLOCK FALSE
