CONSTANTS
    t1 = t1
    t2 = t2
    Threads <- MCThreads
    Fds = {f1}
    WakeFd = wakeFd
    LoopThread = loopThread
    MaxPosts <- MCMaxPosts
    MaxEvents = 2
SPECIFICATION Spec
INVARIANTS TypeOK TasksInOrder EpollInSync SleepsOnlyAfterDrain
PROPERTIES ImplementsExecutor StopEndsLoop
CHECK_DEADLOCK FALSE
