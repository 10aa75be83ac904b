------------------------------ MODULE EventLoop ------------------------------
(***************************************************************************)
(* One EventLoop (src/netrpc/net/eventloop.cc): the thread that runs       *)
(* loop(), other threads that call addEpollEvent, deleteEpollEvent and     *)
(* stop, the task queue m_pending_tasks behind m_mutex, the eventfd that   *)
(* wakes epoll_wait, and the kernel's epoll set.                           *)
(*                                                                         *)
(* A step of the model is what one thread does between two points where    *)
(* another thread can observe it: a critical section of m_mutex, a system  *)
(* call on the eventfd or on epoll, or one task run by the loop.           *)
(***************************************************************************)
EXTENDS Naturals, Sequences

CONSTANTS
    Threads,        \* threads other than the loop's own that use the loop
    Fds,            \* sockets whose FdEvent is handed to this loop
    WakeFd,         \* m_wakeup_fd
    LoopThread,     \* the thread that created the loop and runs loop()
    MaxPosts,       \* bound: tasks each thread posts
    MaxEvents       \* g_epoll_max_events: results of one epoll_wait

ASSUME LoopAssumption ==
    /\ WakeFd \notin Fds
    /\ LoopThread \notin Threads
    /\ MaxPosts \in [Threads -> Nat]
    /\ MaxEvents \in Nat \ {0}

AllFds == Fds \cup {WakeFd}
Interest == {"IN", "OUT"}           \* what an FdEvent listens for
Events == Interest \cup {"ERR"}     \* what epoll_wait reports

\* A task is what the std::function in the queue does when called. "add" and
\* "del" are the lambdas of addEpollEvent and deleteEpollEvent, n their number
\* among the tasks posted by "from"; "IN" and "OUT" are copies of the read and
\* write callback of an FdEvent, pushed by the loop itself.
Posted == [op : {"add", "del"}, fd : Fds, from : Threads, n : Nat \ {0}]
Handlers == [op : Interest, fd : AllFds, from : {LoopThread}, n : {0}]
Tasks == Posted \cup Handlers
Results == [fd : AllFds, events : SUBSET Events]

VARIABLES
    quit,           \* m_quit
    isLooping,      \* m_is_looping
    loopPc,         \* where the loop thread is in loop()
    pending,        \* m_pending_tasks
    batch,          \* tmp_tasks
    results,        \* result_events still to be handled
    signalled,      \* the eventfd's counter is not zero
    drained,        \* history: this round's batch has read the eventfd
    listenFds,      \* m_listen_fds
    kernelFds,      \* kernel: the fds in the epoll set
    kernelMask,     \* kernel: the events each of them is registered for
    mask,           \* m_listen_events of each fd's FdEvent
    threadPc,       \* where each other thread is in a call on the loop
    target,         \* the fd of that call
    posted,         \* history: how many tasks each thread has pushed
    ran             \* history: the number of its last task that was run

queueVars == <<pending, batch>>
epollVars == <<listenFds, kernelFds, kernelMask>>
threadVars == <<threadPc, target, posted>>
vars == <<quit, isLooping, loopPc, queueVars, results, signalled, drained,
          epollVars, mask, threadVars, ran>>

TypeOK ==
    /\ quit \in BOOLEAN
    /\ isLooping \in BOOLEAN
    /\ loopPc \in {"created", "check", "swap", "run", "wait", "dispatch", "ended"}
    /\ pending \in Seq(Tasks)
    /\ batch \in Seq(Tasks)
    /\ results \in Seq(Results)
    /\ signalled \in BOOLEAN
    /\ drained \in BOOLEAN
    /\ listenFds \in SUBSET AllFds
    /\ kernelFds \in SUBSET AllFds
    /\ kernelMask \in [AllFds -> SUBSET Interest]
    /\ mask \in [AllFds -> SUBSET Interest]
    /\ threadPc \in [Threads -> {"idle", "listened", "wakeup"}]
    /\ target \in [Threads -> AllFds]
    /\ posted \in [Threads -> Nat]
    /\ ran \in [Threads -> Nat]
    /\ \A t \in Threads :
          threadPc[t] = "listened" => target[t] \in Fds /\ posted[t] < MaxPosts[t]

\* The constructor has created the eventfd and registered it (initWakeUpFdEvent).
Init ==
    /\ quit = FALSE
    /\ isLooping = FALSE
    /\ loopPc = "created"
    /\ pending = <<>>
    /\ batch = <<>>
    /\ results = <<>>
    /\ signalled = FALSE
    /\ drained = FALSE
    /\ listenFds = {WakeFd}
    /\ kernelFds = {WakeFd}
    /\ kernelMask = [f \in AllFds |-> IF f = WakeFd THEN {"IN"} ELSE {}]
    /\ mask = [f \in AllFds |-> IF f = WakeFd THEN {"IN"} ELSE {}]
    /\ threadPc = [t \in Threads |-> "idle"]
    /\ target = [t \in Threads |-> WakeFd]
    /\ posted = [t \in Threads |-> 0]
    /\ ran = [t \in Threads |-> 0]

-----------------------------------------------------------------------------
(* epoll_ctl, and the macros ADD_TO_EPOLL and DELETE_TO_EPOLL around it.   *)

\* The kernel refuses to add a registered fd (EEXIST) and to modify or delete
\* one that is not (ENOENT); the code logs the error and goes on.
EpollCtl(op, f, m) ==
    /\ kernelFds' = CASE op = "ADD" -> kernelFds \cup {f}
                      [] op = "DEL" -> kernelFds \ {f}
                      [] op = "MOD" -> kernelFds
    /\ kernelMask' = IF (op = "ADD" /\ f \notin kernelFds) \/ (op = "MOD" /\ f \in kernelFds)
                       THEN [kernelMask EXCEPT ![f] = m]
                       ELSE kernelMask

AddToEpoll(f, m) ==
    /\ EpollCtl(IF f \in listenFds THEN "MOD" ELSE "ADD", f, m)
    /\ listenFds' = listenFds \cup {f}

\* Mutant of DeleteToEpoll: the fd is not erased from m_listen_fds.
DeleteWithoutErase(f) ==
    \/ /\ f \notin listenFds
       /\ UNCHANGED epollVars
    \/ /\ f \in listenFds
       /\ EpollCtl("DEL", f, {})
       /\ UNCHANGED listenFds

DeleteToEpoll(f) ==
    \/ /\ f \notin listenFds
       /\ UNCHANGED epollVars
    \/ /\ f \in listenFds
       /\ EpollCtl("DEL", f, {})
       /\ listenFds' = listenFds \ {f}

-----------------------------------------------------------------------------
(* The threads that do not run the loop.                                   *)

Queue == batch \o pending

\* An FdEvent is handed over by one thread, before the loop knows its fd: a
\* connection that has just been accepted.
Fresh(f) ==
    /\ f \notin listenFds
    /\ \A i \in DOMAIN Queue : Queue[i].fd # f
    /\ \A i \in DOMAIN results : results[i].fd # f
    /\ \A t \in Threads : threadPc[t] = "listened" => target[t] # f

\* FdEvent::listen for the events m, called before addEpollEvent.
Listen(t, f, m) ==
    /\ threadPc[t] = "idle"
    /\ posted[t] < MaxPosts[t]
    /\ Fresh(f)
    /\ mask' = [mask EXCEPT ![f] = m]
    /\ threadPc' = [threadPc EXCEPT ![t] = "listened"]
    /\ target' = [target EXCEPT ![t] = f]
    /\ UNCHANGED <<quit, isLooping, loopPc, queueVars, results, signalled, drained,
                   epollVars, posted, ran>>

\* Mutant of AddTask: is_wake_up left at its default, false.
AddTaskAsleep(t, op, f) ==
    /\ pending' = Append(pending, [op |-> op, fd |-> f, from |-> t, n |-> posted[t] + 1])
    /\ posted' = [posted EXCEPT ![t] = @ + 1]
    /\ threadPc' = [threadPc EXCEPT ![t] = "idle"]
    /\ UNCHANGED <<quit, isLooping, loopPc, batch, results, signalled, drained,
                   epollVars, mask, target, ran>>

\* The critical section of addTask(cb, true); wakeup() follows.
AddTask(t, op, f) ==
    /\ pending' = Append(pending, [op |-> op, fd |-> f, from |-> t, n |-> posted[t] + 1])
    /\ posted' = [posted EXCEPT ![t] = @ + 1]
    /\ threadPc' = [threadPc EXCEPT ![t] = "wakeup"]
    /\ UNCHANGED <<quit, isLooping, loopPc, batch, results, signalled, drained,
                   epollVars, mask, target, ran>>

AddEpollEvent(t) ==
    /\ threadPc[t] = "listened"
    /\ AddTask(t, "add", target[t])

DeleteEpollEvent(t, f) ==
    /\ threadPc[t] = "idle"
    /\ posted[t] < MaxPosts[t]
    /\ AddTask(t, "del", f)

\* stop() sets the flag, then writes the eventfd.
Stop(t) ==
    /\ threadPc[t] = "idle"
    /\ ~quit
    /\ quit' = TRUE
    /\ threadPc' = [threadPc EXCEPT ![t] = "wakeup"]
    /\ UNCHANGED <<isLooping, loopPc, queueVars, results, signalled, drained,
                   epollVars, mask, target, posted, ran>>

Wakeup(t) ==
    /\ threadPc[t] = "wakeup"
    /\ signalled' = TRUE
    /\ threadPc' = [threadPc EXCEPT ![t] = "idle"]
    /\ UNCHANGED <<quit, isLooping, loopPc, queueVars, results, drained,
                   epollVars, mask, target, posted, ran>>

ThreadCall(t) ==
    \/ \E f \in Fds, m \in (SUBSET Interest) \ {{}} : Listen(t, f, m)
    \/ AddEpollEvent(t)
    \/ \E f \in Fds : DeleteEpollEvent(t, f)
    \/ Stop(t)
    \/ Wakeup(t)

-----------------------------------------------------------------------------
(* The loop's own thread.                                                  *)

StartLoop ==
    /\ loopPc = "created"
    /\ isLooping' = TRUE
    /\ loopPc' = "check"
    /\ UNCHANGED <<quit, queueVars, results, signalled, drained, epollVars, mask,
                   threadVars, ran>>

\* Mutant of CheckQuit: a loop that is to quit first works off its queue.
CheckQuitWhenEmpty ==
    /\ loopPc = "check"
    /\ loopPc' = IF quit /\ pending = <<>> THEN "ended" ELSE "swap"
    /\ UNCHANGED <<quit, isLooping, queueVars, results, signalled, drained,
                   epollVars, mask, threadVars, ran>>

\* while (!m_quit): the flag is read before the lock is taken.
CheckQuit ==
    /\ loopPc = "check"
    /\ loopPc' = IF quit THEN "ended" ELSE "swap"
    /\ UNCHANGED <<quit, isLooping, queueVars, results, signalled, drained,
                   epollVars, mask, threadVars, ran>>

\* Mutant of SwapTasks: the queue is copied instead of swapped.
CopyTasks ==
    /\ loopPc = "swap"
    /\ batch' = pending
    /\ drained' = FALSE
    /\ loopPc' = "run"
    /\ UNCHANGED <<quit, isLooping, pending, results, signalled, epollVars, mask,
                   threadVars, ran>>

SwapTasks ==
    /\ loopPc = "swap"
    /\ batch' = pending
    /\ pending' = <<>>
    /\ drained' = FALSE
    /\ loopPc' = "run"
    /\ UNCHANGED <<quit, isLooping, results, signalled, epollVars, mask, threadVars, ran>>

Task == Head(batch)

PopTask ==
    /\ loopPc = "run"
    /\ batch # <<>>
    /\ batch' = Tail(batch)
    /\ UNCHANGED <<isLooping, loopPc, pending, results, threadVars>>

\* A lambda of addEpollEvent or deleteEpollEvent.
RunPosted ==
    /\ PopTask
    /\ \/ Task.op = "add" /\ AddToEpoll(Task.fd, mask[Task.fd])
       \/ Task.op = "del" /\ DeleteToEpoll(Task.fd)
    /\ ran' = [ran EXCEPT ![Task.from] = Task.n]
    /\ UNCHANGED <<quit, signalled, drained, mask>>

\* The read callback of the eventfd: one read takes the whole counter.
RunDrain ==
    /\ PopTask
    /\ Task.op = "IN"
    /\ Task.fd = WakeFd
    /\ signalled' = FALSE
    /\ drained' = TRUE
    /\ UNCHANGED <<quit, epollVars, mask, ran>>

\* Any other callback. It runs in the loop's thread, where addEpollEvent and
\* deleteEpollEvent take effect at once: it may change what its fd listens for,
\* give its fd up, stop the loop, or do none of these.
RunHandler ==
    /\ PopTask
    /\ Task.op \in Interest
    /\ Task.fd \in Fds
    /\ \/ /\ \E m \in SUBSET Interest :
               /\ mask' = [mask EXCEPT ![Task.fd] = m]
               /\ AddToEpoll(Task.fd, m)
          /\ UNCHANGED <<quit, signalled>>
       \/ /\ DeleteToEpoll(Task.fd)
          /\ UNCHANGED <<quit, signalled, mask>>
       \/ /\ quit' = TRUE
          /\ signalled' = TRUE
          /\ UNCHANGED <<epollVars, mask>>
       \/ UNCHANGED <<quit, signalled, epollVars, mask>>
    /\ UNCHANGED <<drained, ran>>

BatchDone ==
    /\ loopPc = "run"
    /\ batch = <<>>
    /\ loopPc' = "wait"
    /\ UNCHANGED <<quit, isLooping, queueVars, results, signalled, drained,
                   epollVars, mask, threadVars, ran>>

\* What epoll_wait can fill in: registered fds with events they are registered
\* for, or an error. The eventfd is level-triggered, so it is reported whenever
\* it is signalled and there is room. No result at all is the 10 s timeout, or
\* rt < 0.
Ready ==
    {r \in Results : /\ r.fd \in kernelFds
                     /\ r.events # {}
                     /\ IF r.fd = WakeFd
                          THEN signalled /\ r.events = {"IN"}
                          ELSE r.events \subseteq kernelMask[r.fd] \cup {"ERR"}}

\* Mutant of EpollResults: epoll_wait with timeout -1.
EpollResultsNoTimeout ==
    {r \in UNION {[1..k -> Ready] : k \in 1..MaxEvents} :
        /\ \A i, j \in DOMAIN r : i # j => r[i].fd # r[j].fd
        /\ signalled => Len(r) = MaxEvents \/ \E i \in DOMAIN r : r[i].fd = WakeFd}

EpollResults ==
    {<<>>} \cup
    {r \in UNION {[1..k -> Ready] : k \in 1..MaxEvents} :
        /\ \A i, j \in DOMAIN r : i # j => r[i].fd # r[j].fd
        /\ signalled => Len(r) = MaxEvents \/ \E i \in DOMAIN r : r[i].fd = WakeFd}

EpollWait ==
    /\ loopPc = "wait"
    /\ results' \in EpollResults
    /\ loopPc' = "dispatch"
    /\ UNCHANGED <<quit, isLooping, queueVars, signalled, drained, epollVars, mask,
                   threadVars, ran>>

Handler(r, op) ==
    IF op \in r.events
      THEN <<[op |-> op, fd |-> r.fd, from |-> LoopThread, n |-> 0]>>
      ELSE <<>>

\* Mutant of HandlersOf: a callback is queued for the error as well.
HandlersWithError(r) == Handler(r, "IN") \o Handler(r, "OUT") \o Handler(r, "ERR")

\* The handlers that one result queues, the read callback first.
HandlersOf(r) == Handler(r, "IN") \o Handler(r, "OUT")

\* One result: its callbacks are copied into the queue, without a wakeup; an
\* fd in error leaves the epoll set. No FdEvent of the program has an error
\* callback.
DispatchEvent ==
    /\ loopPc = "dispatch"
    /\ results # <<>>
    /\ results' = Tail(results)
    /\ pending' = pending \o HandlersOf(Head(results))
    /\ IF "ERR" \in Head(results).events
         THEN DeleteToEpoll(Head(results).fd)
         ELSE UNCHANGED epollVars
    /\ UNCHANGED <<quit, isLooping, loopPc, batch, signalled, drained, mask,
                   threadVars, ran>>

DispatchDone ==
    /\ loopPc = "dispatch"
    /\ results = <<>>
    /\ loopPc' = "check"
    /\ UNCHANGED <<quit, isLooping, queueVars, results, signalled, drained,
                   epollVars, mask, threadVars, ran>>

LoopStep ==
    \/ StartLoop \/ CheckQuit \/ SwapTasks
    \/ RunPosted \/ RunDrain \/ RunHandler \/ BatchDone
    \/ EpollWait \/ DispatchEvent \/ DispatchDone

-----------------------------------------------------------------------------

Next == LoopStep \/ \E t \in Threads : ThreadCall(t)

\* The loop's thread keeps running: IOThread::start has released it, its tasks
\* return, and epoll_wait returns after 10 s at the latest. A thread that has
\* begun a call finishes it; none has to begin one.
Fairness ==
    /\ WF_vars(LoopStep)
    /\ \A t \in Threads : WF_vars(AddEpollEvent(t) \/ Wakeup(t))

Spec == Init /\ [][Next]_vars /\ Fairness

-----------------------------------------------------------------------------
(* Properties.                                                             *)

\* A task posted by another thread waits in the queue exactly from addTask
\* until it runs: swapping the queue out from under the posting threads
\* (eventloop.cc:108-111) loses none and runs none twice.
WaitsUntilRun ==
    \A t \in Threads : \A k \in 1..MaxPosts[t] :
        (ran[t] < k /\ k <= posted[t])
            <=> \E i \in DOMAIN Queue : Queue[i].from = t /\ Queue[i].n = k

\* The tasks of one thread wait in the order in which it posted them, so the
\* add of a new connection's fd cannot overtake an earlier call on that fd.
InPostOrder ==
    \A i, j \in DOMAIN Queue :
        i < j /\ Queue[i].from = Queue[j].from /\ Queue[i].from \in Threads
            => Queue[i].n < Queue[j].n

TasksInOrder == WaitsUntilRun /\ InPostOrder

\* m_listen_fds, from which ADD_TO_EPOLL chooses between EPOLL_CTL_ADD and
\* EPOLL_CTL_MOD, agrees with the kernel's epoll set, and the kernel watches
\* each fd for what its FdEvent now listens for, however adds and deletes
\* of the loop's own callbacks, of other threads and of errors interleave.
EpollInSync ==
    /\ listenFds = kernelFds
    /\ \A f \in listenFds : kernelMask[f] = mask[f]

\* The loop sleeps on a posted task only when it has itself thrown the wakeup
\* away: the read callback of the eventfd ran in this round's batch, after the
\* poster's write. In every other round a task posted behind the swap has its
\* wakeup still in the eventfd, or on its way there.
Woken == signalled \/ \E t \in Threads : threadPc[t] = "wakeup"

SleepsOnlyAfterDrain ==
    loopPc = "wait" /\ pending # <<>> => drained \/ Woken

\* Once stop() has been called a running loop() returns, although the flag is
\* read only between rounds and the wakeup may be consumed before.
StopEndsLoop == (quit /\ isLooping) ~> (loopPc = "ended")

\* The loop implements the executor: tasks of a thread run once and in order,
\* and until stop() each posted task runs, if need be after the 10 s timeout.
Executor == INSTANCE TaskExecutor WITH
    Threads <- Threads, posted <- posted, ran <- ran, quit <- quit

ImplementsExecutor == Executor!Spec
=============================================================================
