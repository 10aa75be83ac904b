--------------------------- MODULE EventLoopProofs ---------------------------
(***************************************************************************)
(* Proofs, for any set of threads and fds and any bounds, of the safety    *)
(* properties of EventLoop and of its refinement of TaskExecutor.          *)
(***************************************************************************)
EXTENDS EventLoop, SequenceTheorems, TLAPS

\* The handlers of a result are tasks, none of them posted by another thread.
LEMMA HandlersType ==
    ASSUME NEW r \in Results
    PROVE  /\ HandlersOf(r) \in Seq(Handlers)
           /\ HandlersOf(r) \in Seq(Tasks)
<1>1. ASSUME NEW op \in Interest PROVE Handler(r, op) \in Seq(Handlers)
  <2> DEFINE task == [op |-> op, fd |-> r.fd, from |-> LoopThread, n |-> 0]
  <2>1. task \in Handlers
    BY DEF Handlers, Results
  <2>2. <<task>> \in Seq(Handlers) /\ <<>> \in Seq(Handlers)
    BY <2>1, EmptySeq
  <2> QED
    BY <2>2 DEF Handler
<1>2. HandlersOf(r) \in Seq(Handlers)
  <2>1. Handler(r, "IN") \in Seq(Handlers) /\ Handler(r, "OUT") \in Seq(Handlers)
    BY <1>1 DEF Interest
  <2> QED
    BY <2>1, ConcatProperties DEF HandlersOf
<1>3. HandlersOf(r) \in Seq(Tasks)
  BY <1>2 DEF Tasks
<1> QED
  BY <1>2, <1>3

LEMMA AddToEpollType ==
    ASSUME TypeOK, NEW f \in AllFds, NEW m \in SUBSET Interest, AddToEpoll(f, m)
    PROVE  /\ listenFds' \in SUBSET AllFds
           /\ kernelFds' \in SUBSET AllFds
           /\ kernelMask' \in [AllFds -> SUBSET Interest]
  BY DEF TypeOK, AddToEpoll, EpollCtl

LEMMA DeleteToEpollType ==
    ASSUME TypeOK, NEW f \in AllFds, DeleteToEpoll(f)
    PROVE  /\ listenFds' \in SUBSET AllFds
           /\ kernelFds' \in SUBSET AllFds
           /\ kernelMask' \in [AllFds -> SUBSET Interest]
  BY DEF TypeOK, DeleteToEpoll, EpollCtl, epollVars

LEMMA InitType == Init => TypeOK
<1> SUFFICES ASSUME Init PROVE TypeOK
  OBVIOUS
<1>1. /\ pending \in Seq(Tasks)
      /\ batch \in Seq(Tasks)
      /\ results \in Seq(Results)
  BY EmptySeq DEF Init
<1>2. /\ posted \in [Threads -> Nat]
      /\ ran \in [Threads -> Nat]
  BY LoopAssumption DEF Init
<1>3. /\ kernelMask \in [AllFds -> SUBSET Interest]
      /\ mask \in [AllFds -> SUBSET Interest]
  BY DEF Init, Interest
<1> QED
  BY <1>1, <1>2, <1>3 DEF Init, TypeOK, AllFds

LEMMA ThreadType ==
    ASSUME TypeOK, NEW t \in Threads, ThreadCall(t)
    PROVE  TypeOK'
<1> USE DEF TypeOK, queueVars, epollVars
<1>1. ASSUME NEW f \in Fds, NEW m \in (SUBSET Interest) \ {{}}, Listen(t, f, m)
      PROVE  TypeOK'
  BY <1>1 DEF Listen, AllFds
<1>2. ASSUME NEW op \in {"add", "del"}, NEW f \in Fds, AddTask(t, op, f), posted[t] < MaxPosts[t]
      PROVE  TypeOK'
  <2>1. posted[t] + 1 \in Nat \ {0}
    BY <1>2, LoopAssumption
  <2>2. [op |-> op, fd |-> f, from |-> t, n |-> posted[t] + 1] \in Tasks
    BY <2>1 DEF Tasks, Posted
  <2> QED
    BY <1>2, <2>1, <2>2 DEF AddTask
<1>3. CASE AddEpollEvent(t)
  BY <1>3, <1>2 DEF AddEpollEvent
<1>4. ASSUME NEW f \in Fds, DeleteEpollEvent(t, f) PROVE TypeOK'
  BY <1>4, <1>2 DEF DeleteEpollEvent
<1>5. CASE Stop(t)
  BY <1>5 DEF Stop
<1>6. CASE Wakeup(t)
  BY <1>6 DEF Wakeup
<1> QED
  BY <1>1, <1>3, <1>4, <1>5, <1>6 DEF ThreadCall

\* Popping the batch: the task it returns, and what is left.
LEMMA PopType ==
    ASSUME TypeOK, PopTask
    PROVE  Task \in Tasks /\ batch' \in Seq(Tasks)
<1>1. batch \in Seq(Tasks) /\ batch # <<>> /\ batch' = Tail(batch)
  BY DEF TypeOK, PopTask
<1> QED
  BY <1>1, HeadTailProperties DEF Task

LEMMA RunType ==
    ASSUME TypeOK, RunPosted \/ RunDrain \/ RunHandler
    PROVE  TypeOK'
<1>1. PopTask
  BY DEF RunPosted, RunDrain, RunHandler
<1>2. Task \in Tasks /\ batch' \in Seq(Tasks)
  BY <1>1, PopType
<1>3. Task.fd \in AllFds
  BY <1>2 DEF Tasks, Posted, Handlers, AllFds
<1>4. CASE RunPosted
  <2>1. Task \in Posted
    BY <1>2, <1>4 DEF RunPosted, Tasks, Handlers, Interest
  <2>2. ran' \in [Threads -> Nat]
    BY <2>1, <1>4, LoopAssumption DEF RunPosted, TypeOK, Posted
  <2>3. mask[Task.fd] \in SUBSET Interest
    BY <1>3 DEF TypeOK
  <2>4. /\ listenFds' \in SUBSET AllFds
        /\ kernelFds' \in SUBSET AllFds
        /\ kernelMask' \in [AllFds -> SUBSET Interest]
    BY <1>3, <1>4, <2>3, AddToEpollType, DeleteToEpollType DEF RunPosted
  <2> QED
    BY <1>1, <1>2, <1>4, <2>2, <2>4 DEF RunPosted, PopTask, TypeOK, threadVars
<1>5. CASE RunDrain
  BY <1>1, <1>2, <1>5 DEF RunDrain, PopTask, TypeOK, threadVars, epollVars
<1>6. CASE RunHandler
  <2> DEFINE Typed == /\ listenFds' \in SUBSET AllFds
                      /\ kernelFds' \in SUBSET AllFds
                      /\ kernelMask' \in [AllFds -> SUBSET Interest]
                      /\ mask' \in [AllFds -> SUBSET Interest]
                      /\ quit' \in BOOLEAN
                      /\ signalled' \in BOOLEAN
  <2>1. Typed
    <3>1. ASSUME NEW m \in SUBSET Interest,
                 mask' = [mask EXCEPT ![Task.fd] = m], AddToEpoll(Task.fd, m),
                 UNCHANGED <<quit, signalled>>
          PROVE  Typed
      BY <3>1, <1>3, AddToEpollType DEF TypeOK
    <3>2. CASE DeleteToEpoll(Task.fd) /\ UNCHANGED <<quit, signalled, mask>>
      BY <3>2, <1>3, DeleteToEpollType DEF TypeOK
    <3>3. CASE quit' = TRUE /\ signalled' = TRUE /\ UNCHANGED <<epollVars, mask>>
      BY <3>3 DEF TypeOK, epollVars
    <3>4. CASE UNCHANGED <<quit, signalled, epollVars, mask>>
      BY <3>4 DEF TypeOK, epollVars
    <3> QED
      BY <1>6, <3>1, <3>2, <3>3, <3>4 DEF RunHandler
  <2> QED
    BY <1>1, <1>2, <1>6, <2>1 DEF RunHandler, PopTask, TypeOK, threadVars
<1> QED
  BY <1>4, <1>5, <1>6

LEMMA EpollResultsType ==
    ASSUME NEW r \in EpollResults
    PROVE  r \in Seq(Results)
<1>1. CASE r = <<>>
  BY <1>1, EmptySeq
<1>2. CASE \E k \in 1..MaxEvents : r \in [1..k -> Ready]
  <2>1. PICK k \in 1..MaxEvents : r \in [1..k -> Ready]
    BY <1>2
  <2>2. r \in [1..k -> Results] /\ k \in Nat
    BY <2>1, LoopAssumption DEF Ready
  <2> QED
    BY <2>2, SeqDef
<1> QED
  BY <1>1, <1>2 DEF EpollResults

LEMMA DispatchType ==
    ASSUME TypeOK, DispatchEvent
    PROVE  TypeOK'
<1> DEFINE r == Head(results)
<1>1. results \in Seq(Results) /\ results # <<>> /\ results' = Tail(results)
  BY DEF TypeOK, DispatchEvent
<1>2. r \in Results /\ results' \in Seq(Results)
  BY <1>1, HeadTailProperties
<1>3. pending' \in Seq(Tasks)
  <2>1. HandlersOf(r) \in Seq(Tasks) /\ pending \in Seq(Tasks)
    BY <1>2, HandlersType DEF TypeOK
  <2> QED
    BY <2>1, ConcatProperties DEF DispatchEvent
<1>4. /\ listenFds' \in SUBSET AllFds
      /\ kernelFds' \in SUBSET AllFds
      /\ kernelMask' \in [AllFds -> SUBSET Interest]
  <2>1. r.fd \in AllFds
    BY <1>2 DEF Results
  <2>2. DeleteToEpoll(r.fd) \/ UNCHANGED epollVars
    BY DEF DispatchEvent
  <2> QED
    BY <2>1, <2>2, DeleteToEpollType DEF TypeOK, epollVars
<1> QED
  BY <1>2, <1>3, <1>4 DEF TypeOK, DispatchEvent, threadVars

LEMMA LoopType ==
    ASSUME TypeOK, LoopStep
    PROVE  TypeOK'
<1> USE DEF TypeOK, queueVars, epollVars, threadVars
<1>1. CASE StartLoop
  BY <1>1 DEF StartLoop
<1>2. CASE CheckQuit
  BY <1>2 DEF CheckQuit
<1>3. CASE SwapTasks
  BY <1>3, EmptySeq DEF SwapTasks
<1>4. CASE RunPosted \/ RunDrain \/ RunHandler
  BY <1>4, RunType
<1>5. CASE BatchDone
  BY <1>5 DEF BatchDone
<1>6. CASE EpollWait
  BY <1>6, EpollResultsType DEF EpollWait
<1>7. CASE DispatchEvent
  BY <1>7, DispatchType
<1>8. CASE DispatchDone
  BY <1>8 DEF DispatchDone
<1> QED
  BY <1>1, <1>2, <1>3, <1>4, <1>5, <1>6, <1>7, <1>8 DEF LoopStep

LEMMA StutterType == TypeOK /\ UNCHANGED vars => TypeOK'
  BY DEF TypeOK, vars, queueVars, epollVars, threadVars

LEMMA NextType == TypeOK /\ [Next]_vars => TypeOK'
  BY ThreadType, LoopType, StutterType DEF Next

\* The state of the loop keeps its type, in particular no thread exceeds the
\* room it was given and the kernel watches no fd for EPOLLERR.
THEOREM TypeCorrect == Spec => []TypeOK
<1> QED
  BY InitType, NextType, PTL DEF Spec

-----------------------------------------------------------------------------
(* The epoll set.                                                          *)

LEMMA AddKeepsSync ==
    ASSUME TypeOK, EpollInSync, NEW f \in AllFds, NEW m \in SUBSET Interest,
           AddToEpoll(f, m), mask' \in [AllFds -> SUBSET Interest],
           mask'[f] = m, \A g \in AllFds \ {f} : mask'[g] = mask[g]
    PROVE  EpollInSync'
<1>1. kernelFds' = kernelFds \cup {f} /\ listenFds' = listenFds \cup {f}
  BY DEF AddToEpoll, EpollCtl, EpollInSync
<1>2. kernelMask' = [kernelMask EXCEPT ![f] = m]
  BY DEF AddToEpoll, EpollCtl, EpollInSync
<1> QED
  BY <1>1, <1>2 DEF EpollInSync, TypeOK

LEMMA DeleteKeepsSync ==
    ASSUME TypeOK, EpollInSync, NEW f \in AllFds, DeleteToEpoll(f), mask' = mask
    PROVE  EpollInSync'
  BY DEF EpollInSync, DeleteToEpoll, EpollCtl, epollVars

LEMMA SyncStep == TypeOK /\ EpollInSync /\ [Next]_vars => EpollInSync'
<1> SUFFICES ASSUME TypeOK, EpollInSync, [Next]_vars PROVE EpollInSync'
  OBVIOUS
<1>1. CASE UNCHANGED <<epollVars, mask>>
  BY <1>1 DEF EpollInSync, epollVars
<1>2. ASSUME NEW t \in Threads, NEW f \in Fds, NEW m \in SUBSET Interest, Listen(t, f, m)
      PROVE  EpollInSync'
  \* f is fresh, so the loop does not know it yet.
  BY <1>2 DEF Listen, Fresh, EpollInSync, TypeOK, epollVars, AllFds
<1>3. ASSUME NEW t \in Threads, ThreadCall(t) PROVE EpollInSync'
  <2>1. \/ \E f \in Fds, m \in SUBSET Interest : Listen(t, f, m)
        \/ UNCHANGED <<epollVars, mask>>
    BY <1>3 DEF ThreadCall, AddEpollEvent, DeleteEpollEvent, AddTask, Stop, Wakeup
  <2> QED
    BY <2>1, <1>1, <1>2
<1>4. ASSUME PopTask PROVE Task.fd \in AllFds
  BY <1>4, PopType DEF Tasks, Posted, Handlers, AllFds
<1>5. CASE RunPosted
  <2>1. Task.fd \in AllFds /\ mask[Task.fd] \in SUBSET Interest /\ mask' = mask
    BY <1>5, <1>4 DEF RunPosted, TypeOK
  <2>2. CASE AddToEpoll(Task.fd, mask[Task.fd])
    BY <2>1, <2>2, AddKeepsSync DEF TypeOK
  <2>3. CASE DeleteToEpoll(Task.fd)
    BY <2>1, <2>3, DeleteKeepsSync
  <2> QED
    BY <1>5, <2>2, <2>3 DEF RunPosted
<1>6. CASE RunHandler
  <2>1. Task.fd \in AllFds
    BY <1>6, <1>4 DEF RunHandler
  <2>2. ASSUME NEW m \in SUBSET Interest,
               mask' = [mask EXCEPT ![Task.fd] = m], AddToEpoll(Task.fd, m)
        PROVE  EpollInSync'
    <3>1. /\ mask' \in [AllFds -> SUBSET Interest]
          /\ mask'[Task.fd] = m
          /\ \A g \in AllFds \ {Task.fd} : mask'[g] = mask[g]
      BY <2>1, <2>2 DEF TypeOK
    <3> QED
      BY <2>1, <2>2, <3>1, AddKeepsSync
  <2>3. CASE DeleteToEpoll(Task.fd) /\ UNCHANGED mask
    BY <2>1, <2>3, DeleteKeepsSync
  <2> QED
    BY <1>6, <1>1, <2>2, <2>3 DEF RunHandler
<1>7. CASE DispatchEvent
  <2>1. Head(results).fd \in AllFds
    <3>1. results \in Seq(Results) /\ results # <<>>
      BY <1>7 DEF DispatchEvent, TypeOK
    <3>2. Head(results) \in Results
      BY <3>1, HeadTailProperties
    <3> QED
      BY <3>2 DEF Results
  <2>2. mask' = mask /\ (DeleteToEpoll(Head(results).fd) \/ UNCHANGED epollVars)
    BY <1>7 DEF DispatchEvent
  <2> QED
    BY <2>1, <2>2, <1>1, DeleteKeepsSync
<1>8. CASE LoopStep
  <2>1. \/ UNCHANGED <<epollVars, mask>> \/ RunPosted \/ RunHandler \/ DispatchEvent
    BY <1>8 DEF LoopStep, StartLoop, CheckQuit, SwapTasks, RunDrain, BatchDone,
                EpollWait, DispatchDone
  <2> QED
    BY <2>1, <1>1, <1>5, <1>6, <1>7
<1>9. CASE UNCHANGED vars
  BY <1>9, <1>1 DEF vars, epollVars
<1> QED
  BY <1>3, <1>8, <1>9 DEF Next

\* The loop's own record of what it watches, and what each FdEvent wants, agree
\* with the kernel's epoll set after any interleaving.
THEOREM EpollStaysInSync == Spec => []EpollInSync
<1>1. Init => EpollInSync
  BY DEF Init, EpollInSync
<1> QED
  BY <1>1, SyncStep, TypeCorrect, PTL DEF Spec

-----------------------------------------------------------------------------
(* Wakeups.                                                                *)

\* The strengthening of SleepsOnlyAfterDrain: the wakeup of a task posted
\* behind the swap is kept while the batch runs, too.
WakeupKept ==
    loopPc \in {"run", "wait"} /\ pending # <<>> => drained \/ Woken

LEMMA WakeupStep == TypeOK /\ WakeupKept /\ [Next]_vars => WakeupKept'
<1> SUFFICES ASSUME TypeOK, WakeupKept, [Next]_vars PROVE WakeupKept'
  OBVIOUS
<1> USE DEF WakeupKept, Woken
<1>1. ASSUME NEW t \in Threads, ThreadCall(t) PROVE WakeupKept'
  <2>1. ASSUME NEW f \in Fds, NEW m \in SUBSET Interest, Listen(t, f, m) PROVE WakeupKept'
    BY <2>1 DEF Listen, TypeOK, queueVars
  <2>2. ASSUME NEW op, NEW f, AddTask(t, op, f) PROVE WakeupKept'
    BY <2>2 DEF AddTask, TypeOK
  <2>3. CASE Stop(t)
    BY <2>3 DEF Stop, TypeOK
  <2>4. CASE Wakeup(t)
    BY <2>4 DEF Wakeup
  <2> QED
    BY <1>1, <2>1, <2>2, <2>3, <2>4 DEF ThreadCall, AddEpollEvent, DeleteEpollEvent
<1>2. CASE LoopStep
  <2>1. CASE StartLoop \/ CheckQuit \/ EpollWait \/ DispatchEvent \/ DispatchDone
    BY <2>1 DEF StartLoop, CheckQuit, EpollWait, DispatchEvent, DispatchDone
  <2>2. CASE SwapTasks
    BY <2>2 DEF SwapTasks
  <2>3. CASE RunPosted
    BY <2>3 DEF RunPosted, PopTask, threadVars
  <2>4. CASE RunDrain
    BY <2>4 DEF RunDrain
  <2>5. CASE RunHandler
    BY <2>5 DEF RunHandler, PopTask, threadVars
  <2>6. CASE BatchDone
    BY <2>6 DEF BatchDone, queueVars, threadVars
  <2> QED
    BY <1>2, <2>1, <2>2, <2>3, <2>4, <2>5, <2>6 DEF LoopStep
<1>3. CASE UNCHANGED vars
  BY <1>3 DEF vars, queueVars, threadVars
<1> QED
  BY <1>1, <1>2, <1>3 DEF Next

\* A loop that sleeps on a posted task has drained the eventfd in this round:
\* reading it from a task is the only way a wakeup is lost.
THEOREM WakeupLostOnlyByDrain == Spec => []SleepsOnlyAfterDrain
<1>1. Init => WakeupKept
  BY DEF Init, WakeupKept
<1>2. WakeupKept => SleepsOnlyAfterDrain
  BY DEF WakeupKept, SleepsOnlyAfterDrain
<1> QED
  BY <1>1, <1>2, WakeupStep, TypeCorrect, PTL DEF Spec

-----------------------------------------------------------------------------
(* Tasks run once and in order.                                            *)

\* TasksInOrder of any queue q and counters r (run) and p (posted).
Accounted(q, r, p) ==
    /\ \A t \in Threads, k \in Nat \ {0} :
          (r[t] < k /\ k <= p[t]) <=> \E i \in DOMAIN q : q[i].from = t /\ q[i].n = k
    /\ \A i, j \in DOMAIN q :
          i < j /\ q[i].from = q[j].from /\ q[i].from \in Threads => q[i].n < q[j].n
    /\ \A t \in Threads : r[t] <= p[t]

Counters == [Threads -> Nat]

\* addTask: the next number of the thread goes to the end.
LEMMA AppendAccounted ==
    ASSUME NEW q \in Seq(Tasks), NEW r \in Counters, NEW p \in Counters,
           Accounted(q, r, p),
           NEW x \in Posted, x.n = p[x.from] + 1
    PROVE  Accounted(Append(q, x), r, [p EXCEPT ![x.from] = @ + 1])
<1> DEFINE Q == Append(q, x)
           P == [p EXCEPT ![x.from] = @ + 1]
<1>1. /\ Len(q) \in Nat
      /\ DOMAIN q = 1..Len(q)
      /\ DOMAIN Q = 1..(Len(q) + 1)
      /\ \A i \in 1..Len(q) : Q[i] = q[i]
      /\ Q[Len(q) + 1] = x
      /\ \A i \in 1..Len(q) : q[i] \in Tasks
  BY AppendProperties, LenProperties, ElementOfSeq DEF Tasks
<1>2. /\ x.from \in Threads
      /\ x.n \in Nat \ {0}
      /\ P[x.from] = x.n
      /\ \A t \in Threads : t # x.from => P[t] = p[t]
  BY DEF Posted, Counters
<1> HIDE DEF Q, P
<1>3. ASSUME NEW t \in Threads, NEW k \in Nat \ {0}
      PROVE  (r[t] < k /\ k <= P[t]) <=> \E i \in DOMAIN Q : Q[i].from = t /\ Q[i].n = k
  <2>1. (r[t] < k /\ k <= p[t]) <=> \E i \in DOMAIN q : q[i].from = t /\ q[i].n = k
    BY DEF Accounted
  <2>2. (\E i \in DOMAIN Q : Q[i].from = t /\ Q[i].n = k)
          <=> \/ \E i \in DOMAIN q : q[i].from = t /\ q[i].n = k
              \/ x.from = t /\ x.n = k
    BY <1>1
  <2>3. r[t] \in Nat /\ p[t] \in Nat /\ r[t] <= p[t]
    BY DEF Accounted, Counters
  <2> QED
    BY <1>2, <2>1, <2>2, <2>3, LoopAssumption
<1>4. ASSUME NEW i \in DOMAIN Q, NEW j \in DOMAIN Q,
             i < j, Q[i].from = Q[j].from, Q[i].from \in Threads
      PROVE  Q[i].n < Q[j].n
  <2>1. CASE j \in DOMAIN q
    <3>1. i \in DOMAIN q /\ Q[i] = q[i] /\ Q[j] = q[j]
      BY <1>1, <1>4, <2>1
    <3> QED
      BY <1>4, <2>1, <3>1 DEF Accounted
  <2>2. CASE j \notin DOMAIN q
    <3>1. i \in 1..Len(q) /\ Q[i] = q[i] /\ Q[j] = x
      BY <1>1, <1>4, <2>2
    <3>2. q[i].from = x.from /\ q[i] \in Posted
      BY <1>1, <1>2, <1>4, <3>1, LoopAssumption DEF Tasks, Handlers
    <3>3. q[i].n <= p[x.from]
      BY <1>1, <1>2, <3>1, <3>2 DEF Accounted, Posted
    <3> QED
      BY <3>1, <3>2, <3>3, LoopAssumption DEF Posted, Counters
  <2> QED
    BY <2>1, <2>2
<1>5. ASSUME NEW t \in Threads PROVE r[t] <= P[t]
  <2>1. r[t] \in Nat /\ p[t] \in Nat /\ r[t] <= p[t]
    BY DEF Accounted, Counters
  <2> QED
    BY <1>2, <2>1, LoopAssumption
<1> QED
  BY <1>3, <1>4, <1>5 DEF Accounted, Q, P

\* The loop queues handlers: no posted task moves.
LEMMA HandlersAccounted ==
    ASSUME NEW q \in Seq(Tasks), NEW h \in Seq(Handlers), NEW r, NEW p,
           Accounted(q, r, p)
    PROVE  Accounted(q \o h, r, p)
<1> DEFINE Q == q \o h
<1>1. h \in Seq(Tasks) /\ \A i \in 1..Len(h) : h[i].from = LoopThread
  <2>1. h \in Seq(Tasks)
    BY DEF Tasks
  <2>2. \A i \in 1..Len(h) : h[i] \in Handlers
    BY ElementOfSeq
  <2> QED
    BY <2>1, <2>2 DEF Handlers
<1>2. /\ Len(q) \in Nat /\ Len(h) \in Nat
      /\ DOMAIN q = 1..Len(q)
      /\ DOMAIN Q = 1..(Len(q) + Len(h))
      /\ \A i \in 1..Len(q) : Q[i] = q[i]
      /\ \A i \in (Len(q) + 1)..(Len(q) + Len(h)) : Q[i].from \notin Threads
  BY <1>1, ConcatProperties, LenProperties, LoopAssumption
<1> HIDE DEF Q
<1>3. \A i \in DOMAIN Q : Q[i].from \in Threads => i \in DOMAIN q /\ Q[i] = q[i]
  BY <1>2
<1>4. DOMAIN q \subseteq DOMAIN Q
  BY <1>2
<1>5. \A t \in Threads, k \in Nat \ {0} :
          (\E i \in DOMAIN Q : Q[i].from = t /\ Q[i].n = k)
            <=> \E i \in DOMAIN q : q[i].from = t /\ q[i].n = k
  BY <1>2, <1>3, <1>4
<1>6. Accounted(Q, r, p)
  BY <1>3, <1>5 DEF Accounted
<1> QED
  BY <1>6 DEF Q

\* The front of the queue, when it is posted, is the thread's next task.
LEMMA FrontIsNext ==
    ASSUME NEW q \in Seq(Tasks), q # <<>>, NEW r \in Counters, NEW p \in Counters,
           Accounted(q, r, p), Head(q) \in Posted
    PROVE  /\ Head(q).n = r[Head(q).from] + 1
           /\ r[Head(q).from] < p[Head(q).from]
<1> DEFINE x == Head(q)
           t == x.from
<1>1. Len(q) \in Nat \ {0} /\ DOMAIN q = 1..Len(q) /\ x = q[1]
  BY LenProperties, EmptySeq
<1>2. t \in Threads /\ x.n \in Nat \ {0} /\ r[t] \in Nat /\ p[t] \in Nat
  BY DEF Posted, Counters
<1>3. r[t] < x.n /\ x.n <= p[t]
  BY <1>1, <1>2 DEF Accounted
<1>4. r[t] + 1 \in Nat \ {0} /\ r[t] < r[t] + 1 /\ r[t] + 1 <= p[t]
  BY <1>2, <1>3, LoopAssumption
<1>5. PICK i \in DOMAIN q : q[i].from = t /\ q[i].n = r[t] + 1
  BY <1>2, <1>4 DEF Accounted
<1>6. x.n = r[t] + 1 \/ x.n < r[t] + 1
  BY <1>1, <1>2, <1>5, SMTT(60) DEF Accounted
<1> QED
  BY <1>2, <1>3, <1>6

\* Running the front of the queue.
LEMMA PopAccounted ==
    ASSUME NEW q \in Seq(Tasks), q # <<>>, NEW r \in Counters, NEW p \in Counters,
           Accounted(q, r, p), NEW s,
           \/ Head(q) \in Posted /\ s = [r EXCEPT ![Head(q).from] = Head(q).n]
           \/ Head(q) \in Handlers /\ s = r
    PROVE  Accounted(Tail(q), s, p)
<1> DEFINE Q == Tail(q)
           x == Head(q)
<1>1. /\ Len(q) \in Nat \ {0}
      /\ x = q[1]
      /\ DOMAIN q = 1..Len(q)
      /\ DOMAIN Q = 1..(Len(q) - 1)
      /\ \A i \in 1..(Len(q) - 1) : Q[i] = q[i + 1]
  BY HeadTailProperties, LenProperties, EmptySeq
<1>2. \A i, j \in DOMAIN Q :
          i < j /\ Q[i].from = Q[j].from /\ Q[i].from \in Threads => Q[i].n < Q[j].n
  BY <1>1 DEF Accounted
<1>3. ASSUME NEW t \in Threads, NEW k \in Nat \ {0}
      PROVE  (\E i \in DOMAIN q : q[i].from = t /\ q[i].n = k)
               <=> \/ \E i \in DOMAIN Q : Q[i].from = t /\ Q[i].n = k
                   \/ x.from = t /\ x.n = k
  <2>1. \A i \in DOMAIN Q : i + 1 \in DOMAIN q /\ Q[i] = q[i + 1]
    BY <1>1
  <2>2. \A i \in DOMAIN q : i = 1 \/ (i - 1 \in DOMAIN Q /\ Q[i - 1] = q[i])
    BY <1>1
  <2>3. 1 \in DOMAIN q
    BY <1>1
  <2> HIDE DEF Q
  <2> QED
    BY <1>1, <2>1, <2>2, <2>3
<1>4. CASE x \in Handlers /\ s = r
  <2>1. x.from \notin Threads
    BY <1>4, LoopAssumption DEF Handlers
  <2> QED
    BY <1>2, <1>3, <1>4, <2>1 DEF Accounted
<1>5. CASE x \in Posted /\ s = [r EXCEPT ![x.from] = x.n]
  <2>1. x.n = r[x.from] + 1 /\ r[x.from] < p[x.from]
    BY <1>5, FrontIsNext
  <2>2. /\ x.from \in Threads
        /\ s[x.from] = x.n
        /\ \A t \in Threads : t # x.from => s[t] = r[t]
    BY <1>5 DEF Posted, Counters
  <2>3. \A t \in Threads : r[t] \in Nat /\ p[t] \in Nat
    BY LoopAssumption DEF Counters
  <2>4. \A i \in DOMAIN Q : Q[i].from = x.from => x.n < Q[i].n
    BY <1>1, <2>2 DEF Accounted
  <2>5. ASSUME NEW t \in Threads, NEW k \in Nat \ {0}
        PROVE  (s[t] < k /\ k <= p[t]) <=> \E i \in DOMAIN Q : Q[i].from = t /\ Q[i].n = k
    <3>1. (r[t] < k /\ k <= p[t]) <=> \E i \in DOMAIN q : q[i].from = t /\ q[i].n = k
      BY DEF Accounted
    <3> HIDE DEF Q, x
    <3>2. CASE t # x.from
      BY <1>3, <2>2, <3>1, <3>2
    <3>3. CASE t = x.from
      <4>1. \A i \in DOMAIN Q : Q[i].from = t /\ Q[i].n = k => x.n < k
        BY <2>4, <3>3
      <4> QED
        BY <1>3, <2>1, <2>2, <2>3, <3>1, <3>3, <4>1, SMTT(60)
    <3> QED
      BY <3>2, <3>3
  <2>6. ASSUME NEW t \in Threads PROVE s[t] <= p[t]
    <3>1. r[t] <= p[t]
      BY DEF Accounted
    <3> HIDE DEF x
    <3> QED
      BY <2>1, <2>2, <2>3, <3>1
  <2> QED
    BY <1>2, <2>5, <2>6 DEF Accounted
<1> QED
  BY <1>4, <1>5

\* The inductive invariant behind TasksInOrder.
QueueInv ==
    /\ Accounted(Queue, ran, posted)
    /\ loopPc # "run" => batch = <<>>

LEMMA QueueInit == Init => QueueInv
<1> SUFFICES ASSUME Init PROVE QueueInv
  OBVIOUS
<1>1. Queue = <<>>
  BY ConcatEmptySeq, EmptySeq DEF Init, Queue
<1>2. DOMAIN <<>> = {}
  OBVIOUS
<1> QED
  BY <1>1, <1>2, LoopAssumption DEF Init, QueueInv, Accounted

LEMMA PopQueue ==
    ASSUME TypeOK, PopTask
    PROVE  /\ Queue \in Seq(Tasks) /\ Queue # <<>>
           /\ Head(Queue) = Task
           /\ Queue' = Tail(Queue)
<1>1. /\ batch \in Seq(Tasks) /\ pending \in Seq(Tasks)
      /\ batch # <<>> /\ batch' = Tail(batch) /\ pending' = pending
  BY DEF TypeOK, PopTask
<1>2. Queue \in Seq(Tasks) /\ Queue # <<>>
  BY <1>1, ConcatProperties, EmptySeq DEF Queue
<1>3. Head(Queue) = Head(batch) /\ Tail(Queue) = Tail(batch) \o pending
  BY <1>1 DEF Queue
<1> QED
  BY <1>1, <1>2, <1>3 DEF Queue, Task

LEMMA QueueStep == TypeOK /\ QueueInv /\ [Next]_vars => QueueInv'
<1> SUFFICES ASSUME TypeOK, QueueInv, [Next]_vars PROVE QueueInv'
  OBVIOUS
<1> USE DEF queueVars, threadVars
<1>1. /\ batch \in Seq(Tasks) /\ pending \in Seq(Tasks)
      /\ Queue \in Seq(Tasks)
      /\ ran \in Counters /\ posted \in Counters
  BY ConcatProperties DEF TypeOK, Counters, Queue
<1>2. CASE UNCHANGED <<queueVars, ran, posted>> /\ (loopPc' = loopPc \/ batch = <<>>)
  BY <1>2 DEF QueueInv, Accounted, Queue
<1>3. ASSUME NEW t \in Threads, NEW op \in {"add", "del"}, NEW f \in Fds,
             posted[t] < MaxPosts[t], AddTask(t, op, f)
      PROVE  QueueInv'
  <2> DEFINE x == [op |-> op, fd |-> f, from |-> t, n |-> posted[t] + 1]
  <2>1. x \in Posted /\ x.from = t /\ x.n = posted[t] + 1
    BY <1>1, <1>3, LoopAssumption DEF Posted, Counters
  <2>2. Queue' = Append(Queue, x)
    BY <1>1, <1>3 DEF AddTask, Queue
  <2>3. /\ ran' = ran /\ batch' = batch /\ loopPc' = loopPc
        /\ posted' = [posted EXCEPT ![x.from] = @ + 1]
    BY <1>3 DEF AddTask
  <2> HIDE DEF x
  <2> QED
    BY <1>1, <2>1, <2>2, <2>3, AppendAccounted DEF QueueInv
<1>4. ASSUME NEW t \in Threads, ThreadCall(t) PROVE QueueInv'
  <2>1. CASE \/ \E f \in Fds, m \in (SUBSET Interest) \ {{}} : Listen(t, f, m)
             \/ Stop(t)
             \/ Wakeup(t)
    BY <2>1, <1>2 DEF Listen, Stop, Wakeup
  <2>2. CASE AddEpollEvent(t)
    BY <2>2, <1>3 DEF AddEpollEvent, TypeOK
  <2>3. CASE \E f \in Fds : DeleteEpollEvent(t, f)
    BY <2>3, <1>3 DEF DeleteEpollEvent
  <2> QED
    BY <1>4, <2>1, <2>2, <2>3 DEF ThreadCall
<1>5. CASE StartLoop \/ CheckQuit \/ BatchDone \/ EpollWait \/ DispatchDone
  BY <1>5, <1>2 DEF StartLoop, CheckQuit, BatchDone, EpollWait, DispatchDone, QueueInv
<1>6. CASE SwapTasks
  <2>1. batch = <<>> /\ batch' = pending /\ pending' = <<>>
    BY <1>6 DEF SwapTasks, QueueInv
  <2>2. Queue' = Queue
    BY <1>1, <2>1, ConcatEmptySeq DEF Queue
  <2> QED
    BY <1>6, <2>2 DEF SwapTasks, QueueInv, Accounted
<1>7. CASE RunPosted \/ RunDrain \/ RunHandler
  <2>1. PopTask
    BY <1>7 DEF RunPosted, RunDrain, RunHandler
  <2>2. /\ Queue # <<>> /\ Head(Queue) = Task /\ Queue' = Tail(Queue)
        /\ Task \in Tasks
    BY <2>1, PopQueue, PopType
  <2>3. \/ Task \in Posted /\ ran' = [ran EXCEPT ![Task.from] = Task.n]
        \/ Task \in Handlers /\ ran' = ran
    BY <1>7, <2>2 DEF RunPosted, RunDrain, RunHandler, Tasks, Posted, Handlers, Interest
  <2>4. Accounted(Queue', ran', posted)
    BY <1>1, <2>2, <2>3, PopAccounted DEF QueueInv
  <2>5. posted' = posted /\ loopPc' = "run"
    BY <2>1 DEF PopTask
  <2> QED
    BY <2>4, <2>5 DEF QueueInv
<1>8. CASE DispatchEvent
  <2> DEFINE h == HandlersOf(Head(results))
  <2>1. h \in Seq(Handlers) /\ h \in Seq(Tasks)
    <3>1. results \in Seq(Results) /\ results # <<>>
      BY <1>8 DEF DispatchEvent, TypeOK
    <3> QED
      BY <3>1, HeadTailProperties, HandlersType
  <2>2. /\ pending' = pending \o h
        /\ UNCHANGED <<batch, ran, posted, loopPc>>
    BY <1>8 DEF DispatchEvent
  <2> HIDE DEF h
  <2>3. Queue' = Queue \o h
    BY <1>1, <2>1, <2>2, ConcatAssociative, SMTT(60) DEF Queue
  <2>4. Accounted(Queue', ran, posted)
    BY <1>1, <2>1, <2>3, HandlersAccounted DEF QueueInv
  <2> QED
    BY <2>2, <2>4 DEF QueueInv
<1>9. CASE LoopStep
  BY <1>9, <1>5, <1>6, <1>7, <1>8 DEF LoopStep
<1>10. CASE UNCHANGED vars
  BY <1>10, <1>2 DEF vars
<1> QED
  BY <1>4, <1>9, <1>10 DEF Next

LEMMA QueueCorrect == Spec => [](TypeOK /\ QueueInv)
<1> QED
  BY QueueInit, QueueStep, TypeCorrect, PTL DEF Spec

\* Tasks posted by other threads are neither lost nor run twice nor reordered
\* by the swap of the queues, whatever the loop itself queues between them.
THEOREM TasksOnceInOrder == Spec => []TasksInOrder
<1>1. QueueInv => TasksInOrder
  BY DEF QueueInv, Accounted, TasksInOrder, WaitsUntilRun, InPostOrder
<1> QED
  BY <1>1, QueueCorrect, PTL

-----------------------------------------------------------------------------
(* Refinement.                                                             *)

LEMMA RefinesStep ==
    TypeOK /\ QueueInv /\ [Next]_vars => [Executor!Next]_(Executor!vars)
<1> SUFFICES ASSUME TypeOK, QueueInv, [Next]_vars
             PROVE  [Executor!Next]_(Executor!vars)
  OBVIOUS
<1> USE DEF Executor!Next, Executor!vars, threadVars
<1>1. CASE UNCHANGED <<posted, ran, quit>>
  BY <1>1
<1>2. ASSUME NEW t \in Threads, NEW op, NEW f, AddTask(t, op, f) PROVE Executor!Post(t)
  BY <1>2 DEF AddTask, Executor!Post
<1>3. ASSUME NEW t \in Threads, ThreadCall(t) PROVE [Executor!Next]_(Executor!vars)
  <2>1. CASE Stop(t)
    BY <2>1 DEF Stop, Executor!Stop
  <2>2. CASE AddEpollEvent(t) \/ \E f \in Fds : DeleteEpollEvent(t, f)
    BY <2>2, <1>2 DEF AddEpollEvent, DeleteEpollEvent
  <2> QED
    BY <1>3, <1>1, <2>1, <2>2 DEF ThreadCall, Listen, Wakeup
<1>4. CASE RunPosted
  <2>1. PopTask
    BY <1>4 DEF RunPosted
  <2>2. /\ Queue \in Seq(Tasks) /\ Queue # <<>> /\ Head(Queue) = Task
        /\ Task \in Posted
    BY <1>4, <2>1, PopQueue, PopType DEF RunPosted, Tasks, Handlers, Interest
  <2>3. ran \in Counters /\ posted \in Counters
    BY DEF TypeOK, Counters
  <2>4. Task.n = ran[Task.from] + 1 /\ ran[Task.from] < posted[Task.from]
    BY <2>2, <2>3, FrontIsNext DEF QueueInv
  <2>5. Task.from \in Threads
    BY <2>2 DEF Posted
  <2>6. /\ ran' = [ran EXCEPT ![Task.from] = Task.n]
        /\ UNCHANGED <<posted, quit>>
    BY <1>4, <2>1 DEF RunPosted, PopTask
  <2>7. ran' = [ran EXCEPT ![Task.from] = @ + 1]
    BY <2>4, <2>6
  <2>8. Executor!Run(Task.from)
    BY <2>4, <2>6, <2>7 DEF Executor!Run
  <2> QED
    BY <2>5, <2>8
<1>5. CASE RunHandler
  BY <1>5 DEF RunHandler, PopTask, Executor!Stop
<1>6. CASE LoopStep
  <2>1. RunPosted \/ RunHandler \/ UNCHANGED <<posted, ran, quit>>
    BY <1>6 DEF LoopStep, StartLoop, CheckQuit, SwapTasks, RunDrain, PopTask,
                BatchDone, EpollWait, DispatchEvent, DispatchDone
  <2> QED
    BY <2>1, <1>1, <1>4, <1>5
<1>7. CASE UNCHANGED vars
  BY <1>7, <1>1 DEF vars
<1> QED
  BY <1>3, <1>6, <1>7 DEF Next

\* Every step of the loop is a step of the executor or none: the safety half
\* of ImplementsExecutor.
THEOREM ExecutorSafety == Spec => Executor!Safety
<1>1. Init => Executor!Init
  BY DEF Init, Executor!Init
<1> QED
  BY <1>1, RefinesStep, QueueCorrect, PTL DEF Spec, Executor!Safety
=============================================================================
