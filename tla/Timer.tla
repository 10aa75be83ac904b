-------------------------------- MODULE Timer --------------------------------
(***************************************************************************)
(* The Timer of one EventLoop (src/netrpc/net/timer.cc): the queue         *)
(* m_pending_events behind m_mutex, the timerfd, the loop's thread that    *)
(* runs onTimer and any threads that call addTimerEvent and                *)
(* deleteTimerEvent.                                                       *)
(*                                                                         *)
(* Time is kept relative: due[e] is the time left until the event's        *)
(* m_arrive_time, 0 from then on, and Tick takes one unit off everything,  *)
(* between any two steps of the threads. A step is a reading of the clock, *)
(* a critical section of m_mutex, a system call on the timerfd or one      *)
(* callback. Callbacks that have become due together run in some order.    *)
(***************************************************************************)
EXTENDS Naturals

CONSTANTS
    Events,         \* TimerEvents of the program
    Callers,        \* threads that use the timer
    LoopThread,     \* the thread whose loop the timer belongs to
    Interval,       \* m_interval of each event
    Repeated,       \* the events with m_is_repeated
    Grace           \* the 100 ms of resetArriveTime

ASSUME TimerAssumption ==
    /\ Events # {}
    /\ LoopThread \notin Callers
    /\ Interval \in [Events -> Nat \ {0}]
    /\ Repeated \in SUBSET Events
    /\ Grace \in Nat \ {0}

Threads == Callers \cup {LoopThread}

VARIABLES
    created,        \* the events that have been constructed
    pending,        \* the events in m_pending_events
    due,            \* time left until each event's m_arrive_time
    cancelled,      \* the events with m_is_cancled
    armed,          \* time until the timerfd expires, 0 when it is disarmed
    expired,        \* the timerfd is readable
    pc,             \* where each thread is in addTimerEvent or deleteTimerEvent
    event,          \* the event it holds there
    loopPc,         \* where the loop's thread is in onTimer
    now,            \* the events that are due at the now of onTimer
    again,          \* the repeated ones among tmps, still to be added again
    tasks,          \* the events whose callback is still to be run
    late            \* history: runs of each event since it was cancelled, up to 2

clockVars == <<armed, expired>>
threadVars == <<pc, event>>
loopVars == <<loopPc, now, again, tasks, late>>
vars == <<created, pending, due, cancelled, clockVars, threadVars, loopVars>>

TypeOK ==
    /\ created \in SUBSET Events
    /\ pending \in SUBSET created
    /\ due \in [Events -> Nat]
    /\ \A e \in Events : due[e] <= Interval[e]
    /\ cancelled \in SUBSET created
    /\ armed \in Nat
    /\ armed <= Grace \/ \E e \in Events : armed <= Interval[e]
    /\ expired \in BOOLEAN
    /\ pc \in [Threads -> {"idle", "add", "copy", "set", "erase"}]
    /\ event \in [Threads -> Events]
    /\ \A t \in Threads : pc[t] = "add" => event[t] \in created
    /\ loopPc \in {"wait", "read", "now", "collect", "add", "run"}
    /\ now \in SUBSET created
    /\ again \in SUBSET (Repeated \cap created)
    /\ tasks \in SUBSET created
    /\ late \in [Events -> 0..2]

Init ==
    /\ created = {}
    /\ pending = {}
    /\ due = [e \in Events |-> 0]
    /\ cancelled = {}
    /\ armed = 0
    /\ expired = FALSE
    /\ pc = [t \in Threads |-> "idle"]
    /\ event \in [Threads -> {CHOOSE e \in Events : TRUE}]
    /\ loopPc = "wait"
    /\ now = {}
    /\ again = {}
    /\ tasks = {}
    /\ late = [e \in Events |-> 0]

-----------------------------------------------------------------------------
(* addTimerEvent, resetArriveTime and deleteTimerEvent, in any thread.     *)

\* The events that begin() of the queue may be.
First == {e \in pending : \A d \in pending : due[e] <= due[d]}

\* TimerEvent::resetArriveTime, which the constructor calls: the arrive time is fixed
\* some time before the event is handed to addTimerEvent.
SetArriveTime(t, e) ==
    /\ due' = [due EXCEPT ![e] = Interval[e]]
    /\ event' = [event EXCEPT ![t] = e]
    /\ pc' = [pc EXCEPT ![t] = "add"]

CallerCreates(t, e) ==
    /\ pc[t] = "idle"
    /\ e \notin created
    /\ created' = created \cup {e}
    /\ SetArriveTime(t, e)
    /\ UNCHANGED <<pending, cancelled, clockVars, loopVars>>

\* Mutant of IsEarliest: an empty queue is not looked for.
IsEarlierThanSome(e) == \E d \in First : due[e] < due[d]

\* The new event is the first.
IsEarliest(e) == pending = {} \/ \E d \in First : due[e] < due[d]

\* Of events that are overdue either may have been the earlier.
AddTimerEvent(t) ==
    LET e == event[t]
    IN  /\ pc[t] = "add"
        /\ pending' = pending \cup {e}
        /\ \/ (IsEarliest(e) \/ due[e] = 0) /\ pc' = [pc EXCEPT ![t] = "copy"]
           \/ ~IsEarliest(e) /\ pc' = [pc EXCEPT ![t] = "idle"]
        /\ UNCHANGED <<created, due, cancelled, clockVars, event, loopVars>>

\* resetArriveTime: the queue is copied under the lock, and the lock given up.
CopyQueue(t) ==
    /\ pc[t] = "copy"
    /\ \/ /\ pending = {}
          /\ pc' = [pc EXCEPT ![t] = "idle"]
          /\ UNCHANGED event
       \/ /\ pc' = [pc EXCEPT ![t] = "set"]
          /\ event' \in {[event EXCEPT ![t] = e] : e \in First}
    /\ UNCHANGED <<created, pending, due, cancelled, clockVars, loopVars>>

\* Mutant of SetTime: milliseconds are taken for seconds.
SetTimeInSeconds(t) == 1000 * due[event[t]]

\* The interval for the first event of the copy, which is overdue at 0.
SetTime(t) == IF due[event[t]] > 0 THEN due[event[t]] ELSE Grace

\* timerfd_settime: the fd is armed anew, and an expiry not yet read is gone.
SetTimer(t) ==
    /\ pc[t] = "set"
    /\ armed' = SetTime(t)
    /\ expired' = FALSE
    /\ pc' = [pc EXCEPT ![t] = "idle"]
    /\ UNCHANGED <<created, pending, due, cancelled, event, loopVars>>

CallerCancels(t, e) ==
    /\ pc[t] = "idle"
    /\ e \in created \ cancelled
    /\ cancelled' = cancelled \cup {e}
    /\ pc' = [pc EXCEPT ![t] = "erase"]
    /\ event' = [event EXCEPT ![t] = e]
    /\ UNCHANGED <<created, pending, due, clockVars, loopVars>>

\* The timerfd is left as it is armed.
CallerErases(t) ==
    /\ pc[t] = "erase"
    /\ pending' = pending \ {event[t]}
    /\ pc' = [pc EXCEPT ![t] = "idle"]
    /\ UNCHANGED <<created, due, cancelled, clockVars, event, loopVars>>

-----------------------------------------------------------------------------
(* onTimer.                                                                *)

\* epoll_wait has reported the timerfd, and the loop runs its read callback.
StartOnTimer ==
    /\ loopPc = "wait"
    /\ expired
    /\ loopPc' = "read"
    /\ UNCHANGED <<created, pending, due, cancelled, clockVars, threadVars, now, again,
                   tasks, late>>

ReadTimerFd ==
    /\ loopPc = "read"
    /\ expired' = FALSE
    /\ loopPc' = "now"
    /\ UNCHANGED <<created, pending, due, cancelled, armed, threadVars, now, again, tasks,
                   late>>

\* getNowMs, before the lock is taken: what is constructed later is not due then.
ReadNow ==
    /\ loopPc = "now"
    /\ now' = {e \in created : due[e] = 0}
    /\ loopPc' = "collect"
    /\ UNCHANGED <<created, pending, due, cancelled, clockVars, threadVars, again, tasks,
                   late>>

Due == pending \cap now

\* Mutant of Collected: a cancelled event is collected like the others.
CollectedAll == Due

\* tmps: what is due leaves the queue, what is cancelled leaves it for good.
Collected == Due \ cancelled

CollectDue ==
    /\ loopPc = "collect"
    /\ pending' = pending \ Due
    /\ tasks' = Collected
    /\ again' = Collected \cap Repeated
    /\ loopPc' = "add"
    /\ now' = {}
    /\ UNCHANGED <<created, due, cancelled, clockVars, threadVars, late>>

AddAgain ==
    /\ loopPc = "add"
    /\ pc[LoopThread] = "idle"
    /\ \E e \in again :
          /\ again' = again \ {e}
          /\ SetArriveTime(LoopThread, e)
    /\ UNCHANGED <<created, pending, cancelled, clockVars, loopPc, now, tasks, late>>

\* Mutant of ResetAfterAdd: onTimer relies on the resets of addTimerEvent.
NoResetAfterAdd ==
    /\ loopPc = "add"
    /\ pc[LoopThread] = "idle"
    /\ again = {}
    /\ loopPc' = "run"
    /\ UNCHANGED <<created, pending, due, cancelled, clockVars, threadVars, now, again,
                   tasks, late>>

\* The resetArriveTime that follows.
ResetAfterAdd ==
    /\ loopPc = "add"
    /\ pc[LoopThread] = "idle"
    /\ again = {}
    /\ loopPc' = "run"
    /\ pc' = [pc EXCEPT ![LoopThread] = "copy"]
    /\ UNCHANGED <<created, pending, due, cancelled, clockVars, event, now, again, tasks,
                   late>>

RunTask ==
    /\ loopPc = "run"
    /\ pc[LoopThread] = "idle"
    /\ \E e \in tasks :
          /\ tasks' = tasks \ {e}
          /\ late' = [late EXCEPT ![e] = IF e \in cancelled /\ @ < 2 THEN @ + 1 ELSE @]
    /\ UNCHANGED <<created, pending, due, cancelled, clockVars, threadVars, loopPc, now,
                   again>>

OnTimerDone ==
    /\ loopPc = "run"
    /\ pc[LoopThread] = "idle"
    /\ tasks = {}
    /\ loopPc' = "wait"
    /\ UNCHANGED <<created, pending, due, cancelled, clockVars, threadVars, now, again,
                   tasks, late>>

LoopStep ==
    \/ StartOnTimer \/ ReadTimerFd \/ ReadNow \/ CollectDue
    \/ AddAgain \/ AddTimerEvent(LoopThread) \/ ResetAfterAdd
    \/ CopyQueue(LoopThread) \/ SetTimer(LoopThread)
    \/ RunTask \/ OnTimerDone

-----------------------------------------------------------------------------

\* A unit of time passes: the timerfd expires once.
Tick ==
    /\ armed > 0 \/ \E e \in Events : due[e] > 0
    /\ due' = [e \in Events |-> IF due[e] > 0 THEN due[e] - 1 ELSE 0]
    /\ armed' = IF armed > 0 THEN armed - 1 ELSE 0
    /\ expired' = (expired \/ armed = 1)
    /\ UNCHANGED <<created, pending, cancelled, threadVars, loopVars>>

Finish(t) == AddTimerEvent(t) \/ CopyQueue(t) \/ SetTimer(t) \/ CallerErases(t)

Next ==
    \/ LoopStep
    \/ Tick
    \/ \E t \in Callers :
          Finish(t) \/ \E e \in Events : CallerCreates(t, e) \/ CallerCancels(t, e)

\* Time passes, the loop keeps looping (its epoll_wait reports a readable fd,
\* its callbacks return), and a thread that has begun a call finishes it.
Fairness ==
    /\ WF_vars(Tick)
    /\ WF_vars(LoopStep)
    /\ \A t \in Callers : WF_vars(Finish(t))

Spec == Init /\ [][Next]_vars /\ Fairness

-----------------------------------------------------------------------------
(* Properties.                                                             *)

\* While events wait, something will look at them: the timerfd is armed or has
\* expired, or a thread is on its way to arm it, however the resets of several
\* threads, each with a copy of the queue of its own age, follow each other.
ArmedWhileWaiting ==
    pending # {} =>
        \/ armed > 0 \/ expired
        \/ loopPc # "wait"
        \/ \E t \in Threads : pc[t] \in {"copy", "set"}

\* deleteTimerEvent does not reach a callback that onTimer has already
\* collected; that one may run, but no other run follows, although a repeated
\* event may be put back into the queue after it was deleted from it.
CancelledRunsAtMostOnce == \A e \in Events : late[e] <= 1

\* And a cancelled event does not stay in the queue for ever.
CancelledLeaves == \A e \in Events : (e \in cancelled) ~> [](e \notin pending)

\* Every event that waits comes to be run or is cancelled: an fd armed too
\* late, by a thread whose copy was out of date, delays it but never loses it.
WaitingIsCollected ==
    \A e \in Events : (e \in pending) ~> (e \in tasks \/ e \in cancelled)
=============================================================================
