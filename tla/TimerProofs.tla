----------------------------- MODULE TimerProofs -----------------------------
(***************************************************************************)
(* Timer keeps its types, is never left unarmed while events wait, and     *)
(* runs a cancelled event at most once more, for any events, intervals and *)
(* threads.                                                                *)
(***************************************************************************)
EXTENDS Timer, TLAPS

-----------------------------------------------------------------------------
(* Types.                                                                  *)

LEMMA Intervals == /\ \A e \in Events : Interval[e] \in Nat /\ Interval[e] > 0
                   /\ Grace \in Nat /\ Grace > 0
  BY TimerAssumption

LEMMA TimerTypeInit == Init => TypeOK
  <1> SUFFICES ASSUME Init PROVE TypeOK
    OBVIOUS
  <1>1. (CHOOSE e \in Events : TRUE) \in Events
    BY TimerAssumption
  <1>2. event \in [Threads -> Events]
    BY <1>1 DEF Init
  <1>3. due \in [Events -> Nat] /\ \A e \in Events : due[e] <= Interval[e]
    BY Intervals DEF Init
  <1>4. armed \in Nat /\ armed <= Grace
    BY Intervals DEF Init
  <1>5. /\ late \in [Events -> 0..2] /\ \A t \in Threads : pc[t] = "idle"
        /\ pc \in [Threads -> {"idle", "add", "copy", "set", "erase"}]
    BY DEF Init
  <1> QED
    BY <1>2, <1>3, <1>4, <1>5 DEF Init, TypeOK

\* Setting an arrive time and adding an event keep to the intervals of the events.
LEMMA SetKeepsTypes ==
    ASSUME TypeOK, NEW t \in Threads, NEW e \in Events, SetArriveTime(t, e)
    PROVE  /\ due' \in [Events -> Nat]
           /\ \A d \in Events : due'[d] <= Interval[d]
           /\ event' \in [Threads -> Events]
           /\ pc' \in [Threads -> {"idle", "add", "copy", "set", "erase"}]
           /\ \A s \in Threads : pc'[s] = "add" => event'[s] \in created \cup {e}
  <1>1. due' \in [Events -> Nat] /\ \A d \in Events : due'[d] <= Interval[d]
    <2>1. due' = [due EXCEPT ![e] = Interval[e]] /\ due \in [Events -> Nat]
      BY DEF SetArriveTime, TypeOK
    <2>2. Interval[e] \in Nat
      BY Intervals
    <2>3. due' \in [Events -> Nat]
      BY <2>1, <2>2
    <2>4. ASSUME NEW d \in Events PROVE due'[d] <= Interval[d]
      <3>1. due'[d] = IF d = e THEN Interval[e] ELSE due[d]
        BY <2>1
      <3>2. due[d] <= Interval[d]
        BY DEF TypeOK
      <3> QED
        BY <2>2, <3>1, <3>2
    <2> QED
      BY <2>3, <2>4
  <1>2. /\ event' \in [Threads -> Events]
        /\ pc' \in [Threads -> {"idle", "add", "copy", "set", "erase"}]
    BY DEF TypeOK, SetArriveTime
  <1>3. ASSUME NEW s \in Threads, pc'[s] = "add" PROVE event'[s] \in created \cup {e}
    <2>1. CASE s = t
      BY <2>1 DEF TypeOK, SetArriveTime
    <2>2. CASE s # t
      BY <1>3, <2>2 DEF TypeOK, SetArriveTime
    <2> QED
      BY <2>1, <2>2
  <1> QED
    BY <1>1, <1>2, <1>3

LEMMA AddKeepsTypes ==
    ASSUME TypeOK, NEW t \in Threads, AddTimerEvent(t)
    PROVE  TypeOK'
  <1>1. event[t] \in created /\ pending' = pending \cup {event[t]}
    BY DEF TypeOK, AddTimerEvent
  <1>2. PICK p \in {"idle", "copy"} : pc' = [pc EXCEPT ![t] = p]
    BY DEF AddTimerEvent
  <1>3. /\ pc' \in [Threads -> {"idle", "add", "copy", "set", "erase"}]
        /\ \A s \in Threads : pc'[s] = "add" => pc[s] = "add"
    BY <1>2 DEF TypeOK
  <1>4. UNCHANGED <<created, due, cancelled, armed, expired, event, loopPc, now, again,
                    tasks, late>>
    BY DEF AddTimerEvent, clockVars, loopVars
  <1> QED
    BY <1>1, <1>3, <1>4 DEF TypeOK

LEMMA TimerTypeStep == TypeOK /\ [Next]_vars => TypeOK'
  <1> SUFFICES ASSUME TypeOK, [Next]_vars PROVE TypeOK'
    OBVIOUS
  <1> USE TimerAssumption
  <1>1. ASSUME NEW t \in Callers, NEW e \in Events, CallerCreates(t, e) PROVE TypeOK'
    <2>1. /\ due' \in [Events -> Nat]
          /\ \A d \in Events : due'[d] <= Interval[d]
          /\ event' \in [Threads -> Events]
          /\ pc' \in [Threads -> {"idle", "add", "copy", "set", "erase"}]
          /\ \A s \in Threads : pc'[s] = "add" => event'[s] \in created \cup {e}
      BY <1>1, SetKeepsTypes DEF CallerCreates, Threads
    <2> QED
      BY <1>1, <2>1 DEF TypeOK, CallerCreates, clockVars, loopVars
  <1>2. ASSUME NEW t \in Callers, NEW e \in Events, CallerCancels(t, e) PROVE TypeOK'
    BY <1>2 DEF TypeOK, CallerCancels, clockVars, loopVars, Threads
  <1>2a. ASSUME NEW t \in Threads, AddTimerEvent(t) PROVE TypeOK'
    BY <1>2a, AddKeepsTypes
  <1>3. ASSUME NEW t \in Threads, CopyQueue(t) PROVE TypeOK'
    <2>1. First \subseteq Events
      BY DEF First, TypeOK
    <2> QED
      BY <1>3, <2>1 DEF TypeOK, CopyQueue, clockVars, loopVars
  <1>4. ASSUME NEW t \in Threads, SetTimer(t) PROVE TypeOK'
    <2>1. armed' \in Nat /\ (armed' <= Grace \/ \E e \in Events : armed' <= Interval[e])
      BY <1>4 DEF TypeOK, SetTimer, SetTime
    <2> QED
      BY <1>4, <2>1 DEF TypeOK, SetTimer, loopVars
  <1>5. ASSUME NEW t \in Callers, CallerErases(t) PROVE TypeOK'
    BY <1>5 DEF TypeOK, CallerErases, clockVars, loopVars
  <1>6. CASE StartOnTimer
    BY <1>6 DEF TypeOK, StartOnTimer, clockVars, threadVars
  <1>7. CASE ReadTimerFd
    BY <1>7 DEF TypeOK, ReadTimerFd, threadVars
  <1>7a. CASE ReadNow
    BY <1>7a DEF TypeOK, ReadNow, clockVars, threadVars
  <1>8. CASE CollectDue
    BY <1>8 DEF TypeOK, CollectDue, Collected, Due, clockVars, threadVars
  <1>9. CASE AddAgain
    <2>1. PICK e \in again : again' = again \ {e} /\ SetArriveTime(LoopThread, e)
      BY <1>9 DEF AddAgain
    <2>2. e \in Events /\ e \in created
      BY <2>1 DEF TypeOK
    <2>3. /\ due' \in [Events -> Nat]
          /\ \A d \in Events : due'[d] <= Interval[d]
          /\ event' \in [Threads -> Events]
          /\ pc' \in [Threads -> {"idle", "add", "copy", "set", "erase"}]
          /\ \A s \in Threads : pc'[s] = "add" => event'[s] \in created \cup {e}
      BY <2>1, <2>2, SetKeepsTypes DEF Threads
    <2> QED
      BY <1>9, <2>1, <2>2, <2>3 DEF TypeOK, AddAgain, clockVars
  <1>10. CASE ResetAfterAdd
    BY <1>10 DEF TypeOK, ResetAfterAdd, clockVars
  <1>11. CASE RunTask
    BY <1>11 DEF TypeOK, RunTask, clockVars, threadVars
  <1>12. CASE OnTimerDone
    BY <1>12 DEF TypeOK, OnTimerDone, clockVars, threadVars
  <1>13. CASE Tick
    <2>1. due' \in [Events -> Nat] /\ \A e \in Events : due'[e] <= Interval[e]
      BY <1>13 DEF TypeOK, Tick
    <2>2. armed' \in Nat /\ (armed' <= Grace \/ \E e \in Events : armed' <= Interval[e])
      BY <1>13 DEF TypeOK, Tick
    <2> QED
      BY <1>13, <2>1, <2>2 DEF TypeOK, Tick, threadVars, loopVars
  <1>14. CASE UNCHANGED vars
    BY <1>14 DEF TypeOK, vars, clockVars, threadVars, loopVars
  <1> QED
    BY <1>1, <1>2, <1>2a, <1>3, <1>4, <1>5, <1>6, <1>7, <1>7a, <1>8, <1>9, <1>10, <1>11,
       <1>12, <1>13, <1>14 DEF Next, LoopStep, Finish, Threads

\* The timer's queue, its timerfd and the state of every thread in it keep
\* their types, whatever the events and their intervals.
THEOREM TimerTypeCorrect == Spec => []TypeOK
  BY TimerTypeInit, TimerTypeStep, PTL DEF Spec

-----------------------------------------------------------------------------
(* The timerfd.                                                            *)

\* Between the reset of onTimer and the end of its callbacks the timer is in
\* the same position as while the loop waits.
Looks == armed > 0 \/ expired \/ \E t \in Threads : pc[t] \in {"copy", "set"}
ArmedOnceReset == loopPc \in {"wait", "run"} /\ pending # {} => Looks

LEMMA ArmedOnceResetStep ==
    TypeOK /\ ArmedOnceReset /\ [Next]_vars => ArmedOnceReset'
  <1> SUFFICES ASSUME TypeOK, ArmedOnceReset, [Next]_vars,
                      loopPc' \in {"wait", "run"}, pending' # {}
               PROVE  Looks'
    BY DEF ArmedOnceReset
  <1>1. ASSUME NEW t \in Callers, NEW e \in Events, CallerCreates(t, e) PROVE Looks'
    <2>1. Looks
      BY <1>1 DEF ArmedOnceReset, CallerCreates, loopVars
    <2>2. \A s \in Threads : pc[s] # "idle" => pc'[s] = pc[s]
      BY <1>1 DEF CallerCreates, SetArriveTime, TypeOK
    <2> QED
      BY <1>1, <2>1, <2>2 DEF Looks, CallerCreates, clockVars
  <1>1a. ASSUME NEW t \in Threads, AddTimerEvent(t) PROVE Looks'
    <2>1. /\ pc[t] = "add" /\ UNCHANGED <<loopPc, armed, expired>>
          /\ \/ pc' = [pc EXCEPT ![t] = "copy"]
             \/ ~IsEarliest(event[t]) /\ pc' = [pc EXCEPT ![t] = "idle"]
      BY <1>1a DEF AddTimerEvent, clockVars, loopVars
    <2>2. CASE pc' = [pc EXCEPT ![t] = "copy"]
      <3>1. pc'[t] = "copy"
        BY <2>2 DEF TypeOK
      <3> QED
        BY <3>1 DEF Looks
    <2>3. CASE ~IsEarliest(event[t]) /\ pc' = [pc EXCEPT ![t] = "idle"]
      <3>1. Looks
        BY <2>1, <2>3 DEF ArmedOnceReset, IsEarliest
      <3>2. \A s \in Threads : pc[s] # "add" => pc'[s] = pc[s]
        BY <2>1, <2>3 DEF TypeOK
      <3> QED
        BY <2>1, <3>1, <3>2 DEF Looks
    <2> QED
      BY <2>1, <2>2, <2>3
  <1>2. ASSUME NEW t \in Callers, NEW e \in Events, CallerCancels(t, e) PROVE Looks'
    <2>1. Looks
      BY <1>2 DEF ArmedOnceReset, CallerCancels, loopVars
    <2>2. \A s \in Threads : pc[s] # "idle" => pc'[s] = pc[s]
      BY <1>2 DEF CallerCancels, TypeOK
    <2> QED
      BY <1>2, <2>1, <2>2 DEF Looks, CallerCancels, clockVars
  <1>3. ASSUME NEW t \in Threads, CopyQueue(t) PROVE Looks'
    <2>1. pc'[t] = "set"
      BY <1>3 DEF CopyQueue, TypeOK
    <2> QED
      BY <2>1 DEF Looks
  <1>4. ASSUME NEW t \in Threads, SetTimer(t) PROVE Looks'
    <2>1. SetTime(t) > 0
      BY Intervals DEF SetTime
    <2> QED
      BY <1>4, <2>1 DEF Looks, SetTimer
  <1>5. ASSUME NEW t \in Callers, CallerErases(t) PROVE Looks'
    <2>1. Looks
      BY <1>5 DEF ArmedOnceReset, CallerErases, loopVars
    <2>2. \A s \in Threads : pc[s] \in {"copy", "set"} => pc'[s] = pc[s]
      BY <1>5 DEF CallerErases, TypeOK
    <2> QED
      BY <1>5, <2>1, <2>2 DEF Looks, CallerErases, clockVars
  <1>6. CASE StartOnTimer \/ ReadTimerFd \/ ReadNow \/ CollectDue \/ AddAgain
    BY <1>6 DEF StartOnTimer, ReadTimerFd, ReadNow, CollectDue, AddAgain
  <1>7. CASE ResetAfterAdd
    <2>1. LoopThread \in Threads /\ pc'[LoopThread] = "copy"
      BY <1>7 DEF ResetAfterAdd, TypeOK, Threads
    <2> QED
      BY <2>1 DEF Looks
  <1>8. CASE RunTask \/ OnTimerDone
    BY <1>8 DEF ArmedOnceReset, Looks, RunTask, OnTimerDone, clockVars, threadVars
  <1>9. CASE Tick
    <2>1. Looks /\ armed \in Nat
      BY <1>9 DEF ArmedOnceReset, Tick, loopVars, TypeOK
    <2>2. armed > 0 => armed' > 0 \/ expired'
      <3>1. armed = 1 => expired'
        BY <1>9, Zenon DEF Tick
      <3>2. armed > 1 => armed' > 0
        <4>1. armed' = IF armed > 0 THEN armed - 1 ELSE 0
          BY <1>9 DEF Tick
        <4> QED
          BY <2>1, <4>1
      <3> QED
        BY <2>1, <3>1, <3>2
    <2>3. (expired => expired') /\ pc' = pc
      BY <1>9 DEF Tick, threadVars
    <2> QED
      BY <2>1, <2>2, <2>3 DEF Looks
  <1>10. CASE UNCHANGED vars
    BY <1>10 DEF ArmedOnceReset, Looks, vars, clockVars, threadVars, loopVars
  <1> QED
    BY <1>1, <1>1a, <1>2, <1>3, <1>4, <1>5, <1>6, <1>7, <1>8, <1>9, <1>10
       DEF Next, LoopStep, Finish, Threads

\* While events wait the timerfd is armed, or has expired, or is about to be
\* armed: no order of the resets of several threads leaves the queue to itself.
THEOREM TimerIsArmed == Spec => []ArmedWhileWaiting
  <1>1. Init => ArmedOnceReset
    BY DEF Init, ArmedOnceReset
  <1>2. ArmedOnceReset => ArmedWhileWaiting
    BY DEF ArmedOnceReset, Looks, ArmedWhileWaiting
  <1> QED
    BY <1>1, <1>2, TimerTypeCorrect, ArmedOnceResetStep, PTL DEF Spec

-----------------------------------------------------------------------------
(* Cancelled events.                                                       *)

\* A callback that has run after the cancel was the last to be collected.
NotCollectedAgain == \A e \in Events : late[e] > 0 =>
    late[e] = 1 /\ e \in cancelled /\ e \notin tasks

LEMMA NotCollectedAgainStep ==
    TypeOK /\ NotCollectedAgain /\ [Next]_vars => NotCollectedAgain'
  <1> SUFFICES ASSUME TypeOK, NotCollectedAgain, [Next]_vars PROVE NotCollectedAgain'
    OBVIOUS
  <1>1. CASE CollectDue
    <2>1. late' = late /\ cancelled' = cancelled /\ \A e \in tasks' : e \notin cancelled
      BY <1>1 DEF CollectDue, Collected
    <2> QED
      BY <2>1 DEF NotCollectedAgain
  <1>2. CASE RunTask
    <2>1. PICK e \in tasks :
              /\ tasks' = tasks \ {e}
              /\ late' = [late EXCEPT ![e] = IF e \in cancelled /\ @ < 2 THEN @ + 1 ELSE @]
      BY <1>2 DEF RunTask
    <2>2. e \in Events /\ late \in [Events -> 0..2] /\ cancelled' = cancelled
      BY <1>2, <2>1 DEF TypeOK, RunTask
    <2>3. late[e] = 0
      BY <2>1, <2>2 DEF NotCollectedAgain
    <2>4. late'[e] = IF e \in cancelled THEN 1 ELSE 0
      BY <2>1, <2>2, <2>3
    <2>5. \A d \in Events \ {e} : late'[d] = late[d]
      BY <2>1, <2>2
    <2> QED
      BY <2>1, <2>2, <2>4, <2>5 DEF NotCollectedAgain
  <1>3. CASE ~CollectDue /\ ~RunTask
    <2>1. late' = late /\ tasks' = tasks /\ cancelled \subseteq cancelled'
      BY <1>3 DEF Next, LoopStep, Finish, CallerCreates, AddTimerEvent, CallerCancels,
                  CopyQueue, SetTimer, CallerErases, StartOnTimer, ReadTimerFd, ReadNow,
                  AddAgain, ResetAfterAdd,
                  OnTimerDone, Tick, vars, loopVars
    <2> QED
      BY <2>1 DEF NotCollectedAgain
  <1> QED
    BY <1>1, <1>2, <1>3

\* After it is cancelled an event runs once more at most, in every order of
\* deleteTimerEvent and onTimer, repeated events included.
THEOREM CancelledOnceAtMost == Spec => []CancelledRunsAtMostOnce
  <1>1. Init => NotCollectedAgain
    BY DEF Init, NotCollectedAgain
  <1>2. TypeOK /\ NotCollectedAgain => CancelledRunsAtMostOnce
    <2> SUFFICES ASSUME TypeOK, NotCollectedAgain, NEW e \in Events PROVE late[e] <= 1
      BY DEF CancelledRunsAtMostOnce
    <2>1. late[e] \in 0..2
      BY DEF TypeOK
    <2>2. late[e] > 0 => late[e] = 1
      BY DEF NotCollectedAgain
    <2> QED
      BY <2>1, <2>2
  <1> QED
    BY <1>1, <1>2, TimerTypeCorrect, NotCollectedAgainStep, PTL DEF Spec
=============================================================================
