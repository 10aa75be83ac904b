-------------------------- MODULE DescriptorsProofs --------------------------
(***************************************************************************)
(* Numbers, epoll sets and callbacks of Descriptors agree in the way that  *)
(* its invariants say, for any number of IO threads, sockets and numbers.  *)
(***************************************************************************)
EXTENDS Descriptors, TLAPS

-----------------------------------------------------------------------------
(* The inductive invariant.                                                *)

\* A number has one holder, and what waits has a number.
NumbersInv ==
    /\ \A j, k \in Sockets : fd[j] = fd[k] /\ fd[j] # NoFd => j = k
    /\ \A k \in Sockets : phase[k] # "idle" => fd[k] # NoFd
    /\ \A k \in Sockets : k > made =>
          fd[k] = NoFd /\ phase[k] = "idle" /\ k \notin inherited \cup unheard

\* An add on its way is that of a server connection of that loop, which nothing
\* has watched so far.
Coming(l, f, k) ==
    /\ fd[k] = f /\ home[k] = l /\ kind[k] = "server" /\ phase[k] = "serving"
    /\ f \notin watched[l]
    /\ k \in inherited <=> f \in listed[l]
    /\ k \notin unheard

AddsInv == \A l \in Loops : \A f \in toAdd[l] : \E k \in Sockets : Coming(l, f, k)

\* What an event leads to, also for numbers that nobody watches.
EventsInv ==
    \A f \in Fds : \A e \in mask[f] : callback[f][e] \in Holders(f) \/ e \in left[f]

DescInv ==
    TypeOK /\ NumbersInv /\ AddsInv /\ WaitingIsWatched /\ EventsInv

\* The types without WatchedAtHome, which is a fact of its own.
Types ==
    /\ process \in {"up", "badNumber", "dangling", "crossed", "sigpipe"}
    /\ main \in {"build", "serve"}
    /\ fresh \in Sockets \cup {Nobody}
    /\ thread \in [Loops -> {"none", "starting", "waiting", "looping"}]
    /\ started \subseteq Loops
    /\ index \in 0..NumLoops
    /\ made \in 0..MaxSockets
    /\ kind \in [Sockets -> {"client", "server"}]
    /\ home \in [Sockets -> Loops]
    /\ fd \in [Sockets -> Fds \cup {NoFd}]
    /\ phase \in [Sockets -> {"idle", "connecting", "writing", "reading", "serving"}]
    /\ mask \in [Fds -> SUBSET Events]
    /\ callback \in [Fds -> [Events -> Sockets \cup {Nobody}]]
    /\ listed \in [Loops -> SUBSET Fds]
    /\ watched \in [Loops -> SUBSET Fds]
    /\ toAdd \in [Loops -> SUBSET Fds]
    /\ left \in [Fds -> SUBSET Events]
    /\ inherited \subseteq Sockets
    /\ unheard \subseteq Sockets

LEMMA TypesAndHome == TypeOK <=> Types /\ WatchedAtHome
BY DEF TypeOK, Types

LEMMA Parameters ==
    /\ NumLoops \in Nat /\ NumLoops >= 1 /\ MaxSockets \in Nat /\ NoFd \notin Fds
    /\ Sockets \subseteq Nat /\ Loops \subseteq Nat
BY DescriptorsAssumption DEF NoFd, Sockets, Loops

LEMMA InitDesc == Init => DescInv
<1> SUFFICES ASSUME Init PROVE DescInv
  OBVIOUS
<1>1. Types
  BY Parameters DEF Init, Types, Loops, Sockets, Events, Nobody, NoFd
<1>2. WatchedAtHome /\ NumbersInv /\ AddsInv /\ WaitingIsWatched /\ EventsInv
  BY DEF Init, WatchedAtHome, NumbersInv, AddsInv, WaitingIsWatched, EventsInv
<1> QED
  BY <1>1, <1>2, TypesAndHome DEF DescInv

\* A number that nobody has is watched by no loop, and nobody's add is on its way.
LEMMA FreeIsUnwatched ==
    ASSUME DescInv, NEW f \in Free
    PROVE  /\ f \in Fds /\ \A k \in Sockets : fd[k] # f
           /\ \A l \in Loops : f \notin watched[l] /\ f \notin toAdd[l]
BY DEF DescInv, TypeOK, WatchedAtHome, AddsInv, Coming, Free, Holders

-----------------------------------------------------------------------------
(* Steps.                                                                  *)

\* The threads come up, and a process that ends: no socket takes part.
LEMMA ThreadsKeep ==
    ASSUME DescInv, UNCHANGED <<socketVars, eventVars, epollVars, toAdd, historyVars>>,
           process' \in {"up", "badNumber", "dangling", "crossed", "sigpipe"},
           main' \in {"build", "serve"}, fresh' \in Sockets \cup {Nobody},
           thread' \in [Loops -> {"none", "starting", "waiting", "looping"}],
           started' \subseteq Loops, index' \in 0..NumLoops
    PROVE  DescInv'
<1>1. UNCHANGED <<made, kind, home, fd, phase, mask, callback, listed, watched, toAdd,
                  left, inherited, unheard>>
  BY DEF socketVars, eventVars, epollVars, historyVars
<1>2. TypeOK'
  BY <1>1 DEF DescInv, TypeOK, WatchedAtHome
<1>3. NumbersInv' /\ AddsInv'
  BY <1>1 DEF DescInv, NumbersInv, AddsInv, Coming
<1>4. WaitingIsWatched' /\ EventsInv'
  BY <1>1 DEF DescInv, WaitingIsWatched, EventsInv, Holders
<1> QED
  BY <1>2, <1>3, <1>4 DEF DescInv

\* What a new socket changes of the sockets.
LEMMA MakeNumbers ==
    ASSUME DescInv, NEW k \in Sockets, NEW what \in {"client", "server"},
           NEW l \in Loops, NEW f \in Free,
           NEW waits \in {"idle", "connecting", "writing", "serving"},
           Make(k, what, l, f, waits), UNCHANGED unheard
    PROVE  /\ NumbersInv'
           /\ made' \in 0..MaxSockets
           /\ kind' \in [Sockets -> {"client", "server"}] /\ home' \in [Sockets -> Loops]
           /\ fd' \in [Sockets -> Fds \cup {NoFd}]
           /\ phase' \in [Sockets -> {"idle", "connecting", "writing", "reading", "serving"}]
           /\ inherited' \subseteq Sockets
           /\ fd[k] = NoFd /\ phase[k] = "idle" /\ k \notin unheard
           /\ fd'[k] = f /\ home'[k] = l /\ kind'[k] = what /\ phase'[k] = waits
           /\ k \in inherited' <=> f \in listed[l]
           /\ \A j \in Sockets : j # k =>
                 /\ fd'[j] = fd[j] /\ home'[j] = home[j] /\ kind'[j] = kind[j]
                 /\ phase'[j] = phase[j] /\ (j \in inherited' <=> j \in inherited)
<1>1. f \in Fds /\ f # NoFd /\ \A j \in Sockets : fd[j] # f
  BY FreeIsUnwatched, Parameters
<1>2. fd[k] = NoFd /\ phase[k] = "idle" /\ k \notin inherited /\ k \notin unheard
  BY Parameters DEF Make, DescInv, TypeOK, NumbersInv
<1>3. /\ made' \in 0..MaxSockets
      /\ kind' \in [Sockets -> {"client", "server"}] /\ home' \in [Sockets -> Loops]
      /\ fd' \in [Sockets -> Fds \cup {NoFd}]
      /\ phase' \in [Sockets -> {"idle", "connecting", "writing", "reading", "serving"}]
      /\ inherited' \subseteq Sockets
  BY <1>1, Parameters DEF Make, DescInv, TypeOK, Sockets
<1>4. /\ fd'[k] = f /\ home'[k] = l /\ kind'[k] = what /\ phase'[k] = waits
      /\ k \in inherited' <=> f \in listed[l]
      /\ \A j \in Sockets : j # k =>
            /\ fd'[j] = fd[j] /\ home'[j] = home[j] /\ kind'[j] = kind[j]
            /\ phase'[j] = phase[j] /\ (j \in inherited' <=> j \in inherited)
  BY <1>2 DEF Make, DescInv, TypeOK
<1>5. NumbersInv'
  BY <1>1, <1>4, Parameters DEF Make, DescInv, TypeOK, NumbersInv
<1> QED
  BY <1>2, <1>3, <1>4, <1>5

LEMMA AcceptKeeps == DescInv /\ Accept => DescInv'
<1> SUFFICES ASSUME DescInv, Accept PROVE DescInv'
  OBVIOUS
<1>1. index' \in Loops /\ index' \in 0..NumLoops /\ index' = NextThread
      /\ UNCHANGED <<main, thread, started, listed, watched>>
      /\ fresh' \in Sockets \cup {Nobody}
  BY Parameters DEF Accept, NextThread, DescInv, TypeOK, Loops, epollVars
<1>l. PICK l \in Loops : l = NextThread
  BY <1>1
<1>2. ASSUME NEW k \in Sockets, NEW f \in Free,
             Make(k, "server", l, f, "serving"), Listen(f, "IN", k),
             toAdd' = [toAdd EXCEPT ![l] = @ \cup {f}], UNCHANGED <<process, left, unheard>>
      PROVE  DescInv'
  <2>1. /\ f \in Fds /\ \A j \in Sockets : fd[j] # f
        /\ \A m \in Loops : f \notin watched[m] /\ f \notin toAdd[m]
    BY FreeIsUnwatched
  <2>2. /\ NumbersInv' /\ fd[k] = NoFd /\ phase[k] = "idle" /\ k \notin unheard
        /\ unheard' = unheard
        /\ fd'[k] = f /\ home'[k] = l /\ kind'[k] = "server" /\ phase'[k] = "serving"
        /\ k \in inherited' <=> f \in listed[l]
        /\ \A j \in Sockets : j # k =>
              /\ fd'[j] = fd[j] /\ home'[j] = home[j] /\ kind'[j] = kind[j]
              /\ phase'[j] = phase[j] /\ (j \in inherited' <=> j \in inherited)
    BY <1>1, <1>2, MakeNumbers
  <2>3. /\ made' \in 0..MaxSockets
        /\ kind' \in [Sockets -> {"client", "server"}] /\ home' \in [Sockets -> Loops]
        /\ fd' \in [Sockets -> Fds \cup {NoFd}]
        /\ phase' \in [Sockets -> {"idle", "connecting", "writing", "reading", "serving"}]
        /\ inherited' \subseteq Sockets
    BY <1>1, <1>2, MakeNumbers
  <2>4. mask' \in [Fds -> SUBSET Events]
        /\ callback' \in [Fds -> [Events -> Sockets \cup {Nobody}]]
        /\ toAdd' \in [Loops -> SUBSET Fds]
    BY <1>1, <1>2, <2>1 DEF Listen, DescInv, TypeOK, Events
  <2>5. WatchedAtHome'
    BY <1>1, <2>1, <2>2, Parameters DEF DescInv, TypeOK, WatchedAtHome
  <2>6. TypeOK'
    BY <1>1, <1>2, <2>3, <2>4, <2>5, TypesAndHome DEF DescInv, TypeOK
  <2>7. AddsInv'
    <3>1. Coming(l, f, k)'
      BY <1>1, <2>1, <2>2 DEF Coming
    <3>2. \A m \in Loops : \A g \in toAdd[m] : \A j \in Sockets :
              Coming(m, g, j) => Coming(m, g, j)'
      BY <1>1, <2>1, <2>2, Parameters DEF Coming, DescInv, TypeOK
    <3>3. \A m \in Loops : \A g \in toAdd'[m] : g \in toAdd[m] \/ (m = l /\ g = f)
      BY <1>1, <1>2 DEF DescInv, TypeOK
    <3> QED
      BY <3>1, <3>2, <3>3 DEF AddsInv, DescInv
  <2>8. WaitingIsWatched'
    <3>1. f \in toAdd'[l]
      BY <1>1, <1>2 DEF DescInv, TypeOK
    <3>2. \A m \in Loops : toAdd[m] \subseteq toAdd'[m]
      BY <1>1, <1>2 DEF DescInv, TypeOK
    <3> QED
      BY <1>1, <2>2, <3>1, <3>2 DEF WaitingIsWatched, DescInv, TypeOK
  <2>9. EventsInv'
    <3>1. \A g \in Fds : Holders(g) \subseteq Holders(g)' /\ k \in Holders(f)'
      BY <2>1, <2>2, Parameters DEF Holders
    <3>2. \A g \in Fds : \A e \in mask'[g] :
              \/ e \in mask[g] /\ callback'[g][e] = callback[g][e]
              \/ callback'[g][e] = k /\ g = f
      BY <1>2, <2>1 DEF Listen, DescInv, TypeOK, Events
    <3> QED
      BY <1>2, <3>1, <3>2 DEF EventsInv, DescInv
  <2> QED
    BY <2>2, <2>6, <2>7, <2>8, <2>9 DEF DescInv
<1>3. CASE process' = "badNumber" /\ UNCHANGED <<socketVars, eventVars, toAdd, historyVars>>
  BY <1>1, <1>3, ThreadsKeep DEF DescInv, TypeOK, epollVars
<1> QED
  BY <1>l, <1>2, <1>3 DEF Accept

LEMMA RunAddKeeps ==
    ASSUME DescInv, NEW l \in Loops, RunAdd(l)
    PROVE  DescInv'
<1>1. PICK f \in toAdd[l] : AddToEpoll(l, f) /\ toAdd' = [toAdd EXCEPT ![l] = @ \ {f}]
  BY DEF RunAdd
<1>2. UNCHANGED <<process, main, fresh, thread, started, index, made, kind, home, fd,
                  phase, mask, callback, left, inherited, unheard>>
  BY DEF RunAdd, threadVars, socketVars, eventVars, historyVars
<1>3. PICK k \in Sockets : Coming(l, f, k)
  BY DEF DescInv, AddsInv
<1>4. f \in Fds
  BY DEF DescInv, TypeOK
<1>5. /\ listed' \in [Loops -> SUBSET Fds] /\ watched' \in [Loops -> SUBSET Fds]
      /\ toAdd' \in [Loops -> SUBSET Fds]
  BY <1>1, <1>4 DEF AddToEpoll, DescInv, TypeOK
<1>6. \A m \in Loops :
          /\ listed'[m] = IF m = l THEN listed[m] \cup {f} ELSE listed[m]
          /\ watched'[m] = IF m = l /\ f \notin listed[l] THEN watched[m] \cup {f} ELSE watched[m]
          /\ toAdd'[m] = IF m = l THEN toAdd[m] \ {f} ELSE toAdd[m]
  BY <1>1 DEF AddToEpoll, DescInv, TypeOK
<1>7. \A j \in Sockets : fd[j] = f => j = k
  BY <1>3, <1>4, Parameters DEF Coming, DescInv, NumbersInv
<1>8. WatchedAtHome'
  <2> SUFFICES ASSUME NEW m \in Loops, NEW g \in watched'[m]
               PROVE  g \in listed'[m] /\ \E j \in Sockets : fd[j] = g /\ home[j] = m
    BY <1>2 DEF WatchedAtHome
  <2>1. CASE g \in watched[m]
    BY <1>6, <2>1 DEF DescInv, TypeOK, WatchedAtHome
  <2>2. CASE g \notin watched[m]
    <3>1. m = l /\ g = f
      BY <1>6, <2>2
    <3> QED
      BY <1>3, <1>6, <3>1 DEF Coming
  <2> QED
    BY <2>1, <2>2
<1>9. TypeOK'
  BY <1>2, <1>5, <1>8 DEF DescInv, TypeOK
<1>10. NumbersInv'
  BY <1>2 DEF DescInv, NumbersInv
<1>11. AddsInv'
  <2> SUFFICES ASSUME NEW m \in Loops, NEW g \in toAdd'[m]
               PROVE  \E j \in Sockets : Coming(m, g, j)'
    BY DEF AddsInv
  <2>1. g \in toAdd[m] /\ ~(m = l /\ g = f)
    BY <1>6
  <2>2. PICK j \in Sockets : Coming(m, g, j)
    BY <2>1 DEF DescInv, AddsInv
  <2>3. g # f
    BY <1>3, <1>7, <2>1, <2>2 DEF Coming
  <2> QED
    BY <1>2, <1>6, <2>2, <2>3 DEF Coming
<1>12. WaitingIsWatched'
  <2> SUFFICES ASSUME NEW j \in Sockets, phase[j] # "idle", fd[j] \notin toAdd'[home[j]]
               PROVE  fd[j] \in watched'[home[j]] <=> j \notin inherited \cup unheard
    BY <1>2 DEF WaitingIsWatched
  <2>1. CASE j = k
    BY <1>3, <1>6, <2>1 DEF Coming
  <2>2. CASE j # k
    <3>1. fd[j] # f /\ home[j] \in Loops
      BY <1>7, <2>2 DEF DescInv, TypeOK
    <3>2. fd[j] \notin toAdd[home[j]]
      BY <1>6, <3>1
    <3>3. fd[j] \in watched'[home[j]] <=> fd[j] \in watched[home[j]]
      BY <1>6, <3>1
    <3> QED
      BY <3>2, <3>3 DEF DescInv, WaitingIsWatched
  <2> QED
    BY <2>1, <2>2
<1>13. EventsInv'
  BY <1>2 DEF DescInv, EventsInv, Holders
<1> QED
  BY <1>9, <1>10, <1>11, <1>12, <1>13 DEF DescInv

LEMMA NewClientKeeps ==
    ASSUME DescInv, NEW l \in Loops, NewClient(l)
    PROVE  DescInv'
<1>1. UNCHANGED <<main, fresh, thread, started, index, toAdd>>
  BY DEF NewClient, threadVars
<1>2. ASSUME NEW k \in Sockets, NEW f \in Free,
             NEW waits \in {"connecting", "writing", "idle"},
             Make(k, "client", l, f, waits),
             IF waits = "idle" THEN UNCHANGED <<eventVars, epollVars>>
             ELSE Listen(f, "OUT", k) /\ AddToEpoll(l, f),
             UNCHANGED <<process, left, unheard>>
      PROVE  DescInv'
  <2>1. /\ f \in Fds /\ f # NoFd /\ \A j \in Sockets : fd[j] # f
        /\ \A m \in Loops : f \notin watched[m] /\ f \notin toAdd[m]
    BY FreeIsUnwatched, Parameters
  <2>2. /\ NumbersInv' /\ fd[k] = NoFd /\ phase[k] = "idle" /\ k \notin unheard
        /\ unheard' = unheard
        /\ fd'[k] = f /\ home'[k] = l /\ phase'[k] = waits
        /\ k \in inherited' <=> f \in listed[l]
        /\ \A j \in Sockets : j # k =>
              /\ fd'[j] = fd[j] /\ home'[j] = home[j] /\ kind'[j] = kind[j]
              /\ phase'[j] = phase[j] /\ (j \in inherited' <=> j \in inherited)
    BY <1>2, MakeNumbers
  <2>3. /\ made' \in 0..MaxSockets
        /\ kind' \in [Sockets -> {"client", "server"}] /\ home' \in [Sockets -> Loops]
        /\ fd' \in [Sockets -> Fds \cup {NoFd}]
        /\ phase' \in [Sockets -> {"idle", "connecting", "writing", "reading", "serving"}]
        /\ inherited' \subseteq Sockets
    BY <1>2, MakeNumbers
  <2>4. /\ mask' \in [Fds -> SUBSET Events]
        /\ callback' \in [Fds -> [Events -> Sockets \cup {Nobody}]]
        /\ listed' \in [Loops -> SUBSET Fds] /\ watched' \in [Loops -> SUBSET Fds]
    <3>1. CASE waits = "idle"
      BY <1>2, <3>1 DEF DescInv, TypeOK, eventVars, epollVars
    <3>2. CASE waits # "idle"
      <4>1. Listen(f, "OUT", k) /\ AddToEpoll(l, f)
        BY <1>2, <3>2
      <4>2. mask' \in [Fds -> SUBSET Events]
            /\ callback' \in [Fds -> [Events -> Sockets \cup {Nobody}]]
        BY <2>1, <4>1 DEF Listen, DescInv, TypeOK, Events
      <4>3. listed' \in [Loops -> SUBSET Fds] /\ watched' \in [Loops -> SUBSET Fds]
        BY <2>1, <4>1 DEF AddToEpoll, DescInv, TypeOK
      <4> QED
        BY <4>2, <4>3
    <3> QED
      BY <3>1, <3>2
  <2>5. \A m \in Loops : \A g \in Fds :
            /\ g # f \/ m # l => /\ g \in listed'[m] <=> g \in listed[m]
                                 /\ g \in watched'[m] <=> g \in watched[m]
            /\ waits # "idle" => (f \in watched'[l] <=> f \notin listed[l])
            /\ waits # "idle" => f \in listed'[l]
            /\ waits = "idle" => f \notin watched'[l]
    BY <1>2, <2>1 DEF AddToEpoll, DescInv, TypeOK, epollVars
  <2>6. WatchedAtHome'
    <3> SUFFICES ASSUME NEW m \in Loops, NEW g \in watched'[m]
                 PROVE  g \in listed'[m] /\ \E j \in Sockets : fd'[j] = g /\ home'[j] = m
      BY DEF WatchedAtHome
    <3>1. g \in Fds
      BY <2>4
    <3>2. CASE g = f /\ m = l
      <4>1. waits # "idle"
        BY <2>1, <2>5, <3>2
      <4>2. g \in listed'[m]
        BY <2>1, <2>5, <3>2, <4>1
      <4> QED
        BY <2>2, <3>2, <4>2
    <3>3. CASE g # f \/ m # l
      <4>1. g \in watched[m] /\ g \in listed'[m]
        BY <2>5, <3>1, <3>3 DEF DescInv, TypeOK, WatchedAtHome
      <4>2. PICK j \in Sockets : fd[j] = g /\ home[j] = m
        BY <4>1 DEF DescInv, TypeOK, WatchedAtHome
      <4> QED
        BY <2>2, <3>1, <4>1, <4>2, Parameters
    <3> QED
      BY <3>2, <3>3
  <2>7. TypeOK'
    BY <1>1, <1>2, <2>3, <2>4, <2>6 DEF DescInv, TypeOK
  <2>8. AddsInv'
    <3>1. ASSUME NEW m \in Loops, NEW g \in toAdd[m] PROVE \E j \in Sockets : Coming(m, g, j)'
      <4>1. PICK j \in Sockets : Coming(m, g, j)
        BY DEF DescInv, AddsInv
      <4>2. g \in Fds /\ g # f /\ j # k
        BY <2>1, <2>2, <4>1 DEF DescInv, TypeOK, Coming
      <4> QED
        BY <2>2, <2>5, <4>1, <4>2 DEF Coming
    <3> QED
      BY <1>1, <3>1 DEF AddsInv
  <2>9. WaitingIsWatched'
    <3> SUFFICES ASSUME NEW j \in Sockets, phase'[j] # "idle", fd'[j] \notin toAdd[home'[j]]
                 PROVE  fd'[j] \in watched'[home'[j]] <=> j \notin inherited' \cup unheard
      BY <1>1, <2>2 DEF WaitingIsWatched
    <3>1. CASE j = k
      BY <2>1, <2>2, <2>5, <3>1
    <3>2. CASE j # k
      <4>1. fd[j] # f /\ home[j] \in Loops /\ fd[j] \in Fds
        BY <2>1, <2>2, <3>2 DEF DescInv, TypeOK, NumbersInv
      <4> QED
        BY <2>2, <2>5, <3>2, <4>1 DEF DescInv, WaitingIsWatched
    <3> QED
      BY <3>1, <3>2
  <2>10. EventsInv'
    <3>1. \A g \in Fds : Holders(g) \subseteq Holders(g)' /\ k \in Holders(f)'
      BY <2>1, <2>2, Parameters DEF Holders
    <3>2. \A g \in Fds : \A e \in mask'[g] :
              \/ e \in mask[g] /\ callback'[g][e] = callback[g][e]
              \/ callback'[g][e] = k /\ g = f
      BY <1>2, <2>1 DEF Listen, DescInv, TypeOK, Events, eventVars
    <3> QED
      BY <1>2, <3>1, <3>2 DEF EventsInv, DescInv
  <2> QED
    BY <2>2, <2>7, <2>8, <2>9, <2>10 DEF DescInv
<1>3. CASE process' = "badNumber"
           /\ UNCHANGED <<socketVars, eventVars, epollVars, historyVars>>
  BY <1>1, <1>3, ThreadsKeep DEF DescInv, TypeOK
<1> QED
  BY <1>2, <1>3 DEF NewClient

\* A socket gives up its number, or keeps it and waits for nothing any more.
LEMMA LeaveKeeps ==
    ASSUME DescInv, NEW k \in Sockets, fd[k] # NoFd,
           \A l \in Loops : fd[k] \notin toAdd[l],
           NEW g \in Free \cup {fd[k], NoFd},
           fd' = [fd EXCEPT ![k] = g], phase' = [phase EXCEPT ![k] = "idle"],
           UNCHANGED <<process, main, fresh, thread, started, index, made, kind, home,
                       toAdd, inherited, unheard>>,
           mask' \in [Fds -> SUBSET Events],
           callback' \in [Fds -> [Events -> Sockets \cup {Nobody}]],
           left' \in [Fds -> SUBSET Events],
           listed' \in [Loops -> SUBSET Fds], watched' \in [Loops -> SUBSET Fds],
           \A l \in Loops : /\ watched'[l] = watched[l] \ {fd[k]}
                            /\ \A f \in Fds : f # fd[k] => (f \in listed'[l] <=> f \in listed[l]),
           EventsInv'
    PROVE  DescInv'
<1>1. /\ fd[k] \in Fds /\ g \in Fds \cup {NoFd}
      /\ \A j \in Sockets : j # k => fd[j] # fd[k] /\ (g # NoFd => fd[j] # g)
  BY FreeIsUnwatched, Parameters DEF DescInv, TypeOK, NumbersInv
<1>2. \A j \in Sockets : j # k => fd'[j] = fd[j] /\ phase'[j] = phase[j]
  BY DEF DescInv, TypeOK
<1>3. fd'[k] = g /\ phase'[k] = "idle"
  BY DEF DescInv, TypeOK
<1>4. WatchedAtHome'
  <2> SUFFICES ASSUME NEW m \in Loops, NEW f \in watched'[m]
               PROVE  f \in listed'[m] /\ \E j \in Sockets : fd'[j] = f /\ home[j] = m
    BY DEF WatchedAtHome
  <2>1. f \in watched[m] /\ f # fd[k] /\ f \in Fds
    BY DEF DescInv, TypeOK
  <2>2. PICK j \in Sockets : fd[j] = f /\ home[j] = m
    BY <2>1 DEF DescInv, TypeOK, WatchedAtHome
  <2> QED
    BY <1>2, <2>1, <2>2 DEF DescInv, TypeOK, WatchedAtHome
<1>5. TypeOK'
  <2>1. fd' \in [Sockets -> Fds \cup {NoFd}]
    BY <1>1 DEF DescInv, TypeOK
  <2>2. phase' \in [Sockets -> {"idle", "connecting", "writing", "reading", "serving"}]
    BY DEF DescInv, TypeOK
  <2>3. Types'
    BY <2>1, <2>2, TypesAndHome DEF DescInv, Types
  <2> QED
    BY <1>4, <2>3 DEF TypeOK, Types
<1>6. NumbersInv'
  <2>1. \A i, j \in Sockets : fd'[i] = fd'[j] /\ fd'[i] # NoFd => i = j
    BY <1>1, <1>2, <1>3 DEF DescInv, NumbersInv
  <2>2. \A j \in Sockets : phase'[j] # "idle" => fd'[j] # NoFd
    BY <1>2, <1>3 DEF DescInv, NumbersInv
  <2>3. ~ (k > made)
    BY DEF DescInv, NumbersInv
  <2> QED
    BY <1>2, <2>1, <2>2, <2>3 DEF DescInv, NumbersInv
<1>7. AddsInv'
  <2> SUFFICES ASSUME NEW m \in Loops, NEW f \in toAdd[m]
               PROVE  \E j \in Sockets : Coming(m, f, j)'
    BY DEF AddsInv
  <2>1. PICK j \in Sockets : Coming(m, f, j)
    BY DEF DescInv, AddsInv
  <2>2. f # fd[k] /\ f \in Fds /\ j # k
    BY <2>1 DEF DescInv, TypeOK, Coming
  <2> QED
    BY <1>2, <2>1, <2>2 DEF Coming
<1>8. WaitingIsWatched'
  <2> SUFFICES ASSUME NEW j \in Sockets, phase'[j] # "idle", fd'[j] \notin toAdd[home[j]]
               PROVE  fd'[j] \in watched'[home[j]] <=> j \notin inherited \cup unheard
    BY DEF WaitingIsWatched
  <2>1. j # k /\ fd[j] # fd[k] /\ home[j] \in Loops /\ fd'[j] = fd[j] /\ phase'[j] = phase[j]
    BY <1>1, <1>2, <1>3 DEF DescInv, TypeOK
  <2> QED
    BY <2>1 DEF DescInv, WaitingIsWatched
<1> QED
  BY <1>5, <1>6, <1>7, <1>8 DEF DescInv

\* A socket whose callback runs: its number is listed and watched by its own
\* loop, by no other, and nobody's add of it is on its way.
LEMMA RunsFacts ==
    ASSUME DescInv, NEW k \in Sockets, NEW e \in Events, NEW waits, Runs(k, e, waits)
    PROVE  /\ home[k] \in Loops /\ fd[k] \in Fds /\ fd[k] # NoFd /\ phase[k] = waits
           /\ fd[k] \in listed[home[k]] /\ fd[k] \in watched[home[k]]
           /\ \A l \in Loops : fd[k] \notin toAdd[l]
           /\ \A l \in Loops : fd[k] \in watched[l] => l = home[k]
           /\ \A j \in Sockets : j # k => fd[j] # fd[k]
           /\ e \in mask[fd[k]]
<1>1. home[k] \in Loops /\ fd[k] \in Fds /\ fd[k] # NoFd /\ phase[k] = waits
      /\ fd[k] \in watched[home[k]] /\ e \in mask[fd[k]]
  BY DEF Runs, Fires, DescInv, TypeOK
<1>2. \A j \in Sockets : j # k => fd[j] # fd[k]
  BY <1>1 DEF DescInv, NumbersInv
<1>3. \A l \in Loops : fd[k] \in watched[l] => fd[k] \in listed[l] /\ l = home[k]
  BY <1>2 DEF DescInv, TypeOK, WatchedAtHome
<1>4. ASSUME NEW l \in Loops, fd[k] \in toAdd[l] PROVE FALSE
  <2>1. PICK j \in Sockets : Coming(l, fd[k], j)
    BY <1>4 DEF DescInv, AddsInv
  <2>2. j = k
    BY <1>2, <2>1 DEF Coming
  <2> QED
    BY <1>1, <2>1, <2>2 DEF Coming
<1> QED
  BY <1>1, <1>2, <1>3, <1>4

LEMMA DestroyKeeps ==
    ASSUME DescInv, NEW k \in Sockets, DestroyClient(k)
    PROVE  DescInv'
<1>1. /\ kind[k] = "client" /\ fd[k] # NoFd /\ fd' = [fd EXCEPT ![k] = NoFd]
      /\ phase' = [phase EXCEPT ![k] = "idle"] /\ CloseNumber(fd[k])
      /\ UNCHANGED <<process, main, fresh, thread, started, index, made, kind, home, mask,
                     callback, listed, toAdd, inherited, unheard>>
  BY DEF DestroyClient, threadVars, eventVars
<1>2. fd[k] \in Fds /\ \A j \in Sockets : j # k => fd[j] # fd[k]
  BY <1>1 DEF DescInv, TypeOK, NumbersInv
<1>3. ASSUME NEW l \in Loops, fd[k] \in toAdd[l] PROVE FALSE
  <2>1. PICK j \in Sockets : Coming(l, fd[k], j)
    BY <1>3 DEF DescInv, AddsInv
  <2> QED
    BY <1>1, <1>2, <2>1 DEF Coming
<1>4. /\ left' \in [Fds -> SUBSET Events] /\ watched' \in [Loops -> SUBSET Fds]
      /\ \A l \in Loops : watched'[l] = watched[l] \ {fd[k]}
  BY <1>1, <1>2 DEF CloseNumber, DescInv, TypeOK
<1>5. EventsInv'
  <2> SUFFICES ASSUME NEW f \in Fds, NEW e \in mask[f]
               PROVE  callback[f][e] \in Holders(f)' \/ e \in left'[f]
    BY <1>1 DEF EventsInv
  <2>1. CASE f = fd[k]
    BY <1>1, <2>1 DEF CloseNumber, DescInv, TypeOK
  <2>2. CASE f # fd[k]
    <3>1. left'[f] = left[f]
      BY <1>1, <2>2 DEF CloseNumber, DescInv, TypeOK
    <3>2. Holders(f) \subseteq Holders(f)'
      BY <1>1, <2>2 DEF Holders, DescInv, TypeOK
    <3> QED
      BY <3>1, <3>2 DEF DescInv, EventsInv
  <2> QED
    BY <2>1, <2>2
<1>6. /\ mask' \in [Fds -> SUBSET Events] /\ listed' \in [Loops -> SUBSET Fds]
      /\ callback' \in [Fds -> [Events -> Sockets \cup {Nobody}]]
  BY <1>1 DEF DescInv, TypeOK
<1> QED
  BY <1>1, <1>3, <1>4, <1>5, <1>6, LeaveKeeps

\* What DeleteToEpoll does for a socket whose callback runs.
LEMMA DeleteFacts ==
    ASSUME DescInv, NEW k \in Sockets, NEW e \in Events, NEW waits, Runs(k, e, waits),
           DeleteToEpoll(home[k], fd[k])
    PROVE  /\ listed' \in [Loops -> SUBSET Fds] /\ watched' \in [Loops -> SUBSET Fds]
           /\ \A l \in Loops :
                 /\ watched'[l] = watched[l] \ {fd[k]}
                 /\ \A f \in Fds : f # fd[k] => (f \in listed'[l] <=> f \in listed[l])
<1>1. home[k] \in Loops /\ \A l \in Loops : fd[k] \in watched[l] => l = home[k]
  BY RunsFacts
<1> QED
  BY <1>1 DEF DeleteToEpoll, DescInv, TypeOK

\* A number that its loop watches is in both sets already.
LEMMA AddAgainChangesNothing ==
    ASSUME DescInv, NEW l \in Loops, NEW f \in listed[l], AddToEpoll(l, f)
    PROVE  listed' = listed /\ watched' = watched
BY DEF AddToEpoll, DescInv, TypeOK

\* A socket goes on waiting, or waits for something else.
LEMMA StayKeeps ==
    ASSUME DescInv, NEW k \in Sockets, phase[k] # "idle",
           \A l \in Loops : fd[k] \notin toAdd[l],
           UNCHANGED <<process, main, fresh, thread, started, index, made, kind, home, fd,
                       toAdd, left, inherited, unheard, listed, watched>>,
           phase' \in [Sockets -> {"idle", "connecting", "writing", "reading", "serving"}],
           \A j \in Sockets : j # k => phase'[j] = phase[j],
           mask' \in [Fds -> SUBSET Events],
           callback' \in [Fds -> [Events -> Sockets \cup {Nobody}]],
           EventsInv'
    PROVE  DescInv'
<1>1. TypeOK'
  BY DEF DescInv, TypeOK, WatchedAtHome
<1>2. NumbersInv'
  BY DEF DescInv, NumbersInv
<1>3. AddsInv'
  <2> SUFFICES ASSUME NEW m \in Loops, NEW f \in toAdd[m]
               PROVE  \E j \in Sockets : Coming(m, f, j)'
    BY DEF AddsInv
  <2>1. PICK j \in Sockets : Coming(m, f, j)
    BY DEF DescInv, AddsInv
  <2>2. j # k
    BY <2>1 DEF Coming
  <2> QED
    BY <2>1, <2>2 DEF Coming
<1>4. WaitingIsWatched'
  BY DEF DescInv, WaitingIsWatched
<1> QED
  BY <1>1, <1>2, <1>3, <1>4 DEF DescInv

LEMMA ConnectedKeeps ==
    ASSUME DescInv, NEW k \in Sockets, RunConnected(k)
    PROVE  DescInv'
<1>1. Runs(k, "OUT", "connecting") /\ "OUT" \in Events
  BY DEF RunConnected, Events
<1>2. /\ UNCHANGED <<process, main, fresh, thread, started, index, made, kind, home, fd,
                     mask, callback, toAdd, left, inherited, unheard>>
      /\ EventsInv'
  BY DEF RunConnected, threadVars, eventVars, historyVars, DescInv, EventsInv, Holders
<1>3. /\ mask' \in [Fds -> SUBSET Events] /\ left' \in [Fds -> SUBSET Events]
      /\ callback' \in [Fds -> [Events -> Sockets \cup {Nobody}]]
  BY <1>2 DEF DescInv, TypeOK
<1>4. CASE Goto(k, "writing") /\ UNCHANGED epollVars
  <2>1. phase' \in [Sockets -> {"idle", "connecting", "writing", "reading", "serving"}]
        /\ \A j \in Sockets : j # k => phase'[j] = phase[j]
    BY <1>4 DEF Goto, DescInv, TypeOK
  <2>2. phase[k] # "idle" /\ \A l \in Loops : fd[k] \notin toAdd[l]
    BY <1>1, RunsFacts
  <2> QED
    BY <1>2, <1>3, <1>4, <2>1, <2>2, StayKeeps DEF epollVars
<1>5. CASE Goto(k, "idle") /\ DeleteToEpoll(home[k], fd[k])
  <2>1. fd[k] # NoFd /\ \A l \in Loops : fd[k] \notin toAdd[l]
    BY <1>1, RunsFacts
  <2>2. fd' = [fd EXCEPT ![k] = fd[k]]
    BY <1>2 DEF DescInv, TypeOK
  <2>3. /\ listed' \in [Loops -> SUBSET Fds] /\ watched' \in [Loops -> SUBSET Fds]
        /\ \A l \in Loops :
              /\ watched'[l] = watched[l] \ {fd[k]}
              /\ \A f \in Fds : f # fd[k] => (f \in listed'[l] <=> f \in listed[l])
    BY <1>1, <1>5, DeleteFacts
  <2> QED
    BY <1>2, <1>3, <1>5, <2>1, <2>2, <2>3, LeaveKeeps DEF Goto
<1> QED
  BY <1>4, <1>5 DEF RunConnected

LEMMA RefusedKeeps ==
    ASSUME DescInv, NEW k \in Sockets, RunRefused(k)
    PROVE  DescInv'
<1>1. /\ Runs(k, "OUT", "connecting") /\ "OUT" \in Events /\ Goto(k, "idle")
      /\ left' = [left EXCEPT ![fd[k]] = mask[fd[k]]] /\ DeleteToEpoll(home[k], fd[k])
      /\ UNCHANGED <<process, main, fresh, thread, started, index, made, kind, home, mask,
                     callback, toAdd, inherited, unheard>>
  BY DEF RunRefused, Events, threadVars, eventVars
<1>2. PICK g \in Free \cup {fd[k]} : fd' = [fd EXCEPT ![k] = g]
  BY DEF RunRefused
<1>3. fd[k] # NoFd /\ fd[k] \in Fds /\ \A l \in Loops : fd[k] \notin toAdd[l]
  BY <1>1, RunsFacts
<1>4. /\ listed' \in [Loops -> SUBSET Fds] /\ watched' \in [Loops -> SUBSET Fds]
      /\ \A l \in Loops :
            /\ watched'[l] = watched[l] \ {fd[k]}
            /\ \A f \in Fds : f # fd[k] => (f \in listed'[l] <=> f \in listed[l])
  BY <1>1, DeleteFacts
<1>5. /\ mask' \in [Fds -> SUBSET Events] /\ left' \in [Fds -> SUBSET Events]
      /\ callback' \in [Fds -> [Events -> Sockets \cup {Nobody}]]
  BY <1>1, <1>3 DEF DescInv, TypeOK
<1>6. EventsInv'
  <2> SUFFICES ASSUME NEW f \in Fds, NEW e \in mask[f]
               PROVE  callback[f][e] \in Holders(f)' \/ e \in left'[f]
    BY <1>1 DEF EventsInv
  <2>1. CASE f = fd[k]
    BY <1>1, <2>1 DEF DescInv, TypeOK
  <2>2. CASE f # fd[k]
    <3>1. left'[f] = left[f]
      BY <1>1, <2>2 DEF DescInv, TypeOK
    <3>2. Holders(f) \subseteq Holders(f)'
      BY <1>2, <2>2 DEF Holders, DescInv, TypeOK
    <3> QED
      BY <3>1, <3>2 DEF DescInv, EventsInv
  <2> QED
    BY <2>1, <2>2
<1> QED
  BY <1>1, <1>2, <1>3, <1>4, <1>5, <1>6, LeaveKeeps DEF Goto

LEMMA ClientWriteKeeps ==
    ASSUME DescInv, NEW k \in Sockets, RunClientWrite(k)
    PROVE  DescInv'
<1>1. /\ Runs(k, "OUT", "writing") /\ "OUT" \in Events /\ Goto(k, "reading")
      /\ \E events \in {{"IN"}, {"IN", "OUT"}} : mask' = [mask EXCEPT ![fd[k]] = events]
      /\ callback' = [callback EXCEPT ![fd[k]]["IN"] = k]
      /\ AddToEpoll(home[k], fd[k])
      /\ UNCHANGED <<process, main, fresh, thread, started, index, made, kind, home, fd,
                     toAdd, left, inherited, unheard>>
  BY DEF RunClientWrite, Events, threadVars, historyVars
<1>2. /\ home[k] \in Loops /\ fd[k] \in Fds /\ fd[k] \in listed[home[k]] /\ phase[k] # "idle"
      /\ \A l \in Loops : fd[k] \notin toAdd[l]
  BY <1>1, RunsFacts
<1>o. callback[fd[k]]["OUT"] = k
  BY <1>1 DEF Runs
<1>3. listed' = listed /\ watched' = watched
  BY <1>1, <1>2, AddAgainChangesNothing
<1>4. /\ mask' \in [Fds -> SUBSET Events]
      /\ callback' \in [Fds -> [Events -> Sockets \cup {Nobody}]]
  BY <1>1, <1>2 DEF DescInv, TypeOK, Events
<1>5. EventsInv'
  <2> SUFFICES ASSUME NEW f \in Fds, NEW e \in mask'[f]
               PROVE  callback'[f][e] \in Holders(f) \/ e \in left[f]
    BY <1>1 DEF EventsInv, Holders
  <2>1. CASE f = fd[k]
    <3>1. e \in {"IN", "OUT"}
      BY <1>1, <2>1 DEF DescInv, TypeOK
    <3>2. callback'[f][e] = k
      BY <1>1, <1>o, <2>1, <3>1 DEF DescInv, TypeOK, Events
    <3> QED
      BY <2>1, <3>2 DEF Holders
  <2>2. CASE f # fd[k]
    <3>1. e \in mask[f] /\ callback'[f][e] = callback[f][e]
      BY <1>1, <2>2 DEF DescInv, TypeOK
    <3> QED
      BY <3>1 DEF DescInv, EventsInv
  <2> QED
    BY <2>1, <2>2
<1>6. /\ phase' \in [Sockets -> {"idle", "connecting", "writing", "reading", "serving"}]
      /\ \A j \in Sockets : j # k => phase'[j] = phase[j]
  BY <1>1 DEF Goto, DescInv, TypeOK
<1> QED
  BY <1>1, <1>2, <1>3, <1>4, <1>5, <1>6, StayKeeps

LEMMA ServerKeeps ==
    ASSUME DescInv, NEW k \in Sockets, RunServerRead(k) \/ RunWritten(k)
    PROVE  DescInv'
<1>1. PICK e \in Events, waits \in {"serving", "reading"} : Runs(k, e, waits)
  BY DEF RunServerRead, RunWritten, Events
<1>2. /\ AddToEpoll(home[k], fd[k])
      /\ UNCHANGED <<process, main, fresh, thread, started, index, made, kind, home, fd,
                     phase, toAdd, left, inherited, unheard>>
  BY DEF RunServerRead, RunWritten, threadVars, socketVars, historyVars
<1>3. /\ home[k] \in Loops /\ fd[k] \in Fds /\ fd[k] \in listed[home[k]] /\ phase[k] # "idle"
      /\ \A l \in Loops : fd[k] \notin toAdd[l]
  BY <1>1, RunsFacts
<1>4. listed' = listed /\ watched' = watched
  BY <1>2, <1>3, AddAgainChangesNothing
<1>5. \/ Listen(fd[k], "OUT", k)
      \/ mask' = [mask EXCEPT ![fd[k]] = @ \ {"OUT"}] /\ UNCHANGED callback
  BY DEF RunServerRead, RunWritten
<1>6. /\ mask' \in [Fds -> SUBSET Events]
      /\ callback' \in [Fds -> [Events -> Sockets \cup {Nobody}]]
  <2>1. CASE Listen(fd[k], "OUT", k)
    <3>1. mask' \in [Fds -> SUBSET Events]
      BY <1>3, <2>1 DEF Listen, DescInv, TypeOK, Events
    <3>2. callback' \in [Fds -> [Events -> Sockets \cup {Nobody}]]
      BY <1>3, <2>1 DEF Listen, DescInv, TypeOK, Events
    <3> QED
      BY <3>1, <3>2
  <2>2. CASE mask' = [mask EXCEPT ![fd[k]] = @ \ {"OUT"}] /\ UNCHANGED callback
    BY <1>3, <2>2 DEF DescInv, TypeOK
  <2> QED
    BY <1>5, <2>1, <2>2
<1>7. \A f \in Fds : \A d \in mask'[f] :
          \/ d \in mask[f] /\ callback'[f][d] = callback[f][d]
          \/ f = fd[k] /\ callback'[f][d] = k
  BY <1>3, <1>5 DEF Listen, DescInv, TypeOK, Events
<1>8. EventsInv'
  BY <1>2, <1>7 DEF EventsInv, DescInv, Holders
<1>9. phase' \in [Sockets -> {"idle", "connecting", "writing", "reading", "serving"}]
  BY <1>2 DEF DescInv, TypeOK
<1> QED
  BY <1>2, <1>3, <1>4, <1>6, <1>8, <1>9, StayKeeps

LEMMA EndKeeps ==
    ASSUME DescInv, NEW k \in Sockets, RunEnd(k)
    PROVE  DescInv'
<1>1. PICK waits \in {"reading", "serving"} : Runs(k, "IN", waits)
  BY DEF RunEnd
<1>2. /\ "IN" \in Events /\ Goto(k, "idle") /\ mask' = [mask EXCEPT ![fd[k]] = {}]
      /\ DeleteToEpoll(home[k], fd[k])
      /\ UNCHANGED <<process, main, fresh, thread, started, index, made, kind, home, fd,
                     callback, toAdd, left, inherited, unheard>>
  BY DEF RunEnd, Events, threadVars, historyVars
<1>3. fd[k] # NoFd /\ fd[k] \in Fds /\ \A l \in Loops : fd[k] \notin toAdd[l]
  BY <1>1, <1>2, RunsFacts
<1>4. /\ listed' \in [Loops -> SUBSET Fds] /\ watched' \in [Loops -> SUBSET Fds]
      /\ \A l \in Loops :
            /\ watched'[l] = watched[l] \ {fd[k]}
            /\ \A f \in Fds : f # fd[k] => (f \in listed'[l] <=> f \in listed[l])
  BY <1>1, <1>2, DeleteFacts
<1>5. /\ mask' \in [Fds -> SUBSET Events] /\ left' \in [Fds -> SUBSET Events]
      /\ callback' \in [Fds -> [Events -> Sockets \cup {Nobody}]]
      /\ fd' = [fd EXCEPT ![k] = fd[k]]
  BY <1>2, <1>3 DEF DescInv, TypeOK
<1>6. \A f \in Fds : mask'[f] \subseteq mask[f]
  BY <1>2, <1>3 DEF DescInv, TypeOK
<1>7. EventsInv'
  BY <1>2, <1>6 DEF EventsInv, DescInv, Holders
<1> QED
  BY <1>2, <1>3, <1>4, <1>5, <1>7, LeaveKeeps DEF Goto

\* The one place where a waiting socket leaves the epoll set.
LEMMA UnheardKeeps ==
    ASSUME DescInv, NEW k \in Sockets, RunUnheard(k)
    PROVE  DescInv'
<1>1. PICK waits \in {"reading", "serving"} : Runs(k, "IN", waits)
  BY DEF RunUnheard
<1>2. /\ "IN" \in Events /\ DeleteToEpoll(home[k], fd[k]) /\ unheard' = unheard \cup {k}
      /\ UNCHANGED <<process, main, fresh, thread, started, index, made, kind, home, fd,
                     phase, mask, callback, toAdd, left, inherited>>
  BY DEF RunUnheard, Events, threadVars, socketVars, eventVars
<1>3. /\ fd[k] \in Fds /\ phase[k] # "idle" /\ home[k] \in Loops
      /\ \A l \in Loops : fd[k] \notin toAdd[l]
      /\ \A j \in Sockets : j # k => fd[j] # fd[k]
  BY <1>1, <1>2, RunsFacts
<1>4. /\ listed' \in [Loops -> SUBSET Fds] /\ watched' \in [Loops -> SUBSET Fds]
      /\ \A l \in Loops :
            /\ watched'[l] = watched[l] \ {fd[k]}
            /\ \A f \in Fds : f # fd[k] => (f \in listed'[l] <=> f \in listed[l])
  BY <1>1, <1>2, DeleteFacts
<1>5. WatchedAtHome'
  <2> SUFFICES ASSUME NEW m \in Loops, NEW f \in watched'[m]
               PROVE  f \in listed'[m] /\ \E j \in Sockets : fd[j] = f /\ home[j] = m
    BY <1>2 DEF WatchedAtHome
  <2>1. f \in watched[m] /\ f # fd[k] /\ f \in Fds
    BY <1>4 DEF DescInv, TypeOK
  <2> QED
    BY <1>4, <2>1 DEF DescInv, TypeOK, WatchedAtHome
<1>6. TypeOK'
  BY <1>2, <1>4, <1>5 DEF DescInv, TypeOK
<1>7. NumbersInv'
  BY <1>2, <1>3 DEF DescInv, NumbersInv
<1>8. AddsInv'
  <2> SUFFICES ASSUME NEW m \in Loops, NEW f \in toAdd[m]
               PROVE  \E j \in Sockets : Coming(m, f, j)'
    BY <1>2 DEF AddsInv
  <2>1. PICK j \in Sockets : Coming(m, f, j)
    BY DEF DescInv, AddsInv
  <2>2. f # fd[k] /\ f \in Fds /\ j # k
    BY <1>3, <2>1 DEF DescInv, TypeOK, Coming
  <2> QED
    BY <1>2, <1>4, <2>1, <2>2 DEF Coming
<1>9. WaitingIsWatched'
  <2> SUFFICES ASSUME NEW j \in Sockets, phase[j] # "idle", fd[j] \notin toAdd[home[j]]
               PROVE  fd[j] \in watched'[home[j]] <=> j \notin inherited \cup unheard'
    BY <1>2 DEF WaitingIsWatched
  <2>1. CASE j = k
    BY <1>2, <1>3, <1>4, <2>1
  <2>2. CASE j # k
    <3>1. home[j] \in Loops /\ fd[j] # fd[k]
      BY <1>3, <2>2 DEF DescInv, TypeOK
    <3>2. fd[j] \in watched[home[j]] <=> j \notin inherited \cup unheard
      BY DEF DescInv, WaitingIsWatched
    <3> QED
      BY <1>2, <1>4, <2>2, <3>1, <3>2
  <2> QED
    BY <2>1, <2>2
<1>10. EventsInv'
  BY <1>2 DEF EventsInv, DescInv, Holders
<1> QED
  BY <1>6, <1>7, <1>8, <1>9, <1>10 DEF DescInv

LEMMA NextKeeps == DescInv /\ [Next]_vars => DescInv'
<1> SUFFICES ASSUME DescInv, [Next]_vars PROVE DescInv'
  OBVIOUS
<1>1. CASE StartGroup \/ SetConnected
  BY <1>1, ThreadsKeep DEF StartGroup, SetConnected, DescInv, TypeOK
<1>2. CASE Accept
  BY <1>2, AcceptKeeps
<1>3. ASSUME NEW l \in Loops, CreateThread(l) \/ ThreadReady(l) \/ ThreadLoops(l)
      PROVE  DescInv'
  <2>1. /\ UNCHANGED <<process, main, fresh, started, index, socketVars, eventVars, epollVars,
                       toAdd, historyVars>>
        /\ thread' \in [Loops -> {"none", "starting", "waiting", "looping"}]
    BY <1>3 DEF CreateThread, ThreadReady, ThreadLoops, DescInv, TypeOK
  <2> QED
    BY <2>1, ThreadsKeep DEF DescInv, TypeOK
<1>4. ASSUME NEW l \in Loops, RunAdd(l) \/ NewClient(l) PROVE DescInv'
  BY <1>4, RunAddKeeps, NewClientKeeps
<1>5. ASSUME NEW l \in Loops, NEW f \in Fds, NEW e \in Events, RunForeign(l, f, e)
      PROVE  DescInv'
  BY <1>5, ThreadsKeep DEF RunForeign, threadVars, DescInv, TypeOK
<1>b. ASSUME NEW k \in Sockets, RunBroken(k) PROVE DescInv'
  BY <1>b, ThreadsKeep DEF RunBroken, threadVars, DescInv, TypeOK
<1>6. ASSUME NEW k \in Sockets, DestroyClient(k) \/ Callback(k) PROVE DescInv'
  BY <1>6, <1>b, DestroyKeeps, ConnectedKeeps, RefusedKeeps, ClientWriteKeeps, ServerKeeps,
     EndKeeps, UnheardKeeps DEF Callback
<1>7. CASE UNCHANGED vars
  BY <1>7, ThreadsKeep DEF vars, threadVars, DescInv, TypeOK
<1> QED
  BY <1>1, <1>2, <1>3, <1>4, <1>5, <1>6, <1>7 DEF Next, ThreadStep

-----------------------------------------------------------------------------
(* The theorems.                                                           *)

\* The types of the state hold, and with them WatchedAtHome: whatever numbers
\* clients close in one thread and accept gives away in another, a number is in
\* the epoll set of its socket's loop only, and never without the shadow.
THEOREM DescriptorsTypeCorrect == Spec => []TypeOK
<1>1. DescInv => TypeOK
  BY DEF DescInv
<1> QED
  BY <1>1, InitDesc, NextKeeps, PTL DEF Spec

\* A waiting socket whose add has been done is in the epoll set of its loop,
\* unless it inherited a number that the loop's m_listen_fds still had, or an error
\* took it out before setState or under a client's last bytes; and then it is not.
THEOREM WaitersAreWatched == Spec => []WaitingIsWatched
<1>1. DescInv => WaitingIsWatched
  BY DEF DescInv
<1> QED
  BY <1>1, InitDesc, NextKeeps, PTL DEF Spec

\* An event of a watched number leads to the callback of its holder, or was left
\* in the mask by a client that closed the number while it waited.
THEOREM ForeignWasLeft == Spec => []ForeignOnlyIfLeft
<1>1. DescInv => ForeignOnlyIfLeft
  BY DEF DescInv, TypeOK, EventsInv, ForeignOnlyIfLeft
<1> QED
  BY <1>1, InitDesc, NextKeeps, PTL DEF Spec
=============================================================================
