----------------------------- MODULE Descriptors -----------------------------
(***************************************************************************)
(* What the parts of one server process share: the numbers of its          *)
(* descriptors, the FdEvent that FdEventGroup keeps for each number, the    *)
(* epoll sets of the IO threads and their shadows m_listen_fds. The main   *)
(* thread builds the IOThreadGroup, starts it and hands it accepted        *)
(* connections; services that run in an IO thread call others with a       *)
(* TcpClient of their own (io_thread.cc, io_thread_group.cc, tcp_server.cc, *)
(* tcp_client.cc, tcp_connection.cc, fd_event_group.cc, eventloop.cc).     *)
(*                                                                         *)
(* A callback runs as soon as its event is there: the queues between are   *)
(* the subject of EventLoop, what is read and written that of RpcCall and  *)
(* RpcServer. Of ready sockets and their errors any may come at any time.  *)
(***************************************************************************)
EXTENDS Integers

CONSTANTS
    NumLoops,       \* m_io_thread_groups.size()
    Fds,            \* the numbers that socket and accept can return
    MaxSockets      \* bound: TcpClients and server TcpConnections made

ASSUME DescriptorsAssumption ==
    NumLoops \in Nat \ {0} /\ MaxSockets \in Nat /\ 0 \notin Fds

Loops == 1..NumLoops
Sockets == 1..MaxSockets
Nobody == 0
NoFd == 0
Events == {"IN", "OUT"}

VARIABLES
    process,        \* "up", or why the process is gone
    main,           \* the main thread: "build"s the group, then "serve"s
    fresh,          \* the connection it has made and not yet set Connected
    thread,         \* IO threads: "none", "starting", "waiting", "looping"
    started,        \* IO threads whose start semaphore has been posted
    index,          \* m_index of the group
    made,           \* how many sockets have been made
    kind, home,     \* of each of them: "client" or "server", and its loop
    fd,             \* its m_fd, NoFd once it is closed
    phase,          \* what it waits for: "connecting", "writing", "reading",
                    \* "serving", or "idle", which waits for nothing
    mask,           \* m_listen_events of the FdEvent of each number
    callback,       \* whose callback that FdEvent holds for each event
    listed,         \* m_listen_fds of each loop
    watched,        \* its epoll set, in the kernel
    toAdd,          \* adds that the main thread has posted to it
    left,           \* history: the mask of each number when it was last closed
    inherited,      \* history: sockets given a number that their loop had listed
    unheard         \* history: sockets that an error took out of the epoll set
                    \* while their callback neither ended them nor asked again

threadVars == <<main, fresh, thread, started, index>>
socketVars == <<made, kind, home, fd, phase>>
eventVars == <<mask, callback>>
epollVars == <<listed, watched>>
historyVars == <<left, inherited, unheard>>
vars == <<process, threadVars, socketVars, eventVars, epollVars, toAdd, historyVars>>

\* A number is in one epoll set at most, that of the loop of the socket that has
\* it, and never without that loop's m_listen_fds, however numbers are closed by
\* one thread and given to sockets of another.
WatchedAtHome ==
    \A l \in Loops : \A f \in watched[l] :
        f \in listed[l] /\ \E k \in Sockets : fd[k] = f /\ home[k] = l

TypeOK ==
    /\ process \in {"up", "badNumber", "dangling", "crossed", "sigpipe"}
    /\ main \in {"build", "serve"}
    /\ fresh \in Sockets \cup {Nobody}
    /\ thread \in [Loops -> {"none", "starting", "waiting", "looping"}]
    /\ started \subseteq Loops
    /\ index \in 0..NumLoops
    /\ made \in 0..MaxSockets
    /\ kind \in [Sockets -> {"client", "server"}]
    /\ home \in [Sockets -> Loops]
    /\ fd \in [Sockets -> Fds \cup {NoFd}]
    /\ phase \in [Sockets -> {"idle", "connecting", "writing", "reading", "serving"}]
    /\ mask \in [Fds -> SUBSET Events]
    /\ callback \in [Fds -> [Events -> Sockets \cup {Nobody}]]
    /\ listed \in [Loops -> SUBSET Fds]
    /\ watched \in [Loops -> SUBSET Fds]
    /\ toAdd \in [Loops -> SUBSET Fds]
    /\ left \in [Fds -> SUBSET Events]
    /\ inherited \subseteq Sockets
    /\ unheard \subseteq Sockets
    /\ WatchedAtHome

Init ==
    /\ process = "up"
    /\ main = "build"
    /\ fresh = Nobody
    /\ thread = [l \in Loops |-> "none"]
    /\ started = {}
    /\ index = 0
    /\ made = 0
    /\ kind = [k \in Sockets |-> "client"]
    /\ home = [k \in Sockets |-> 1]
    /\ fd = [k \in Sockets |-> NoFd]
    /\ phase = [k \in Sockets |-> "idle"]
    /\ mask = [f \in Fds |-> {}]
    /\ callback = [f \in Fds |-> [e \in Events |-> Nobody]]
    /\ listed = [l \in Loops |-> {}]
    /\ watched = [l \in Loops |-> {}]
    /\ toAdd = [l \in Loops |-> {}]
    /\ left = [f \in Fds |-> {}]
    /\ inherited = {}
    /\ unheard = {}

-----------------------------------------------------------------------------
(* IOThreadGroup and IOThread.                                             *)

\* The constructor of IOThread waits for the new thread to have its EventLoop.
CreateThread(l) ==
    /\ main = "build"
    /\ thread[l] = "none"
    /\ \A m \in Loops : thread[m] # "starting" /\ (m < l => thread[m] # "none")
    /\ thread' = [thread EXCEPT ![l] = "starting"]
    /\ UNCHANGED <<process, main, fresh, started, index, socketVars, eventVars, epollVars,
                   toAdd, historyVars>>

ThreadReady(l) ==
    /\ thread[l] = "starting"
    /\ thread' = [thread EXCEPT ![l] = "waiting"]
    /\ UNCHANGED <<process, main, fresh, started, index, socketVars, eventVars, epollVars,
                   toAdd, historyVars>>

\* Mutant of StartGroup: the loop over the threads ends one too early.
StartGroupShort ==
    /\ main = "build"
    /\ \A l \in Loops : thread[l] \in {"waiting", "looping"}
    /\ started' = Loops \ {NumLoops}
    /\ main' = "serve"
    /\ UNCHANGED <<process, fresh, thread, index, socketVars, eventVars, epollVars,
                   toAdd, historyVars>>

StartGroup ==
    /\ main = "build"
    /\ \A l \in Loops : thread[l] = "waiting"
    /\ started' = Loops
    /\ main' = "serve"
    /\ UNCHANGED <<process, fresh, thread, index, socketVars, eventVars, epollVars,
                   toAdd, historyVars>>

ThreadLoops(l) ==
    /\ thread[l] = "waiting"
    /\ l \in started
    /\ thread' = [thread EXCEPT ![l] = "looping"]
    /\ UNCHANGED <<process, main, fresh, started, index, socketVars, eventVars, epollVars,
                   toAdd, historyVars>>

-----------------------------------------------------------------------------
(* FdEvent, and the macros of eventloop.cc.                                *)

\* Mutant of Listen: a callback that is already there is not replaced.
ListenKeep(f, e, k) ==
    /\ mask' = [mask EXCEPT ![f] = @ \cup {e}]
    /\ callback' = [callback EXCEPT ![f][e] = IF @ = Nobody THEN k ELSE @]

Listen(f, e, k) ==
    /\ mask' = [mask EXCEPT ![f] = @ \cup {e}]
    /\ callback' = [callback EXCEPT ![f][e] = k]

\* Mutant of AddToEpoll: the shadow is not told.
AddUnlisted(l, f) ==
    /\ listed' = listed
    /\ watched' = IF f \in listed[l] THEN watched
                  ELSE [watched EXCEPT ![l] = @ \cup {f}]

\* ADD_TO_EPOLL: for a number in the shadow EPOLL_CTL_MOD, which fails if the
\* kernel does not know the number; the shadow has it afterwards either way.
AddToEpoll(l, f) ==
    /\ listed' = [listed EXCEPT ![l] = @ \cup {f}]
    /\ watched' = IF f \in listed[l] THEN watched
                  ELSE [watched EXCEPT ![l] = @ \cup {f}]

DeleteToEpoll(l, f) ==
    /\ listed' = [listed EXCEPT ![l] = @ \ {f}]
    /\ watched' = [watched EXCEPT ![l] = @ \ {f}]

Holders(f) == {k \in Sockets : fd[k] = f}
Free == {f \in Fds : Holders(f) = {}}

\* Socket k is made with the number f, for loop l.
Make(k, what, l, f, waits) ==
    /\ made < MaxSockets
    /\ k = made + 1
    /\ made' = k
    /\ kind' = [kind EXCEPT ![k] = what]
    /\ home' = [home EXCEPT ![k] = l]
    /\ fd' = [fd EXCEPT ![k] = f]
    /\ phase' = [phase EXCEPT ![k] = waits]
    /\ inherited' = IF f \in listed[l] THEN inherited \cup {k} ELSE inherited

-----------------------------------------------------------------------------
(* The main thread: TcpServer::onAccept.                                   *)

NextThread == IF index = NumLoops THEN 1 ELSE index + 1

\* getIOThread, and the constructor of TcpConnection: the FdEvent listens at
\* once, and the add is posted to the thread. Without a free number accept
\* returns -1, and getFdEvent reads in front of its array.
Accept ==
    /\ main = "serve"
    /\ fresh = Nobody
    /\ index' = NextThread
    /\ \/ \E k \in Sockets : \E f \in Free :
            /\ Make(k, "server", NextThread, f, "serving")
            /\ fresh' = k
            /\ Listen(f, "IN", k)
            /\ toAdd' = [toAdd EXCEPT ![NextThread] = @ \cup {f}]
            /\ UNCHANGED <<process, left, unheard>>
       \/ /\ Free = {} /\ process' = "badNumber"
          /\ UNCHANGED <<fresh, socketVars, eventVars, toAdd, historyVars>>
    /\ UNCHANGED <<main, thread, started, epollVars>>

\* setState: until then onRead and onWrite return with an error.
SetConnected ==
    /\ fresh # Nobody
    /\ fresh' = Nobody
    /\ UNCHANGED <<process, main, thread, started, index, socketVars, eventVars,
                   epollVars, toAdd, historyVars>>

-----------------------------------------------------------------------------
(* An IO thread: its tasks, the calls that services make, its callbacks.   *)

RunAdd(l) ==
    /\ thread[l] = "looping"
    /\ \E f \in toAdd[l] :
          /\ AddToEpoll(l, f)
          /\ toAdd' = [toAdd EXCEPT ![l] = @ \ {f}]
    /\ UNCHANGED <<process, threadVars, socketVars, eventVars, historyVars>>

\* The constructor of TcpClient and its connect: in progress, established, or
\* refused at once. Without a number there is no m_connection to ask.
NewClient(l) ==
    /\ thread[l] = "looping"
    /\ \/ \E k \in Sockets : \E f \in Free : \E waits \in {"connecting", "writing", "idle"} :
            /\ Make(k, "client", l, f, waits)
            /\ IF waits = "idle" THEN UNCHANGED <<eventVars, epollVars>>
               ELSE Listen(f, "OUT", k) /\ AddToEpoll(l, f)
            /\ UNCHANGED <<process, left, unheard>>
       \/ /\ Free = {} /\ process' = "badNumber"
          /\ UNCHANGED <<socketVars, eventVars, epollVars, historyVars>>
    /\ UNCHANGED <<threadVars, toAdd>>

\* The number f is closed; the kernel forgets it in every epoll set.
CloseNumber(f) ==
    /\ watched' = [l \in Loops |-> watched[l] \ {f}]
    /\ left' = [left EXCEPT ![f] = mask[f]]

\* The timeout of the call gives up the TcpClient, whatever it waits for.
DestroyClient(k) ==
    /\ kind[k] = "client"
    /\ fd[k] # NoFd
    /\ fd' = [fd EXCEPT ![k] = NoFd]
    /\ phase' = [phase EXCEPT ![k] = "idle"]
    /\ CloseNumber(fd[k])
    /\ UNCHANGED <<process, threadVars, made, kind, home, eventVars, listed, toAdd,
                   inherited, unheard>>

\* Loop l meets the event e of the number f.
Fires(l, f, e) == thread[l] = "looping" /\ f \in watched[l] /\ e \in mask[f]

\* The callback is that of somebody who had the number before: its object is
\* gone, or lives in another thread.
RunForeign(l, f, e) ==
    /\ Fires(l, f, e)
    /\ callback[f][e] \notin Holders(f)
    /\ process' = IF fd[callback[f][e]] = NoFd THEN "dangling" ELSE "crossed"
    /\ UNCHANGED <<threadVars, socketVars, eventVars, epollVars, toAdd, historyVars>>

\* The callback e of k, the holder of the number, runs.
Runs(k, e, waits) ==
    /\ fd[k] # NoFd
    /\ Fires(home[k], fd[k], e)
    /\ callback[fd[k]][e] = k
    /\ phase[k] = waits

Goto(k, waits) == phase' = [phase EXCEPT ![k] = waits]

\* Mutant of RunConnected: the number is taken out after the message is written.
RunConnectedSwapped(k) ==
    /\ Runs(k, "OUT", "connecting")
    /\ Goto(k, "writing") \/ Goto(k, "idle")
    /\ DeleteToEpoll(home[k], fd[k])
    /\ UNCHANGED <<process, threadVars, made, kind, home, fd, eventVars, toAdd, historyVars>>

\* connect()'s lambda: connected. It takes the number out of the epoll set, and
\* writeMessage puts it back, unless an earlier attempt has left an error.
RunConnected(k) ==
    /\ Runs(k, "OUT", "connecting")
    /\ \/ Goto(k, "writing") /\ UNCHANGED epollVars
       \/ Goto(k, "idle") /\ DeleteToEpoll(home[k], fd[k])
    /\ UNCHANGED <<process, threadVars, made, kind, home, fd, eventVars, toAdd, historyVars>>

\* It has not: m_fd is closed and replaced, m_fd_event stays that of the number
\* before.
RunRefused(k) ==
    /\ Runs(k, "OUT", "connecting")
    /\ Goto(k, "idle")
    /\ \E g \in Free \cup {fd[k]} : fd' = [fd EXCEPT ![k] = g]
    /\ left' = [left EXCEPT ![fd[k]] = mask[fd[k]]]
    /\ DeleteToEpoll(home[k], fd[k])
    /\ UNCHANGED <<process, threadVars, made, kind, home, eventVars, toAdd, inherited,
                   unheard>>

\* onWrite of a client: OUT is cancelled, unless the kernel took nothing or a part
\* (EAGAIN); readMessage listens for the answer in either case.
RunClientWrite(k) ==
    /\ Runs(k, "OUT", "writing")
    /\ Goto(k, "reading")
    /\ \E events \in {{"IN"}, {"IN", "OUT"}} : mask' = [mask EXCEPT ![fd[k]] = events]
    /\ callback' = [callback EXCEPT ![fd[k]]["IN"] = k]
    /\ AddToEpoll(home[k], fd[k])
    /\ UNCHANGED <<process, threadVars, made, kind, home, fd, toAdd, historyVars>>

\* onWrite of a server, or of a client that writes on: all is taken, OUT is given up.
RunWritten(k) ==
    /\ Runs(k, "OUT", "serving") \/ Runs(k, "OUT", "reading")
    /\ k # fresh
    /\ mask' = [mask EXCEPT ![fd[k]] = @ \ {"OUT"}]
    /\ AddToEpoll(home[k], fd[k])
    /\ UNCHANGED <<process, threadVars, socketVars, callback, toAdd, historyVars>>

\* onRead of a server: excute listens for OUT, whatever it has read.
RunServerRead(k) ==
    /\ Runs(k, "IN", "serving")
    /\ k # fresh
    /\ Listen(fd[k], "OUT", k)
    /\ AddToEpoll(home[k], fd[k])
    /\ UNCHANGED <<process, threadVars, socketVars, toAdd, historyVars>>

\* onRead meets the end: clear(). Nobody closes the number of a server, neither
\* now nor when the main thread deletes the connection.
RunEnd(k) ==
    /\ Runs(k, "IN", "reading") \/ Runs(k, "IN", "serving")
    /\ k # fresh
    /\ Goto(k, "idle")
    /\ mask' = [mask EXCEPT ![fd[k]] = {}]
    /\ DeleteToEpoll(home[k], fd[k])
    /\ UNCHANGED <<process, threadVars, made, kind, home, fd, callback, toAdd, historyVars>>

(* With EPOLLERR the loop takes the number out first, and then the callbacks of *)
(* the events that came with it run. Those above take it out themselves or add  *)
(* it anew, and an error makes no difference to where they leave it.           *)

\* It stays out when onRead does neither: setState has not been called, or a
\* client reads no more than a last part of its answer.
RunUnheard(k) ==
    /\ Runs(k, "IN", "reading") \/ (Runs(k, "IN", "serving") /\ k = fresh)
    /\ DeleteToEpoll(home[k], fd[k])
    /\ unheard' = unheard \cup {k}
    /\ UNCHANGED <<process, threadVars, socketVars, eventVars, toAdd, left, inherited>>

\* onWrite writes again after any error but EAGAIN: SIGPIPE.
RunBroken(k) ==
    /\ \E waits \in {"writing", "reading", "serving"} : Runs(k, "OUT", waits)
    /\ k # fresh
    /\ process' = "sigpipe"
    /\ UNCHANGED <<threadVars, socketVars, eventVars, epollVars, toAdd, historyVars>>

Callback(k) ==
    \/ RunConnected(k) \/ RunRefused(k) \/ RunClientWrite(k)
    \/ RunWritten(k) \/ RunServerRead(k) \/ RunEnd(k)
    \/ RunUnheard(k) \/ RunBroken(k)

-----------------------------------------------------------------------------

ThreadStep(l) ==
    CreateThread(l) \/ ThreadReady(l) \/ ThreadLoops(l) \/ RunAdd(l)

Next ==
    /\ process = "up"
    /\ \/ StartGroup \/ Accept \/ SetConnected
       \/ \E l \in Loops :
             \/ ThreadStep(l) \/ NewClient(l)
             \/ \E f \in Fds : \E e \in Events : RunForeign(l, f, e)
       \/ \E k \in Sockets : DestroyClient(k) \/ Callback(k)

\* The threads run; nobody has to call, to connect or to answer.
Fairness ==
    /\ WF_vars(process = "up" /\ (StartGroup \/ SetConnected))
    /\ \A l \in Loops : WF_vars(process = "up" /\ ThreadStep(l))

Spec == Init /\ [][Next]_vars /\ Fairness

-----------------------------------------------------------------------------
(* Properties.                                                             *)

\* A socket that waits for an event is in the epoll set of its loop, once its add
\* has been done, with two exceptions, for ever and no others. It has inherited a
\* number: then EPOLL_CTL_MOD has failed (eventloop.cc:17), because ~TcpClient
\* closes its number without taking it out of m_listen_fds (tcp_client.cc:33).
\* Or an error has taken it out (eventloop.cc:159) while onRead returned at once,
\* setState being still to come (tcp_server.cc:62), or read a client's last bytes.
WaitingIsWatched ==
    \A k \in Sockets :
        (phase[k] # "idle" /\ fd[k] \notin toAdd[home[k]]) =>
            (fd[k] \in watched[home[k]] <=> k \notin inherited \cup unheard)

\* The callback that an event of a watched number leads to is that of the socket
\* that has the number, unless the event was left in the FdEvent's mask by a
\* client that gave the number up while it waited (fd_event_group.cc:33).
ForeignOnlyIfLeft ==
    \A l \in Loops : \A f \in watched[l] : \A e \in mask[f] :
        callback[f][e] \in Holders(f) \/ e \in left[f]

\* An accepted connection comes to be watched by the IO thread that it was given
\* to, which has been created, started and loops by then, unless it inherited its
\* number, an error was met before setState, or it is closed.
AcceptedIsWatched ==
    \A k \in Sockets :
        phase[k] = "serving" ~>
            \/ phase[k] = "idle" \/ k \in inherited \cup unheard \/ process # "up"
            \/ fd[k] \in watched[home[k]]
=============================================================================
