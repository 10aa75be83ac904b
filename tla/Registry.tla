------------------------------- MODULE Registry -------------------------------
(***************************************************************************)
(* How servers publish their services: RpcDispatcher::registerService      *)
(* (rpc_dispatcher.cc) and the ZkClient it uses (zookeeperuitl.cc), in     *)
(* several server processes that offer the same services. ZooKeeper, its   *)
(* client library and the network are the environment: sessions connect,   *)
(* lose their connection and expire, and an expired or closed session      *)
(* takes its ephemeral nodes with it.                                      *)
(***************************************************************************)
EXTENDS Naturals, FiniteSets

CONSTANTS
    Servers,        \* server processes, which come back as themselves
    NumServices,    \* each calls registerService for services 1..NumServices
    MaxSessions,    \* bound: sessions opened by all servers together
    MaxCuts,        \* bound: sessions that lose their connection
    Permanent,      \* holds the nodes that no session takes with it
    NoNode          \* holds what is not there

\* A service is a permanent node, and its methods, one here, ephemeral nodes
\* below it. m_service_map is ordered, so that this is the order of creation.
Services == 1..NumServices
Paths == [kind : {"service", "method"}, of : Services]
PathAt(i) == [kind |-> IF i % 2 = 1 THEN "service" ELSE "method", of |-> (i + 1) \div 2]

Sessions == Servers \X (1..MaxSessions)

ASSUME RegistryAssumption ==
    /\ IsFiniteSet(Servers) /\ Servers # {}
    /\ NumServices \in Nat \ {0}
    /\ MaxSessions \in Nat
    /\ NoNode # Permanent
    /\ {NoNode, Permanent} \cap Sessions = {}

VARIABLES
    pc,         \* where the main thread of each server is
    round,      \* calls of registerService begun by this process
    at,         \* the path that Create is working on, as an index
    opened,     \* sessions this server has opened; the last one is m_zhandle's
    sem,        \* the semaphore on the stack of Start has been posted
    link,       \* what each session is: "none", "connecting", "connected",
                \* "lost" (until it reconnects or expires) or "gone"
    node,       \* the tree: who holds each path, NoNode, Permanent or a session
    cut,        \* history: the sessions that have lost their connection
    dropped,    \* history: of the paths that each server has passed on its way,
                \* those that have gone with a session since
    overlooked  \* history: and those that it passed, without a connection, while
                \* nobody had made them; in both until somebody does

serverVars == <<pc, round, at, opened, sem>>
historyVars == <<cut, dropped, overlooked>>
vars == <<serverVars, link, node, historyVars>>

Alive == {"init", "wait", "exists", "create", "next", "serving"}

TypeOK ==
    /\ pc \in [Servers -> Alive \cup {"down", "exited", "crashed"}]
    /\ round \in [Servers -> 0..NumServices]
    /\ at \in [Servers -> 1..2 * NumServices + 1]
    /\ opened \in [Servers -> 0..MaxSessions]
    /\ \A s \in Servers : round[s] <= opened[s]
    /\ sem \in [Servers -> BOOLEAN]
    /\ link \in [Sessions -> {"none", "connecting", "connected", "lost", "gone"}]
    /\ node \in [Paths -> {NoNode, Permanent} \cup Sessions]
    /\ \A p \in Paths : node[p] = Permanent => p.kind = "service"
    /\ \A p \in Paths : node[p] \in Sessions =>
           p.kind = "method" /\ link[node[p]] \in {"connected", "lost"}
    /\ cut \subseteq Sessions
    /\ dropped \in [Servers -> SUBSET Paths]
    /\ overlooked \in [Servers -> SUBSET Paths]

Init ==
    /\ pc = [s \in Servers |-> "down"]
    /\ round = [s \in Servers |-> 0]
    /\ at = [s \in Servers |-> 1]
    /\ opened = [s \in Servers |-> 0]
    /\ sem = [s \in Servers |-> FALSE]
    /\ link = [h \in Sessions |-> "none"]
    /\ node = [p \in Paths |-> NoNode]
    /\ cut = {}
    /\ dropped = [s \in Servers |-> {}]
    /\ overlooked = [s \in Servers |-> {}]

-----------------------------------------------------------------------------
(* ZkClient and registerService, in the main thread of server s.           *)

Handle(s) == <<s, opened[s]>>
Connected(s) == link[Handle(s)] = "connected"
Path(s) == PathAt(at[s])
Passed(s) == {PathAt(i) : i \in 1..at[s] - 1}
Missing(p) == node[p] = NoNode

\* The sessions of the process that s is now: one for each round.
Own(s) == {s} \X (opened[s] - round[s] + 1..opened[s])

Goto(s, label) == pc' = [pc EXCEPT ![s] = label]

RoomForOne == Cardinality({h \in Sessions : link[h] # "none"}) < MaxSessions

\* registerService calls Start, which overwrites m_zhandle: a later call leaves
\* the first session open, and nobody closes it any more.
Start(s) ==
    /\ pc[s] \notin Alive \/ pc[s] = "next"
    /\ RoomForOne
    /\ round' = [round EXCEPT ![s] = IF pc[s] = "next" THEN @ + 1 ELSE 1]
    /\ opened' = [opened EXCEPT ![s] = @ + 1]
    /\ link' = [link EXCEPT ![<<s, opened[s] + 1>>] = "connecting"]
    /\ Goto(s, "init")
    /\ UNCHANGED <<at, sem, node, historyVars>>

\* zoo_set_context, after zookeeper_init has started the library's threads.
SetContext(s) ==
    /\ pc[s] = "init"
    /\ Goto(s, "wait")
    /\ UNCHANGED <<round, at, opened, sem, link, node, historyVars>>

\* sem_wait returns, and Create goes over m_service_map from its beginning.
StartReturns(s) ==
    /\ pc[s] = "wait"
    /\ sem[s]
    /\ sem' = [sem EXCEPT ![s] = FALSE]
    /\ at' = [at EXCEPT ![s] = 1]
    /\ dropped' = [dropped EXCEPT ![s] = {}]
    /\ overlooked' = [overlooked EXCEPT ![s] = {}]
    /\ Goto(s, "exists")
    /\ UNCHANGED <<round, opened, link, node, cut>>

\* Mutant of NextPlace: the last path of the round is left out.
NextPlaceShort(s) ==
    IF at[s] + 1 < 2 * round[s] THEN "exists"
    ELSE IF round[s] < NumServices THEN "next" ELSE "serving"

\* On to the next path of the services that this process has registered so far.
NextPlace(s) ==
    IF at[s] < 2 * round[s] THEN "exists"
    ELSE IF round[s] < NumServices THEN "next" ELSE "serving"

Advance(s) ==
    /\ at' = [at EXCEPT ![s] = @ + 1]
    /\ Goto(s, NextPlace(s))
    /\ UNCHANGED <<round, sem>>

\* Mutant of Exists: created without asking first.
ExistsBlind(s) ==
    /\ pc[s] = "exists"
    /\ Goto(s, "create")
    /\ UNCHANGED <<round, at, opened, sem, link, node, historyVars>>

\* zoo_exists: only ZNONODE leads to a creation. Every other result counts as a
\* node that is there, that of a lost connection too.
Exists(s) ==
    /\ pc[s] = "exists"
    /\ IF Connected(s) /\ Missing(Path(s))
         THEN Goto(s, "create") /\ UNCHANGED <<at, round, sem, overlooked>>
         ELSE /\ Advance(s)
              /\ overlooked' = [overlooked EXCEPT ![s] =
                                  @ \cup {p \in {Path(s)} : Missing(p)}]
    /\ UNCHANGED <<opened, link, node, cut, dropped>>

\* ZooKeeper drops the ephemeral nodes of a session that is closed or expired.
Drop(h) ==
    LET taken == {p \in Paths : node[p] = h} IN
    /\ node' = [p \in Paths |-> IF p \in taken THEN NoNode ELSE node[p]]
    /\ dropped' = [s \in Servers |-> dropped[s] \cup (taken \cap Passed(s))]
    /\ UNCHANGED overlooked

\* A process is gone. ZooKeeper keeps the sessions that nobody has closed until
\* they time out.
Gone(s, how) ==
    /\ Goto(s, how)
    /\ round' = [round EXCEPT ![s] = 0]
    /\ at' = [at EXCEPT ![s] = 1]
    /\ sem' = [sem EXCEPT ![s] = FALSE]

Abandon(s, closed) ==
    link' = [h \in Sessions |->
               IF h \in closed THEN "gone"
               ELSE IF h \in Own(s) /\ link[h] \in {"connecting", "connected"} THEN "lost"
               ELSE link[h]]

HasParent(p) == p.kind = "method" => ~Missing([kind |-> "service", of |-> p.of])
Creatable(s) == Missing(Path(s)) /\ HasParent(Path(s))

\* The path is missed no more.
Known(p) ==
    /\ dropped' = [s \in Servers |-> dropped[s] \ {p}]
    /\ overlooked' = [s \in Servers |-> overlooked[s] \ {p}]

\* Mutant of Make: the state of Create left at its default for the methods too.
MakePermanent(s) ==
    /\ node' = [node EXCEPT ![Path(s)] = Permanent]
    /\ Known(Path(s))

Make(s) ==
    /\ node' = [node EXCEPT ![Path(s)] = IF Path(s).kind = "method" THEN Handle(s)
                                         ELSE Permanent]
    /\ Known(Path(s))

\* zoo_create makes the node, or fails: somebody has made it since zoo_exists,
\* or the connection is lost, with the request carried out or not. On any error
\* the process calls exit(), which runs ~ZkClient, and that closes the last
\* session, if it is connected, and no other.
Create(s) ==
    /\ pc[s] = "create"
    /\ \/ Connected(s) /\ Creatable(s) /\ Make(s) /\ Advance(s) /\ UNCHANGED link
       \/ /\ Connected(s) /\ ~Creatable(s)
          /\ Gone(s, "exited") /\ Abandon(s, {Handle(s)}) /\ Drop(Handle(s))
       \/ /\ ~Connected(s)
          /\ Gone(s, "exited") /\ Abandon(s, {})
          /\ \/ UNCHANGED <<node, dropped, overlooked>>
             \/ link[Handle(s)] = "lost" /\ Creatable(s) /\ Make(s)
    /\ UNCHANGED <<opened, cut>>

MainThread(s) == Start(s) \/ SetContext(s) \/ StartReturns(s) \/ Exists(s) \/ Create(s)

-----------------------------------------------------------------------------
(* The library's threads, ZooKeeper and the network.                       *)

WaitedFor(h, s) == h = Handle(s) /\ pc[s] = "wait"

\* Mutant of Watch: an event that comes before the context is set is dropped.
WatchLate(h, s) ==
    /\ sem' = [sem EXCEPT ![s] = @ \/ WaitedFor(h, s)]
    /\ link' = [link EXCEPT ![h] = "connected"]
    /\ UNCHANGED <<pc, round, at>>

\* global_watcher posts the semaphore it finds in the context of the handle h.
\* Before SetContext that is a null pointer. Once its Start has returned it is a
\* place on the stack that this Start has left: a post there does harm or none,
\* or hits the semaphore of the next Start, which is at the same place.
Watch(h, s) ==
    \/ /\ ~(h = Handle(s) /\ pc[s] = "init")
       /\ \/ sem' = [sem EXCEPT ![s] = @ \/ WaitedFor(h, s)]
          \/ /\ h # Handle(s) /\ pc[s] \in {"init", "wait"}
             /\ sem' = [sem EXCEPT ![s] = TRUE]
       /\ link' = [link EXCEPT ![h] = "connected"]
       /\ UNCHANGED <<pc, round, at>>
    \/ ~WaitedFor(h, s) /\ Gone(s, "crashed") /\ Abandon(s, {})

\* A session connects, for the first time or again.
Connect(h) ==
    /\ link[h] \in {"connecting", "lost"}
    /\ \E s \in Servers : pc[s] \in Alive /\ h \in Own(s) /\ Watch(h, s)
    /\ UNCHANGED <<opened, node, historyVars>>

LoseConnection(h) ==
    /\ link[h] = "connected"
    /\ Cardinality(cut) < MaxCuts
    /\ link' = [link EXCEPT ![h] = "lost"]
    /\ cut' = cut \cup {h}
    /\ UNCHANGED <<serverVars, node, dropped, overlooked>>

\* The 30 s of the session are over. Its process is not told: the watcher looks
\* at connections only.
Expire(h) ==
    /\ link[h] = "lost"
    /\ link' = [link EXCEPT ![h] = "gone"]
    /\ Drop(h)
    /\ UNCHANGED <<serverVars, cut>>

\* The process dies of something else. It may be started again.
Die(s) ==
    /\ pc[s] \in Alive
    /\ Gone(s, "down")
    /\ Abandon(s, {})
    /\ UNCHANGED <<opened, node, historyVars>>

Environment ==
    \/ \E h \in Sessions : Connect(h) \/ LoseConnection(h) \/ Expire(h)
    \/ \E s \in Servers : Die(s)

-----------------------------------------------------------------------------

Next == Environment \/ \E s \in Servers : MainThread(s)

\* The threads of a process run, and ZooKeeper can be reached some day.
Fairness ==
    /\ \A s \in Servers : WF_vars(MainThread(s) /\ pc[s] \in Alive)
    /\ \A h \in Sessions : WF_vars(Connect(h))

Spec == Init /\ [][Next]_vars /\ Fairness

-----------------------------------------------------------------------------
(* Properties.                                                             *)

\* Servers that race for the same paths do not put each other out: zoo_exists and
\* zoo_create are two steps (zookeeperuitl.cc:68-72), and whoever finds that a
\* path has appeared between them exits, but as long as no connection is lost
\* there is one that has not.
NotAllExit == cut = {} => \E s \in Servers : pc[s] # "exited"

\* A server that has registered all its services is found, at every path, through
\* its own nodes or another server's. There are two exceptions, which no test has
\* met, and what is not found is one of them: a path that this server passed while
\* it had no connection, because zookeeperuitl.cc:69 takes any error for "exists",
\* and a path whose node, which this server had found or made, has gone with its
\* session; in both cases as long as no server has made the path since.
ServingIsFound ==
    \A s \in Servers : pc[s] = "serving" =>
        \A p \in Paths : Missing(p) <=> p \in dropped[s] \cup overlooked[s]

\* registerService ends: Start does not wait for a semaphore that is never posted,
\* whenever the session connects.
RegistrationEnds ==
    \A s \in Servers :
        pc[s] = "init" ~> (pc[s] \in {"serving", "exited", "crashed", "down"}
                            \/ (pc[s] = "next" /\ ~RoomForOne))
=============================================================================
