------------------------------ MODULE RpcServer ------------------------------
(***************************************************************************)
(* The server's side of its connections: TcpServer (tcp_server.cc), which  *)
(* accepts, keeps and drops them in the main thread, and TcpConnection     *)
(* with RpcDispatcher (tcp_connection.cc, rpc_dispatcher.cc), which run as *)
(* tasks and callbacks of an IO thread's EventLoop. Peers and sockets are  *)
(* the environment.                                                        *)
(*                                                                         *)
(* A request is two pieces of a stream, so that onRead may find half of    *)
(* one. The bytes below that, and a read that fills m_in_buffer, are the   *)
(* subject of TinyPBStream; the queue, the wakeup and the epoll set of the *)
(* loop in detail are that of EventLoop.                                   *)
(***************************************************************************)
EXTENDS Naturals, FiniteSets, Sequences, SequencesExt

CONSTANTS
    Conns,          \* connections that peers may open
    MaxRequests,    \* bound: requests the peer sends on each connection
    MaxShort        \* bound: short writes on one connection

ASSUME ServerAssumption ==
    /\ IsFiniteSet(Conns)
    /\ MaxRequests \in [Conns -> Nat]
    /\ MaxShort \in Nat

\* What dispatch does with a request: "result" if the service ran its closure
\* before it returned, "error" for every way out on which no closure has run.
Outcomes == {"result", "error"}
Replies == [req : Nat, res : Outcomes]

\* A short write leaves the start of a reply on the wire.
Torn == [req |-> 0, res |-> "error"]

Handlers == [op : {"IN", "OUT"}, conn : Conns]
Tasks == Handlers \cup [op : {"add"}, conn : Conns]

VARIABLES
    process,        \* "up", or why the process is gone
    object,         \* the TcpConnection: "none", "made", "kept" in m_client, "deleted"
    state,          \* its m_state
    mask,           \* m_fd_event: the events it listens for
    registered,     \* the connections whose fd is in the epoll set
    loopPc,         \* where the IO thread is in loop()
    pending,        \* m_pending_tasks of its loop
    batch,          \* tmp_tasks of its loop
    peer,           \* the other end: "open", "closed" (it sent FIN) or "reset"
    sent,           \* pieces of requests the peer has sent
    received,       \* pieces that onRead has taken
    full,           \* the socket's send buffer is full
    shorts,         \* short writes so far
    out,            \* the replies in m_out_buffer
    wire            \* history: what has been written to the socket

objectVars == <<object, state>>
epollVars == <<mask, registered>>
loopVars == <<loopPc, pending, batch>>
peerVars == <<peer, sent>>
writeVars == <<full, shorts, wire>>
vars == <<process, objectVars, epollVars, loopVars, peerVars, received, writeVars, out>>

TypeOK ==
    /\ process \in {"up", "sigpipe", "dangling"}
    /\ object \in [Conns -> {"none", "made", "kept", "deleted"}]
    /\ state \in [Conns -> {"NotConnected", "Connected", "Closed"}]
    /\ mask \in [Conns -> SUBSET {"IN", "OUT"}]
    /\ registered \in SUBSET Conns
    /\ loopPc \in {"swap", "run"}
    /\ pending \in Seq(Tasks)
    /\ batch \in Seq(Tasks)
    /\ peer \in [Conns -> {"open", "closed", "reset"}]
    /\ sent \in [Conns -> Nat]
    /\ received \in [Conns -> Nat]
    /\ \A c \in Conns : received[c] <= sent[c] /\ sent[c] <= 2 * MaxRequests[c]
    /\ full \in [Conns -> BOOLEAN]
    /\ shorts \in [Conns -> 0..MaxShort]
    /\ out \in [Conns -> Seq(Replies)]
    /\ wire \in [Conns -> Seq(Replies)]

Init ==
    /\ process = "up"
    /\ object = [c \in Conns |-> "none"]
    /\ state = [c \in Conns |-> "NotConnected"]
    /\ mask = [c \in Conns |-> {}]
    /\ registered = {}
    /\ loopPc = "swap"
    /\ pending = <<>>
    /\ batch = <<>>
    /\ peer = [c \in Conns |-> "open"]
    /\ sent = [c \in Conns |-> 0]
    /\ received = [c \in Conns |-> 0]
    /\ full = [c \in Conns |-> FALSE]
    /\ shorts = [c \in Conns |-> 0]
    /\ out = [c \in Conns |-> <<>>]
    /\ wire = [c \in Conns |-> <<>>]

-----------------------------------------------------------------------------
(* The main thread: its loop runs onAccept and the timer's callback.       *)

\* The constructor of TcpConnection, whose listenRead posts the fd to the IO
\* thread: from here on that thread may call onRead.
Accept(c) ==
    /\ \A d \in Conns : object[d] # "made"
    /\ object[c] = "none"
    /\ object' = [object EXCEPT ![c] = "made"]
    /\ mask' = [mask EXCEPT ![c] = {"IN"}]
    /\ pending' = Append(pending, [op |-> "add", conn |-> c])
    /\ UNCHANGED <<process, state, registered, loopPc, batch, peerVars, received,
                   writeVars, out>>

\* Mutant of Keep: the call of setState is forgotten.
KeepUnconnected(c) ==
    /\ object[c] = "made"
    /\ object' = [object EXCEPT ![c] = "kept"]
    /\ UNCHANGED <<process, state, epollVars, loopVars, peerVars, received, writeVars, out>>

\* The rest of onAccept: setState, which sets Connected whatever it is given,
\* and the insertion into m_client.
Keep(c) ==
    /\ object[c] = "made"
    /\ object' = [object EXCEPT ![c] = "kept"]
    /\ state' = [state EXCEPT ![c] = "Connected"]
    /\ UNCHANGED <<process, epollVars, loopVars, peerVars, received, writeVars, out>>

\* ClearClientTimerFunc, every 5 s: m_client holds the only reference, so that
\* erasing a closed connection deletes it.
ClearClientTimer ==
    /\ \A c \in Conns : object[c] # "made"
    /\ \E c \in Conns : object[c] = "kept" /\ state[c] = "Closed"
    /\ object' = [c \in Conns |-> IF object[c] = "kept" /\ state[c] = "Closed"
                                    THEN "deleted" ELSE object[c]]
    /\ UNCHANGED <<process, state, epollVars, loopVars, peerVars, received, writeVars, out>>

-----------------------------------------------------------------------------
(* The IO thread: loop(), and what its tasks do.                           *)

\* The loop takes all pending tasks and will run them.
SwapTasks ==
    /\ loopPc = "swap"
    /\ loopPc' = "run"
    /\ batch' = pending
    /\ pending' = <<>>
    /\ UNCHANGED <<process, objectVars, epollVars, peerVars, received, writeVars, out>>

\* epoll is level-triggered; a reset reports every event asked for.
Readable(c) == sent[c] > received[c] \/ peer[c] # "open"
Writable(c) == ~full[c] \/ peer[c] = "reset"

Events(c) ==
    {e \in mask[c] : IF e = "IN" THEN Readable(c) ELSE Writable(c)}

Ready == {c \in registered : Events(c) # {} \/ peer[c] = "reset"}

\* Mutant of HandlersOf: a callback is queued for the error as well.
HandlersWithError(c) ==
    {[op |-> e, conn |-> c] : e \in Events(c) \cup (IF peer[c] = "reset" THEN {"ERR"} ELSE {})}

\* Mutant of HandlersOf: an fd in error gets no callback.
HandlersUnlessError(c) ==
    {[op |-> e, conn |-> c] : e \in IF peer[c] = "reset" THEN {} ELSE Events(c)}

\* The callbacks of the events of one connection.
HandlersOf(c) == {[op |-> e, conn |-> c] : e \in Events(c)}

\* The loop handles one fd after the other, and queues its read callback first.
InDispatchOrder(handlers) ==
    \A i, j \in DOMAIN handlers :
        handlers[i].conn = handlers[j].conn /\ handlers[i].op = "IN" /\ handlers[j].op = "OUT"
            => j = i + 1

\* epoll_wait returns with the fds that are ready, in any order, or with none
\* when it is woken for a task; their callbacks are queued, and fds in error
\* leave the epoll set.
EpollWait ==
    /\ loopPc = "run"
    /\ batch = <<>>
    /\ Ready # {} \/ pending # <<>>
    /\ \E handlers \in SetToSeqs(UNION {HandlersOf(c) : c \in Ready}) :
          /\ InDispatchOrder(handlers)
          /\ pending' = pending \o handlers
    /\ registered' = registered \ {c \in Ready : peer[c] = "reset"}
    /\ loopPc' = "swap"
    /\ UNCHANGED <<process, objectVars, mask, batch, peerVars, received, writeVars, out>>

PopTask ==
    /\ loopPc = "run"
    /\ batch # <<>>
    /\ batch' = Tail(batch)
    /\ UNCHANGED <<object, loopPc, pending, peerVars>>

Task == Head(batch)
conn == Task.conn

\* The lambda of addEpollEvent. It uses the FdEvent, which is never deleted.
RunAdd ==
    /\ PopTask
    /\ Task.op = "add"
    /\ registered' = registered \cup {conn}
    /\ UNCHANGED <<process, state, mask, received, writeVars, out>>

\* The callbacks hold a bare pointer to their connection.
RunDeleted ==
    /\ PopTask
    /\ Task.op # "add"
    /\ object[conn] = "deleted"
    /\ process' = "dangling"
    /\ UNCHANGED <<state, epollVars, received, writeVars, out>>

Callback(op) == PopTask /\ Task.op = op /\ object[conn] # "deleted"

\* Mutant of RunUnconnected: onRead does not look at m_state, and closes a
\* connection that the main thread has not yet marked as connected.
RunUnconnectedEnd ==
    /\ PopTask
    /\ Task.op # "add"
    /\ object[conn] # "deleted"
    /\ state[conn] # "Connected"
    /\ state' = IF peer[conn] = "open" THEN state ELSE [state EXCEPT ![conn] = "Closed"]
    /\ UNCHANGED <<process, epollVars, received, writeVars, out>>

\* onRead and onWrite of a connection that is not connected return at once.
RunUnconnected ==
    /\ PopTask
    /\ Task.op # "add"
    /\ object[conn] # "deleted"
    /\ state[conn] # "Connected"
    /\ UNCHANGED <<process, state, epollVars, received, writeVars, out>>

\* listenWrite and the end of onWrite: the mask changes and the epoll set follows.
ListenFor(events) ==
    /\ mask' = [mask EXCEPT ![conn] = events]
    /\ registered' = registered \cup {conn}

\* What dispatch has appended to m_out_buffer when it returns: the closure
\* replies, the ways out with an error only fill in the response.
Dispatch(replies) ==
    FlattenSeq([i \in DOMAIN replies |->
                    IF replies[i].res = "result" THEN <<replies[i]>> ELSE <<>>])

\* Mutant of Excute: the responses are left to the closures.
ExcuteWithoutEncode(first, last) ==
    \E res \in [first..last -> Outcomes] :
        LET replies == [i \in 1..(last - first + 1) |->
                            [req |-> first + i - 1, res |-> res[first + i - 1]]]
        IN  /\ out' = [out EXCEPT ![conn] = @ \o Dispatch(replies)]
            /\ ListenFor({"IN", "OUT"})

\* Requests first..last have been decoded. Each is dispatched; then all the
\* responses are encoded, those too that a closure has already sent.
Excute(first, last) ==
    \E res \in [first..last -> Outcomes] :
        LET replies == [i \in 1..(last - first + 1) |->
                            [req |-> first + i - 1, res |-> res[first + i - 1]]]
        IN  /\ out' = [out EXCEPT ![conn] = @ \o Dispatch(replies) \o replies]
            /\ ListenFor({"IN", "OUT"})

\* onRead: there is something to read, or there was and it has been read.
RunRead ==
    /\ Callback("IN")
    /\ state[conn] = "Connected"
    /\ sent[conn] > received[conn]
    /\ received' = [received EXCEPT ![conn] = sent[conn]]
    /\ Excute(received[conn] \div 2 + 1, sent[conn] \div 2)
    /\ UNCHANGED <<process, state, writeVars>>

\* Mutant of Clear: the fd stays in the epoll set.
ClearMaskOnly ==
    /\ mask' = [mask EXCEPT ![conn] = {}]
    /\ registered' = registered
    /\ state' = [state EXCEPT ![conn] = "Closed"]

Clear ==
    /\ mask' = [mask EXCEPT ![conn] = {}]
    /\ registered' = registered \ {conn}
    /\ state' = [state EXCEPT ![conn] = "Closed"]

\* onRead of a stream that has ended. After a reset the first read fails and
\* the next returns 0.
RunReadEnd ==
    /\ Callback("IN")
    /\ state[conn] = "Connected"
    /\ sent[conn] = received[conn]
    /\ peer[conn] # "open"
    /\ Clear
    /\ UNCHANGED <<process, received, writeVars, out>>

\* write() took a part of m_out_buffer that ends inside a reply. The read index
\* of the buffer does not move, so that the next write starts over.
ShortWrite(c) ==
    \E n \in 0..Len(out[c]) - 1 :
        wire' = [wire EXCEPT ![c] = @ \o SubSeq(out[c], 1, n) \o <<Torn>>]

\* The whole buffer is written, and written again by every later onWrite; or
\* the socket takes a part of it and then nothing (EAGAIN), and onWrite comes
\* back when there is room. A socket reported writable takes something.
Write ==
    \/ /\ wire' = [wire EXCEPT ![conn] = @ \o out[conn]]
       /\ ListenFor({"IN"})
       /\ UNCHANGED <<full, shorts>>
    \/ /\ shorts[conn] < MaxShort
       /\ shorts' = [shorts EXCEPT ![conn] = @ + 1]
       /\ full' = [full EXCEPT ![conn] = TRUE]
       /\ ShortWrite(conn)
       /\ UNCHANGED epollVars

RunWrite ==
    /\ Callback("OUT")
    /\ state[conn] = "Connected"
    /\ peer[conn] # "reset" \/ out[conn] = <<>>
    /\ Write
    /\ UNCHANGED <<process, state, received, out>>

\* onWrite repeats a write that fails with another error than EAGAIN, and the
\* second write to a socket that was reset raises SIGPIPE.
RunWriteToNobody ==
    /\ Callback("OUT")
    /\ state[conn] = "Connected"
    /\ peer[conn] = "reset"
    /\ out[conn] # <<>>
    /\ process' = "sigpipe"
    /\ UNCHANGED <<state, epollVars, received, writeVars, out>>

LoopStep ==
    \/ SwapTasks \/ EpollWait
    \/ RunAdd \/ RunDeleted \/ RunUnconnected
    \/ RunRead \/ RunReadEnd \/ RunWrite \/ RunWriteToNobody

-----------------------------------------------------------------------------
(* The peers and the kernel.                                               *)

\* A peer's connect succeeds before accept returns it, and it may send at once.
PeerSends(c) ==
    /\ peer[c] = "open"
    /\ sent[c] < 2 * MaxRequests[c]
    /\ sent' = [sent EXCEPT ![c] = @ + 1]
    /\ UNCHANGED <<process, objectVars, epollVars, loopVars, peer, received, writeVars, out>>

PeerCloses(c) ==
    /\ peer[c] = "open"
    /\ peer' = [peer EXCEPT ![c] = "closed"]
    /\ UNCHANGED <<process, objectVars, epollVars, loopVars, sent, received, writeVars, out>>

\* It aborts, or its kernel answers data sent to a socket that is gone.
PeerResets(c) ==
    /\ peer[c] # "reset"
    /\ peer' = [peer EXCEPT ![c] = "reset"]
    /\ UNCHANGED <<process, objectVars, epollVars, loopVars, sent, received, writeVars, out>>

PeerReads(c) ==
    /\ full[c]
    /\ full' = [full EXCEPT ![c] = FALSE]
    /\ UNCHANGED <<process, objectVars, epollVars, loopVars, peerVars, received, shorts,
                   wire, out>>

-----------------------------------------------------------------------------

Next ==
    /\ process = "up"
    /\ \/ LoopStep
       \/ ClearClientTimer
       \/ \E c \in Conns :
             \/ Accept(c) \/ Keep(c)
             \/ PeerSends(c) \/ PeerCloses(c) \/ PeerResets(c) \/ PeerReads(c)

Spec == Init /\ [][Next]_vars

Up(action) == process = "up" /\ action

\* Both threads keep running, the main thread finishes onAccept and its timer
\* comes back every 5 s. Of the peers only this is assumed: one that does not
\* go away reads what it is sent.
Fairness ==
    /\ WF_vars(Up(LoopStep))
    /\ WF_vars(Up(ClearClientTimer))
    /\ \A c \in Conns : WF_vars(Up(Keep(c))) /\ WF_vars(Up(PeerReads(c)))

LiveSpec == Spec /\ Fairness

-----------------------------------------------------------------------------
(* Properties.                                                             *)

\* The requests to which the wire carries a reply that the peer can still
\* make out: a torn reply takes what follows it with it.
Whole(c) ==
    {i \in DOMAIN wire[c] : \A j \in 1..i : wire[c][j] # Torn}

Answered(c) == {wire[c][i].req : i \in Whole(c)}
IsTorn(c) == \E i \in DOMAIN wire[c] : wire[c][i] = Torn

\* When a connection no longer waits to write, every request that has been
\* decoded has its reply on the wire, whichever way dispatch returned: the
\* OUT event is cancelled only by an onWrite that ran after the last encode.
IdleMeansAnswered ==
    \A c \in Conns :
        state[c] = "Connected" /\ "OUT" \notin mask[c] /\ ~IsTorn(c)
            => \A k \in 1..received[c] \div 2 : k \in Answered(c)

\* A connection that its IO thread has closed is never made Connected again,
\* although the accepting thread calls setState after it has handed the
\* connection over: until then onRead must not close it.
ClosedForGood == [][\A c \in Conns : state[c] = "Closed" => state'[c] = "Closed"]_vars

\* The main thread deletes a connection without asking its IO thread. That
\* thread's epoll set and its pending tasks have forgotten the connection by
\* then: only callbacks in the batch that is running can still meet it.
DeletedIsUnreachable ==
    \A c \in Conns :
        object[c] = "deleted" =>
            /\ c \notin registered
            /\ \A i \in DOMAIN pending : pending[i].conn # c

\* Every request a peer has sent whole is answered, in whatever order the
\* accepting thread, the IO thread and the peer take their steps, unless the
\* peer goes away, a short write tears the stream, or the process dies.
AnsweredEventually ==
    \A c \in Conns : \A k \in 1..MaxRequests[c] :
        (object[c] # "none" /\ sent[c] >= 2 * k)
            ~> (k \in Answered(c) \/ peer[c] # "open" \/ IsTorn(c) \/ process # "up")

\* A connection whose peer is gone, by a FIN or by a reset, is closed by its
\* IO thread and then dropped by the main thread, if the loop watches it once
\* it is connected. (It may not: an error met before setState takes the fd out
\* of the epoll set while onRead does nothing, and nobody ever closes it.)
GoneIsDropped ==
    \A c \in Conns :
        (state[c] = "Connected" /\ c \in registered /\ peer[c] # "open")
            ~> (object[c] = "deleted" \/ process # "up")

\* For each request one response is put into the buffer and sent
\* (tcp_connection.cc:96-98).
RepliedOnce ==
    \A c \in Conns : \A i, j \in Whole(c) :
        i # j => wire[c][i].req # wire[c][j].req
=============================================================================
