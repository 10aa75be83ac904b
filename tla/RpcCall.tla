------------------------------- MODULE RpcCall -------------------------------
(***************************************************************************)
(* One RPC made with CALLRPC: RpcChannel::CallMethod, its controller and   *)
(* closure, the TcpClient and client TcpConnection it creates, its timeout *)
(* and the event loop of the calling thread (rpc_channel.cc,               *)
(* rpc_controller.cc, tcp_client.cc, tcp_connection.cc). The peer and the  *)
(* kernel's socket are the environment.                                    *)
(*                                                                         *)
(* Everything on the client runs in one thread, so a step is one callback, *)
(* or CallMethod up to the next place where the loop or the environment    *)
(* can act.                                                                *)
(***************************************************************************)
EXTENDS Naturals, Sequences

CONSTANTS
    MaxRetry,       \* m_max_retry of the controller
    MaxReplies      \* bound: messages the peer sends on the connection

ASSUME CallAssumption == MaxRetry \in Nat /\ MaxReplies \in Nat

\* The error codes of error_code.h that reach a controller; "none" is 0 and
\* "service" any m_err_code the peer put into its answer.
ConnectErrors == {"peerClosed", "failedConnect"}
Errors == {"none", "channelInit", "serialize", "peerAddr", "timeout", "service"}
              \cup ConnectErrors

\* An answer, by what becomes of it: parsed with m_err_code 0, parsed with
\* another code, not parsed; or of no use to the call, because it carries
\* another message id or decode never completes it.
Answers == {"ok", "serviceError", "unparsable", "other"}

Callbacks == {"timer", "read", "connected", "write"}

\* What has been written: parts of the request without its end, the request as it
\* is, or the request behind such parts.
Whole == {"request", "garbled"}
Writings == {"none", "part"} \cup Whole

VARIABLES
    pc,             \* the calling thread: "call", "retry", "inLoop" or "returned"
    process,        \* "up", or why the process is gone
    attempt,        \* i of the retry loop
    loop,           \* the thread's EventLoop: "none" (never looped), "running", "ended"
    quit,           \* its m_quit
    queued,         \* callbacks queued by the last epoll_wait
    timer,          \* the timeout's TimerEvent: "none", "armed", "due", "fired"
    call,           \* the controller, the caller's closure, and how often it ran
    connError,      \* TcpClient::m_connect_error_code
    connState,      \* TcpConnection::m_state
    sock,           \* the kernel's socket m_fd
    blocking,       \* it is a blocking socket
    mask,           \* m_fd_event: the events it listens for
    onOut,          \* m_fd_event: which write callback it holds
    registered,     \* m_fd_event is in the epoll set
    writeDone,      \* the request waits in m_write_dones
    readDone,       \* the message id waits in m_read_dones
    wire,           \* what has been written, one of Writings
    inbox,          \* answers in the socket's receive buffer
    response,       \* the caller's response message has been parsed into
    alive,          \* RpcChannel, TcpClient and TcpConnection exist
    failed,         \* history: an attempt to connect failed in the network
    answered        \* history: an answer "ok" has been handed to the call

controlVars == <<pc, attempt, loop, queued>>
epollVars == <<mask, onOut, registered>>
dataVars == <<writeDone, readDone, wire, inbox, response, answered>>
sockVars == <<sock, blocking, failed>>
connVars == <<connError, connState>>
vars == <<controlVars, process, quit, timer, call, connVars, sockVars, epollVars,
          dataVars, alive>>

TypeOK ==
    /\ pc \in {"call", "retry", "inLoop", "returned"}
    /\ process \in {"up", "nullController", "sigpipe", "dangling"}
    /\ attempt \in 0..MaxRetry
    /\ loop \in {"none", "running", "ended"}
    /\ quit \in BOOLEAN
    /\ queued \in SUBSET Callbacks
    /\ timer \in {"none", "armed", "due", "fired"}
    /\ call \in [closure : BOOLEAN, finished : BOOLEAN, canceled : BOOLEAN,
                 err : Errors, runs : Nat, seen : Errors]
    /\ connError \in {"none"} \cup ConnectErrors
    /\ connState \in {"NotConnected", "Connected", "Closed"}
    /\ sock \in {"new", "connecting", "connected", "refused", "eof", "closed"}
    /\ blocking \in BOOLEAN
    /\ mask \in SUBSET {"IN", "OUT"}
    /\ onOut \in {"none", "connected", "write"}
    /\ registered \in BOOLEAN
    /\ writeDone \in BOOLEAN
    /\ readDone \in BOOLEAN
    /\ wire \in Writings
    /\ inbox \in Seq(Answers)
    /\ response \in BOOLEAN
    /\ alive \in BOOLEAN
    /\ failed \in BOOLEAN
    /\ answered \in BOOLEAN

\* The call is made on a thread that has never looped (a main program), from
\* a callback of a running loop (a service that calls another), or on a thread
\* whose loop has been stopped (a second call of a main program).
Init ==
    /\ pc = "call"
    /\ process = "up"
    /\ attempt = 0
    /\ loop \in {"none", "running", "ended"}
    /\ quit = (loop = "ended")
    /\ queued = {}
    /\ timer = "none"
    /\ \E closure \in BOOLEAN :
           call = [closure |-> closure, finished |-> FALSE, canceled |-> FALSE,
                   err |-> "none", runs |-> 0, seen |-> "none"]
    /\ connError = "none"
    /\ connState = "NotConnected"
    /\ sock = "new"
    /\ blocking = FALSE
    /\ mask = {}
    /\ onOut = "none"
    /\ registered = FALSE
    /\ writeDone = FALSE
    /\ readDone = FALSE
    /\ wire = "none"
    /\ inbox = <<>>
    /\ response = FALSE
    /\ alive = TRUE
    /\ failed = FALSE
    /\ answered = FALSE

-----------------------------------------------------------------------------
(* RpcController and RpcChannel::callBack, as functions of the call.       *)

SetError(c, e) == [c EXCEPT !.err = e]

StartCancel(c) == [c EXCEPT !.canceled = TRUE, !.finished = TRUE]

\* Mutant of CallBack: the controller is not set finished.
CallBackUnfinished(c) ==
    IF c.finished \/ ~c.closure
      THEN c
      ELSE [c EXCEPT !.runs = @ + 1, !.seen = c.err]

\* The closure, if there is one, runs unless the controller is finished, and
\* finishes it.
CallBack(c) ==
    IF c.finished \/ ~c.closure
      THEN c
      ELSE [c EXCEPT !.runs = @ + 1, !.seen = c.err, !.finished = TRUE]

Report(c, e) == CallBack(SetError(c, e))

\* The closure may stop the loop: TcpClient::stop does so if it is looping.
MayStop ==
    \/ quit' = quit
    \/ call'.runs > call.runs /\ loop # "none" /\ quit' = TRUE

-----------------------------------------------------------------------------
(* CallMethod.                                                             *)

\* No request or response, no peer address, or a request that does not serialize.
CallRejected ==
    /\ process = "up"
    /\ pc = "call"
    /\ \E e \in {"channelInit", "peerAddr", "serialize"} : call' = Report(call, e)
    /\ pc' = "returned"
    /\ UNCHANGED <<process, attempt, loop, queued, quit, timer, connVars, sockVars,
                   epollVars, dataVars, alive>>

\* A channel that was not Init()ed has no controller for callBack to look at.
CallUninitialised ==
    /\ process = "up"
    /\ pc = "call"
    /\ process' = "nullController"
    /\ UNCHANGED <<controlVars, quit, timer, call, connVars, sockVars, epollVars,
                   dataVars, alive>>

\* Mutant of CallAccepted: no timeout is armed.
CallAcceptedUntimed ==
    /\ process = "up"
    /\ pc = "call"
    /\ pc' = "retry"
    /\ UNCHANGED <<process, attempt, loop, queued, quit, timer, call, connVars, sockVars,
                   epollVars, dataVars, alive>>

\* The TcpClient is created and the timeout armed, before anything is sent.
CallAccepted ==
    /\ process = "up"
    /\ pc = "call"
    /\ timer' = "armed"
    /\ pc' = "retry"
    /\ UNCHANGED <<process, attempt, loop, queued, quit, call, connVars, sockVars,
                   epollVars, dataVars, alive>>

RetryDone ==
    /\ process = "up"
    /\ pc = "retry"
    /\ attempt = MaxRetry \/ connState = "Connected"
    /\ pc' = "returned"
    /\ UNCHANGED <<process, attempt, loop, queued, quit, timer, call, connVars,
                   sockVars, epollVars, dataVars, alive>>

\* Mutant of Trying: i <= maxRetry.
TryingOnceMore ==
    /\ process = "up"
    /\ pc = "retry"
    /\ attempt <= MaxRetry
    /\ connState # "Connected"
    /\ attempt' = attempt + 1

Trying ==
    /\ process = "up"
    /\ pc = "retry"
    /\ attempt < MaxRetry
    /\ connState # "Connected"
    /\ attempt' = attempt + 1

\* What ::connect answers: on an unused socket anything, but a blocking one
\* waits for the outcome; 0 once for a connection that has been established since;
\* else EALREADY, EISCONN or the pending error.
ConnectOutcomes ==
    CASE sock = "new" /\ ~blocking -> {"ok", "inProgress", "error"}
      [] sock = "new" /\ blocking -> {"ok", "error"}
      [] sock \in {"connected", "eof"} /\ connState = "NotConnected" -> {"ok"}
      [] OTHER -> {"error"}

\* The function CallMethod hands to TcpClient::connect, given the error code it
\* finds there: report the error, or queue the request (writeMessage).
ConnectDone(err) ==
    \/ /\ err # "none"
       /\ call' = Report(call, err)
       /\ MayStop
       /\ UNCHANGED dataVars
    \/ /\ err = "none"
       /\ writeDone' = TRUE
       /\ UNCHANGED <<call, quit, readDone, wire, inbox, response, answered>>

ListenWrite ==
    /\ mask' = mask \cup {"OUT"}
    /\ onOut' = "write"
    /\ registered' = TRUE

\* rt == 0: nobody starts the loop.
ConnectAtOnce ==
    /\ Trying
    /\ "ok" \in ConnectOutcomes
    /\ sock' = IF sock = "new" THEN "connected" ELSE sock
    /\ connState' = "Connected"
    /\ ConnectDone(connError)
    /\ IF connError = "none" THEN ListenWrite ELSE UNCHANGED epollVars
    /\ UNCHANGED <<process, pc, loop, queued, timer, connError, blocking, failed, alive>>

\* EINPROGRESS: wait for EPOLLOUT, and loop if the thread does not loop yet.
ConnectInProgress ==
    /\ Trying
    /\ "inProgress" \in ConnectOutcomes
    /\ sock' = "connecting"
    /\ mask' = mask \cup {"OUT"}
    /\ onOut' = "connected"
    /\ registered' = TRUE
    /\ IF loop = "none"
         THEN loop' = "running" /\ pc' = "inLoop"
         ELSE UNCHANGED <<loop, pc>>
    /\ UNCHANGED <<process, queued, quit, timer, call, connVars, blocking, failed,
                   dataVars, alive>>

\* Mutant of ConnectError: the error code is not kept in the client.
ConnectErrorForgotten ==
    /\ Trying
    /\ "error" \in ConnectOutcomes
    /\ ConnectDone("failedConnect")
    /\ sock' = IF sock = "refused" THEN "new" ELSE sock
    /\ failed' = (failed \/ sock \in {"new", "refused"})
    /\ UNCHANGED <<process, pc, loop, queued, timer, connVars, blocking, epollVars, alive>>

\* Any other errno, EALREADY and EISCONN of a later attempt included.
ConnectError ==
    /\ Trying
    /\ "error" \in ConnectOutcomes
    /\ connError' = "failedConnect"
    /\ ConnectDone("failedConnect")
    /\ sock' = IF sock = "refused" THEN "new" ELSE sock
    /\ failed' = (failed \/ sock \in {"new", "refused"})
    /\ UNCHANGED <<process, pc, loop, queued, timer, connState, blocking, epollVars, alive>>

CallStep ==
    \/ CallRejected \/ CallUninitialised \/ CallAccepted
    \/ ConnectAtOnce \/ ConnectInProgress \/ ConnectError \/ RetryDone

-----------------------------------------------------------------------------
(* The event loop of the thread: inside connect(), or above a call that    *)
(* was made from one of its callbacks.                                     *)

Looping ==
    /\ process = "up"
    /\ loop = "running"
    /\ pc \in {"inLoop", "returned"}

\* The callbacks that epoll_wait leads to. An unused or failed socket is
\* writable and in error, which takes it out of the epoll set as well.
SocketReady ==
    {c \in Callbacks :
        /\ registered
        /\ \/ c = onOut /\ "OUT" \in mask /\ sock \notin {"connecting", "closed"}
           \/ c = "read" /\ "IN" \in mask /\ (inbox # <<>> \/ sock = "eof")}

EpollRound ==
    /\ Looping
    /\ ~quit
    /\ queued = {}
    /\ queued' = SocketReady \cup (IF timer = "due" THEN {"timer"} ELSE {})
    /\ queued' # {}
    /\ registered' = (registered /\ sock \notin {"new", "refused"})
    /\ UNCHANGED <<process, pc, attempt, loop, quit, timer, call, connVars, sockVars,
                   mask, onOut, dataVars, alive>>

LoopExit ==
    /\ Looping
    /\ quit
    /\ queued = {}
    /\ loop' = "ended"
    /\ pc' = IF pc = "inLoop" THEN "retry" ELSE pc
    /\ UNCHANGED <<process, attempt, queued, quit, timer, call, connVars, sockVars,
                   epollVars, dataVars, alive>>

\* The callback c of this round runs; what it has in common with the others.
Running(c) ==
    /\ Looping
    /\ c \in queued
    /\ queued' = queued \ {c}
    /\ UNCHANGED <<pc, attempt, loop>>

\* The timeout: the call is finished first and reported second. The TimerEvent
\* then gives up the channel; nobody else holds it once CALLRPC has returned.
RunTimer ==
    /\ Running("timer")
    /\ timer' = "fired"
    /\ call' = IF call.finished
                 THEN call
                 ELSE Report(StartCancel(call), "timeout")
    /\ MayStop
    /\ IF pc = "returned"
         THEN alive' = FALSE /\ sock' = "closed" /\ registered' = FALSE
         ELSE UNCHANGED <<alive, sock, registered>>
    /\ UNCHANGED <<process, connVars, blocking, failed, mask, onOut, dataVars>>

\* A callback of the socket that was queued together with the timeout finds the
\* connection destroyed.
RunDangling ==
    /\ ~alive
    /\ \E c \in {"read", "write", "connected"} : Running(c)
    /\ process' = "dangling"
    /\ UNCHANGED <<quit, timer, call, connVars, sockVars, epollVars, dataVars, alive>>

\* The write callback that waits for the connection: ::connect is called again
\* for its result. A failed attempt leaves a new socket, a blocking one.
RunConnected ==
    /\ alive
    /\ Running("connected")
    /\ \/ /\ sock \in {"connected", "eof"}
          /\ connState' = "Connected"
          /\ ConnectDone(connError)
          /\ IF connError = "none"
               THEN ListenWrite
               ELSE registered' = FALSE /\ UNCHANGED <<mask, onOut>>
          /\ UNCHANGED <<connError, sockVars>>
       \/ /\ sock \in {"new", "refused"}
          /\ connError' \in ConnectErrors
          /\ ConnectDone(connError')
          /\ sock' = "new"
          /\ blocking' = TRUE
          /\ failed' = TRUE
          /\ registered' = FALSE
          /\ UNCHANGED <<connState, mask, onOut>>
    /\ UNCHANGED <<process, timer, alive>>

\* onWrite of a client: all is written, or the socket is full, after short writes
\* or none. Each write starts again from the first byte, so that a short one puts a
\* part of the request in front of it. Either way the write callbacks run, and each
\* asks for its answer (readMessage).
RunWrite ==
    /\ alive
    /\ Running("write")
    /\ "read" \notin queued
    /\ IF connState # "Connected"
         THEN UNCHANGED <<writeDone, readDone, wire, epollVars>>
         ELSE \E all, short \in BOOLEAN :
                /\ wire' = CASE all /\ (short \/ wire = "part") -> "garbled"
                             [] all /\ ~(short \/ wire = "part") -> "request"
                             [] ~all -> IF short THEN "part" ELSE wire
                /\ mask' = (IF all THEN mask \ {"OUT"} ELSE mask)
                             \cup (IF writeDone THEN {"IN"} ELSE {})
                /\ registered' = (registered \/ all \/ writeDone)
                /\ readDone' = (readDone \/ writeDone)
                /\ writeDone' = FALSE
                /\ onOut' = onOut
    /\ UNCHANGED <<process, quit, timer, call, connVars, sockVars, inbox, response,
                   answered, alive>>

\* write() on a connection the peer has closed.
RunWriteToNobody ==
    /\ alive
    /\ Running("write")
    /\ "read" \notin queued
    /\ connState = "Connected"
    /\ sock = "eof"
    /\ process' = "sigpipe"
    /\ UNCHANGED <<quit, timer, call, connVars, sockVars, epollVars, dataVars, alive>>

\* Mutant of Answer: m_err_code of the answer is not looked at.
AnswerIsOk(a) ==
    /\ response' = (response \/ a \in {"ok", "serviceError"})
    /\ answered' = (answered \/ a = "ok")
    /\ call' = IF a = "unparsable" THEN Report(call, "serialize") ELSE CallBack(call)

\* The callback of an answer with the call's id.
Answer(a) ==
    /\ response' = (response \/ a \in {"ok", "serviceError"})
    /\ answered' = (answered \/ a = "ok")
    /\ call' = CASE a = "ok" -> CallBack(call)
                 [] a = "serviceError" -> Report(call, "service")
                 [] a = "unparsable" -> Report(call, "serialize")

\* excute of a client: the first answer with the id takes it out of
\* m_read_dones, and later ones find nothing.
Excute ==
    /\ inbox # <<>>
    /\ inbox' = <<>>
    /\ \/ /\ readDone
          /\ \E i \in DOMAIN inbox :
                /\ inbox[i] # "other"
                /\ \A k \in 1..(i - 1) : inbox[k] = "other"
                /\ Answer(inbox[i])
          /\ readDone' = FALSE
          /\ MayStop
       \/ /\ readDone => \A i \in DOMAIN inbox : inbox[i] = "other"
          /\ UNCHANGED <<readDone, response, answered, call, quit>>
    /\ UNCHANGED <<epollVars, connState>>

\* clear(): the call learns nothing. Answers that filled the buffer exactly are
\* still in it when the next read() returns 0, and are not looked at either.
PeerGone ==
    /\ sock = "eof"
    /\ mask' = {}
    /\ registered' = FALSE
    /\ connState' = "Closed"
    /\ inbox' = <<>>
    /\ UNCHANGED <<onOut, readDone, response, answered, call, quit>>

RunRead ==
    /\ alive
    /\ Running("read")
    /\ \/ connState = "Connected" /\ (Excute \/ PeerGone)
       \/ /\ connState # "Connected"
          /\ UNCHANGED <<epollVars, connState, inbox, readDone, response, answered,
                         call, quit>>
    /\ UNCHANGED <<process, timer, connError, sockVars, writeDone, wire, alive>>

LoopStep ==
    \/ EpollRound \/ LoopExit
    \/ RunTimer \/ RunConnected \/ RunWrite \/ RunWriteToNobody \/ RunRead
    \/ RunDangling

-----------------------------------------------------------------------------
(* The environment: time, the network and the peer.                        *)

TimerExpires ==
    /\ process = "up"
    /\ timer = "armed"
    /\ timer' = "due"
    /\ UNCHANGED <<controlVars, process, quit, call, connVars, sockVars, epollVars,
                   dataVars, alive>>

SocketChanges ==
    /\ process = "up"
    /\ \/ sock = "connecting" /\ sock' \in {"connected", "refused"}
       \/ sock = "connected" /\ sock' = "eof"
    /\ UNCHANGED <<controlVars, process, quit, timer, call, connVars, blocking, failed,
                   epollVars, dataVars, alive>>

\* The peer may find the request behind parts of it: its decode goes on scanning.
PeerAnswers ==
    /\ process = "up"
    /\ sock = "connected"
    /\ wire \in Whole
    /\ Len(inbox) < MaxReplies
    /\ \E a \in Answers : inbox' = Append(inbox, a)
    /\ UNCHANGED <<controlVars, process, quit, timer, call, connVars, sockVars,
                   epollVars, writeDone, readDone, wire, response, answered, alive>>

Environment == TimerExpires \/ SocketChanges \/ PeerAnswers

-----------------------------------------------------------------------------

Next == CallStep \/ LoopStep \/ Environment

\* The thread keeps running and time passes; network and peer owe nothing.
Fairness ==
    /\ WF_vars(CallStep)
    /\ WF_vars(LoopStep)
    /\ WF_vars(TimerExpires)

Spec == Init /\ [][Next]_vars /\ Fairness

-----------------------------------------------------------------------------
(* Properties.                                                             *)

\* Immediate errors, a failed attempt, a retry, an answer and the timeout all
\* end in callBack; the closure still runs at most once, and the only call that
\* is over without it is one that its timeout has canceled (rpc_channel.cc:122).
ClosureAtMostOnce ==
    call.runs <= 1 /\ (call.finished <=> call.runs = 1 \/ call.canceled)

\* What the closure reads is so. Error code 0: the peer has answered. Not
\* connected: the network or the peer has refused an attempt, unless the thread
\* had a loop before the call; connect() does not wait there (tcp_client.cc:83),
\* and the second attempt of CallMethod takes one in progress for a failed one.
ReportIsTrue ==
    [][call.runs = 0 /\ call'.runs = 1 =>
        /\ call'.seen = "none" => answered'
        /\ call'.seen \in ConnectErrors =>
             failed' \/ (loop # "none" /\ attempt > 0 /\ sock # "new")]_vars

\* The call is a CallOutcome: once the closure has run the request is not sent,
\* or sent again, and the response it has read is not parsed into once more,
\* although the connection may be established, and answer, only now.
Outcome ==
    IF call.runs > 0 THEN "reported"
    ELSE IF call.finished \/ ~call.closure THEN "silent" ELSE "open"

Caller == INSTANCE CallOutcome WITH
    Codes <- Errors,
    Requests <- Writings,
    outcome <- Outcome,
    code <- call.seen,
    sent <- wire,
    answered <- answered,
    response <- response

ImplementsCall == Caller!Spec

\* A call on a thread that loops finishes, at the latest with its timeout, unless
\* it was given up before there was one and has no closure (rpc_channel.cc:39).
CallFinishes ==
    (pc # "call" /\ loop = "running" /\ (call.closure \/ timer # "none"))
        ~> (call.finished \/ quit \/ process # "up")
=============================================================================
