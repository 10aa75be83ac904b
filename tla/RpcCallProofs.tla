---------------------------- MODULE RpcCallProofs ----------------------------
(***************************************************************************)
(* What RpcCall promises to the caller of a call, for any number of        *)
(* attempts and answers: the types, that the closure runs at most once,    *)
(* that its error code is true, and that the call is a CallOutcome.        *)
(***************************************************************************)
EXTENDS RpcCall, TLAPS

-----------------------------------------------------------------------------
(* The inductive invariant.                                                *)

\* A call that is not finished, and has a closure, has had no answer and no error.
OpenInv == ~call.finished /\ call.closure => ~answered /\ ~response /\ call.err = "none"

\* The loop runs no callback while CallMethod does, and the write callback that
\* is queued is the one that the FdEvent holds.
QueueInv ==
    /\ pc \in {"call", "retry"} => queued = {}
    /\ "connected" \in queued => onOut = "connected"
    /\ "write" \in queued => onOut = "write"

\* Once the request has been queued there is a connection, and before that
\* nothing has been written and nothing is awaited.
ConnInv ==
    /\ pc = "call" => onOut = "none"
    /\ onOut = "write" =>
         sock \notin {"new", "refused", "connecting"} /\ connState # "NotConnected"
    /\ onOut # "write" =>
         /\ connState # "Closed" /\ wire = "none" /\ ~writeDone /\ ~readDone
         /\ "IN" \notin mask /\ "read" \notin queued

\* A request that has been written is not written again, and only such a one is
\* answered.
WireInv ==
    /\ wire \in Whole => "OUT" \notin mask /\ "write" \notin queued /\ ~writeDone
    /\ inbox # <<>> => wire \in Whole

\* When the closure has run nothing more is sent or parsed: the connection is
\* closed, or its error keeps the request back, or the answer has been taken, or
\* there never was a connection.
Quiet ==
    \/ connState = "Closed"
    \/ onOut # "write" /\ connError # "none"
    \/ wire \in Whole /\ ~readDone
    \/ pc = "returned" /\ onOut = "none"

QuietInv == call.runs = 1 => Quiet

\* Sockets are used by attempts, one that an attempt does not wait for is that of
\* a thread that has looped, and one that is made after an error replaces one that
\* the network has failed.
AttemptInv ==
    /\ sock \in {"connecting", "connected", "refused", "eof"} => attempt > 0
    /\ sock = "closed" => pc = "returned"
    /\ sock \in {"connecting", "connected", "eof"} /\ connState = "NotConnected"
         => loop # "none"
    /\ connState = "Closed" => loop # "none"
    /\ connError # "none" /\ sock = "new" => failed

CallInv ==
    /\ TypeOK /\ ClosureAtMostOnce
    /\ OpenInv /\ QueueInv /\ ConnInv /\ WireInv /\ QuietInv /\ AttemptInv

-----------------------------------------------------------------------------
(* What happens to the controller.                                         *)

CallRec == [closure : BOOLEAN, finished : BOOLEAN, canceled : BOOLEAN, err : Errors,
            runs : Nat, seen : Errors]

Accounted(c) == c.runs <= 1 /\ (c.finished <=> c.runs = 1 \/ c.canceled)

\* A call that is finished or has no closure stays as it is, but for its error
\* code; another may be reported, with a code that is then its own.
Step(c, d) ==
    /\ d \in CallRec /\ Accounted(d)
    /\ c.finished \/ ~c.closure =>
         d.finished = c.finished /\ d.runs = c.runs /\ d.seen = c.seen
    /\ d.canceled = c.canceled /\ d.closure = c.closure

LEMMA CallBackSteps ==
    ASSUME NEW c \in CallRec, Accounted(c)
    PROVE  /\ Step(c, CallBack(c)) /\ (c.closure => CallBack(c).finished)
           /\ ~c.finished /\ c.closure => CallBack(c).runs = 1 /\ CallBack(c).seen = c.err
<1>1. CASE c.finished \/ ~c.closure
  BY <1>1 DEF Step, CallBack, CallRec, Accounted
<1>2. CASE ~c.finished /\ c.closure
  <2> DEFINE d == [c EXCEPT !.runs = @ + 1, !.seen = c.err, !.finished = TRUE]
  <2>1. c.runs = 0 /\ ~c.canceled
    BY <1>2 DEF CallRec, Accounted
  <2>2. d \in CallRec
    <3>1. c.runs + 1 \in Nat /\ c.err \in Errors /\ TRUE \in BOOLEAN
      BY DEF CallRec
    <3> QED
      BY <3>1 DEF CallRec
  <2>3. d.runs = 1 /\ d.seen = c.err /\ d.finished /\ d.canceled = c.canceled
        /\ d.closure = c.closure
    BY <2>1 DEF CallRec
  <2>4. CallBack(c) = d
    BY <1>2 DEF CallBack
  <2>5. Accounted(d)
    BY <2>3 DEF Accounted
  <2> HIDE DEF d
  <2> QED
    BY <1>2, <2>2, <2>3, <2>4, <2>5 DEF Step
<1> QED
  BY <1>1, <1>2

LEMMA ReportSteps ==
    ASSUME NEW c \in CallRec, Accounted(c), NEW e \in Errors
    PROVE  /\ Step(c, Report(c, e)) /\ (c.closure => Report(c, e).finished)
           /\ ~c.finished /\ c.closure => Report(c, e).runs = 1 /\ Report(c, e).seen = e
<1> DEFINE d == SetError(c, e)
<1>1. /\ d \in CallRec /\ Accounted(d) /\ d.err = e /\ d.finished = c.finished
      /\ d.closure = c.closure /\ d.runs = c.runs /\ d.seen = c.seen /\ d.canceled = c.canceled
  BY DEF SetError, CallRec, Accounted
<1>2. Report(c, e) = CallBack(d)
  BY DEF Report
<1> QED
  BY <1>1, <1>2, CallBackSteps DEF Step

\* The timeout: finished, and not reported if it was open.
LEMMA CancelSteps ==
    ASSUME NEW c \in CallRec, Accounted(c), ~c.finished
    PROVE  LET d == Report(StartCancel(c), "timeout")
           IN  /\ d \in CallRec /\ Accounted(d) /\ d.finished /\ d.closure = c.closure
               /\ d.runs = c.runs /\ d.seen = c.seen
<1> DEFINE b == StartCancel(c)
<1>1. /\ b \in CallRec /\ Accounted(b) /\ b.finished /\ b.closure = c.closure
      /\ b.runs = c.runs /\ b.seen = c.seen
  BY DEF StartCancel, CallRec, Accounted
<1>2. "timeout" \in Errors
  BY DEF Errors
<1> QED
  BY <1>1, <1>2, ReportSteps DEF Step

LEMMA CallTyped == CallInv => call \in CallRec /\ Accounted(call)
BY DEF CallInv, TypeOK, CallRec, ClosureAtMostOnce, Accounted

\* The types of all but the call.
OtherTypes ==
    /\ pc \in {"call", "retry", "inLoop", "returned"}
    /\ process \in {"up", "nullController", "sigpipe", "dangling"}
    /\ attempt \in 0..MaxRetry
    /\ loop \in {"none", "running", "ended"}
    /\ quit \in BOOLEAN
    /\ queued \in SUBSET Callbacks
    /\ timer \in {"none", "armed", "due", "fired"}
    /\ connError \in {"none"} \cup ConnectErrors
    /\ connState \in {"NotConnected", "Connected", "Closed"}
    /\ sock \in {"new", "connecting", "connected", "refused", "eof", "closed"}
    /\ blocking \in BOOLEAN
    /\ mask \in SUBSET {"IN", "OUT"}
    /\ onOut \in {"none", "connected", "write"}
    /\ registered \in BOOLEAN
    /\ writeDone \in BOOLEAN
    /\ readDone \in BOOLEAN
    /\ wire \in Writings
    /\ inbox \in Seq(Answers)
    /\ response \in BOOLEAN
    /\ alive \in BOOLEAN
    /\ failed \in BOOLEAN
    /\ answered \in BOOLEAN

LEMMA Pieces ==
    CallInv <=> /\ call \in CallRec /\ Accounted(call) /\ OtherTypes
                /\ OpenInv /\ QueueInv /\ ConnInv /\ WireInv /\ QuietInv /\ AttemptInv
BY DEF CallInv, TypeOK, OtherTypes, CallRec, ClosureAtMostOnce, Accounted

LEMMA PiecesNext ==
    ASSUME call' \in CallRec, Accounted(call'), OtherTypes',
           OpenInv', QueueInv', ConnInv', WireInv', QuietInv', AttemptInv'
    PROVE  CallInv'
BY DEF CallInv, TypeOK, OtherTypes, CallRec, ClosureAtMostOnce, Accounted

\* The done of connect reports an error, or queues the request.
DoneFacts(err) ==
    /\ Step(call, call') /\ quit' \in BOOLEAN
    /\ UNCHANGED <<readDone, wire, inbox, response, answered>>
    /\ err # "none" => /\ writeDone' = writeDone
                       /\ call.closure => call'.finished
                       /\ ~call.finished /\ call.closure => call'.seen = err
    /\ err = "none" => call' = call /\ writeDone' = TRUE

\* If it has reported, the error was one, and is the one reported.
LEMMA DoneReports ==
    ASSUME NEW err, DoneFacts(err), call.runs = 0, call'.runs = 1
    PROVE  err # "none" /\ call'.seen = err
<1>1. ~call.finished /\ call.closure
  BY DEF DoneFacts, Step
<1>2. err # "none"
  BY DEF DoneFacts
<1> QED
  BY <1>1, <1>2 DEF DoneFacts

LEMMA DoneSteps ==
    ASSUME CallInv, NEW err \in {"none"} \cup ConnectErrors, ConnectDone(err)
    PROVE  DoneFacts(err)
<1>0. call \in CallRec /\ Accounted(call) /\ quit \in BOOLEAN
  BY Pieces DEF OtherTypes
<1>1. CASE err # "none"
  <2>1. err \in Errors /\ call' = Report(call, err) /\ MayStop /\ UNCHANGED dataVars
    BY <1>1 DEF ConnectDone, Errors
  <2> QED
    BY <1>0, <1>1, <2>1, ReportSteps DEF DoneFacts, MayStop, dataVars
<1>2. CASE err = "none"
  <2>1. writeDone' = TRUE /\ UNCHANGED <<call, quit, readDone, wire, inbox, response, answered>>
    BY <1>2 DEF ConnectDone
  <2> QED
    BY <1>0, <1>2, <2>1 DEF DoneFacts, Step
<1> QED
  BY <1>1, <1>2

-----------------------------------------------------------------------------
(* The steps of CallMethod.                                                *)

LEMMA InitCall == Init => CallInv
<1> SUFFICES ASSUME Init PROVE CallInv
  OBVIOUS
<1>1. call \in CallRec /\ Accounted(call)
  BY DEF Init, CallRec, Accounted, Errors
<1>2. quit \in BOOLEAN /\ inbox \in Seq(Answers) /\ attempt \in 0..MaxRetry
  BY CallAssumption DEF Init
<1>3. OtherTypes
  BY <1>2 DEF Init, OtherTypes, Writings
<1>4. OpenInv /\ QueueInv /\ ConnInv /\ WireInv /\ QuietInv /\ AttemptInv
  BY DEF Init, OpenInv, QueueInv, ConnInv, WireInv, QuietInv, AttemptInv
<1> QED
  BY <1>1, <1>3, <1>4, Pieces

LEMMA RejectedKeeps == CallInv /\ CallRejected => CallInv'
<1> SUFFICES ASSUME CallInv, CallRejected PROVE CallInv'
  OBVIOUS
<1>0. /\ call \in CallRec /\ Accounted(call) /\ OtherTypes
      /\ OpenInv /\ QueueInv /\ ConnInv /\ WireInv /\ QuietInv /\ AttemptInv
  BY Pieces
<1>1. /\ pc = "call" /\ pc' = "returned"
      /\ UNCHANGED <<process, attempt, loop, queued, quit, timer, connError, connState,
                     sock, blocking, failed, mask, onOut, registered, writeDone, readDone,
                     wire, inbox, response, answered, alive>>
  BY DEF CallRejected, controlVars, epollVars, dataVars, sockVars, connVars
<1>2. Step(call, call') /\ (call.closure => call'.finished)
  <2>1. PICK e \in {"channelInit", "peerAddr", "serialize"} : call' = Report(call, e)
    BY DEF CallRejected
  <2> QED
    BY <1>0, <2>1, ReportSteps DEF Errors
<1>3. call' \in CallRec /\ Accounted(call')
  BY <1>2 DEF Step
<1>4. OtherTypes'
  BY <1>0, <1>1 DEF OtherTypes
<1>5. OpenInv' /\ QueueInv' /\ ConnInv' /\ WireInv' /\ AttemptInv'
  BY <1>0, <1>1, <1>2 DEF OpenInv, QueueInv, ConnInv, WireInv, AttemptInv, Step
<1>6. QuietInv'
  BY <1>0, <1>1 DEF QuietInv, Quiet, ConnInv
<1> QED
  BY <1>3, <1>4, <1>5, <1>6, PiecesNext

\* Steps that leave the call and its connection as they are.
LEMMA IdleKeeps ==
    ASSUME CallInv,
           CallUninitialised \/ CallAccepted \/ RetryDone \/ EpollRound \/ LoopExit
             \/ TimerExpires \/ RunDangling \/ RunWriteToNobody \/ UNCHANGED vars
    PROVE  CallInv' /\ UNCHANGED <<call, wire, response, answered>>
<1>0. /\ call \in CallRec /\ Accounted(call) /\ OtherTypes
      /\ OpenInv /\ QueueInv /\ ConnInv /\ WireInv /\ QuietInv /\ AttemptInv
  BY Pieces
<1>1. /\ UNCHANGED <<attempt, call, connError, connState, sock, blocking, failed, mask,
                     onOut, writeDone, readDone, wire, inbox, response, answered, alive>>
  BY DEF CallUninitialised, CallAccepted, RetryDone, EpollRound, LoopExit, TimerExpires,
         RunDangling, RunWriteToNobody, Running, vars, controlVars, epollVars, dataVars, sockVars, connVars
<1>2. OtherTypes'
  <2>1. /\ pc' \in {"call", "retry", "inLoop", "returned"}
        /\ process' \in {"up", "nullController", "sigpipe", "dangling"}
        /\ loop' \in {"none", "running", "ended"}
        /\ timer' \in {"none", "armed", "due", "fired"}
    BY <1>0 DEF OtherTypes, CallUninitialised, CallAccepted, RetryDone, EpollRound, LoopExit,
           TimerExpires, RunDangling, RunWriteToNobody, Running, vars, controlVars, epollVars, dataVars, sockVars, connVars
  <2>2. queued' \in SUBSET Callbacks
    BY <1>0 DEF OtherTypes, CallUninitialised, CallAccepted, RetryDone, EpollRound, LoopExit,
           TimerExpires, RunDangling, RunWriteToNobody, Running, vars, controlVars, epollVars, dataVars, sockVars, connVars,
           SocketReady, Callbacks
  <2>3. quit' \in BOOLEAN /\ registered' \in BOOLEAN
    BY <1>0 DEF OtherTypes, CallUninitialised, CallAccepted, RetryDone, EpollRound, LoopExit,
           TimerExpires, RunDangling, RunWriteToNobody, Running, vars, controlVars, epollVars, dataVars, sockVars, connVars
  <2> QED
    BY <1>0, <1>1, <2>1, <2>2, <2>3 DEF OtherTypes
<1>3. /\ pc' = pc \/ (pc \in {"call", "retry", "inLoop"} /\ pc' \in {"retry", "returned"}
                      /\ (pc' = "returned" => pc # "inLoop") /\ queued' = {})
      /\ loop' = loop \/ loop' = "ended"
      /\ pc # "call" => pc' # "call"
  BY <1>0 DEF CallUninitialised, CallAccepted, RetryDone, EpollRound, LoopExit, TimerExpires,
         RunDangling, RunWriteToNobody, Running, vars, controlVars, epollVars, dataVars, sockVars, connVars, QueueInv
<1>4. /\ queued' \subseteq queued
           \cup {c \in Callbacks : c = "timer" \/ (c = onOut /\ "OUT" \in mask)
                                    \/ (c = "read" /\ "IN" \in mask)}
      /\ pc \in {"call", "retry"} => queued' = queued
  BY <1>0 DEF CallUninitialised, CallAccepted, RetryDone, EpollRound, LoopExit, TimerExpires,
         RunDangling, RunWriteToNobody, Running, vars, controlVars, epollVars, dataVars, sockVars, connVars, SocketReady, Callbacks,
         Looping
<1>5. OpenInv' /\ QuietInv'
  BY <1>0, <1>1, <1>3 DEF OpenInv, QuietInv, Quiet
<1>6. QueueInv'
  BY <1>0, <1>1, <1>3, <1>4 DEF QueueInv, OtherTypes
<1>7. ConnInv' /\ WireInv'
  BY <1>0, <1>1, <1>3, <1>4 DEF ConnInv, WireInv, OtherTypes
<1>8. AttemptInv'
  BY <1>0, <1>1, <1>3 DEF AttemptInv
<1> QED
  BY <1>0, <1>1, <1>2, <1>5, <1>6, <1>7, <1>8, PiecesNext

\* Only an unused socket, or one whose attempt has come to its end since, can be
\* connected at once; only an unused one later.
LEMMA UnusedSocket ==
    /\ "ok" \in ConnectOutcomes =>
         sock = "new" \/ (sock \in {"connected", "eof"} /\ connState = "NotConnected")
    /\ "inProgress" \in ConnectOutcomes => sock = "new"
BY DEF ConnectOutcomes

LEMMA InProgressKeeps ==
    ASSUME CallInv, ConnectInProgress
    PROVE  CallInv' /\ UNCHANGED <<call, wire, response, answered>>
<1>0. /\ call \in CallRec /\ Accounted(call) /\ OtherTypes
      /\ OpenInv /\ QueueInv /\ ConnInv /\ WireInv /\ QuietInv /\ AttemptInv
  BY Pieces
<1>1. /\ pc = "retry" /\ sock = "new" /\ sock' = "connecting"
      /\ attempt < MaxRetry /\ attempt' = attempt + 1 /\ connState # "Connected"
      /\ mask' = mask \cup {"OUT"} /\ onOut' = "connected" /\ registered' = TRUE
      /\ loop' # "none" /\ loop' \in {loop, "running"} /\ pc' \in {"retry", "inLoop"}
      /\ UNCHANGED <<process, queued, quit, timer, call, connError, connState, blocking,
                     failed, writeDone, readDone, wire, inbox, response, answered, alive>>
  BY UnusedSocket DEF ConnectInProgress, Trying, controlVars, epollVars, dataVars, sockVars, connVars
<1>2. queued = {} /\ onOut # "write"
  BY <1>0, <1>1 DEF QueueInv, ConnInv
<1>3. attempt' \in 0..MaxRetry /\ attempt' > 0
  BY <1>0, <1>1, CallAssumption DEF OtherTypes
<1>4. OtherTypes'
  BY <1>0, <1>1, <1>3 DEF OtherTypes
<1>5. OpenInv' /\ QueueInv' /\ ConnInv'
  BY <1>0, <1>1, <1>2 DEF OpenInv, QueueInv, ConnInv
<1>6. WireInv' /\ QuietInv' /\ AttemptInv'
  BY <1>0, <1>1, <1>2, <1>3 DEF WireInv, Whole, QuietInv, Quiet, AttemptInv, ConnInv
<1> QED
  BY <1>0, <1>1, <1>4, <1>5, <1>6, PiecesNext

LEMMA AtOnceKeeps ==
    ASSUME CallInv, ConnectAtOnce
    PROVE  CallInv' /\ DoneFacts(connError)
<1>0. /\ call \in CallRec /\ Accounted(call) /\ OtherTypes
      /\ OpenInv /\ QueueInv /\ ConnInv /\ WireInv /\ QuietInv /\ AttemptInv
  BY Pieces
<1>1. /\ pc = "retry" /\ sock' \in {"connected", "eof"}
      /\ sock = "new" \/ (sock \in {"connected", "eof"} /\ connState = "NotConnected")
      /\ attempt < MaxRetry /\ attempt' = attempt + 1 /\ connState' = "Connected"
      /\ ConnectDone(connError)
      /\ connError = "none" => /\ mask' = mask \cup {"OUT"} /\ onOut' = "write"
                              /\ registered' = TRUE
      /\ connError # "none" => UNCHANGED <<mask, onOut, registered>>
      /\ UNCHANGED <<process, pc, loop, queued, timer, connError, blocking, failed, alive>>
  BY UnusedSocket DEF ConnectAtOnce, Trying, ListenWrite, controlVars, epollVars, dataVars, sockVars, connVars
<1>2. queued = {} /\ onOut # "write"
  BY <1>0, <1>1 DEF QueueInv, ConnInv
<1>3. attempt' \in 0..MaxRetry /\ attempt' > 0
  BY <1>0, <1>1, CallAssumption DEF OtherTypes
<1>4. DoneFacts(connError)
  BY <1>0, <1>1, DoneSteps DEF OtherTypes
<1>5. call' \in CallRec /\ Accounted(call')
  BY <1>4 DEF DoneFacts, Step
<1>6. OtherTypes'
  <2>1. writeDone' \in BOOLEAN /\ mask' \in SUBSET {"IN", "OUT"} /\ registered' \in BOOLEAN
        /\ onOut' \in {"none", "connected", "write"}
    BY <1>0, <1>1, <1>4 DEF DoneFacts, OtherTypes
  <2> QED
    BY <1>0, <1>1, <1>3, <1>4, <2>1 DEF DoneFacts, OtherTypes
<1>7. OpenInv' /\ QueueInv'
  BY <1>0, <1>1, <1>2, <1>4 DEF OpenInv, QueueInv, DoneFacts, Step
<1>8. ConnInv' /\ WireInv'
  BY <1>0, <1>1, <1>2, <1>4 DEF ConnInv, WireInv, Whole, DoneFacts
<1>9. QuietInv' /\ AttemptInv'
  BY <1>0, <1>1, <1>2, <1>3, <1>4 DEF QuietInv, Quiet, AttemptInv, ConnInv, DoneFacts
<1> QED
  BY <1>4, <1>5, <1>6, <1>7, <1>8, <1>9, PiecesNext

LEMMA ErrorKeeps ==
    ASSUME CallInv, ConnectError
    PROVE  CallInv' /\ DoneFacts("failedConnect")
<1>0. /\ call \in CallRec /\ Accounted(call) /\ OtherTypes
      /\ OpenInv /\ QueueInv /\ ConnInv /\ WireInv /\ QuietInv /\ AttemptInv
  BY Pieces
<1>1. /\ pc = "retry" /\ sock' \in {sock, "new"} /\ (sock' # sock => sock = "refused")
      /\ sock' # "refused" /\ failed' = (failed \/ sock \in {"new", "refused"})
      /\ attempt < MaxRetry /\ attempt' = attempt + 1 /\ connState # "Connected"
      /\ connError' = "failedConnect" /\ ConnectDone("failedConnect")
      /\ UNCHANGED <<process, pc, loop, queued, timer, connState, blocking, mask, onOut,
                     registered, alive>>
  BY DEF ConnectError, Trying, controlVars, epollVars, dataVars, sockVars, connVars
<1>2. queued = {} /\ (onOut = "write" => connState = "Closed")
  BY <1>0, <1>1 DEF QueueInv, ConnInv, OtherTypes
<1>3. attempt' \in 0..MaxRetry /\ attempt' > 0
  BY <1>0, <1>1, CallAssumption DEF OtherTypes
<1>4. DoneFacts("failedConnect") /\ "failedConnect" # "none"
  BY <1>1, DoneSteps DEF ConnectErrors
<1>5. call' \in CallRec /\ Accounted(call')
  BY <1>4 DEF DoneFacts, Step
<1>6. OtherTypes'
  <2>1. failed' \in BOOLEAN /\ connError' \in ConnectErrors
        /\ sock' \in {"new", "connecting", "connected", "refused", "eof", "closed"}
    BY <1>0, <1>1 DEF OtherTypes, ConnectErrors
  <2> QED
    BY <1>0, <1>1, <1>3, <1>4, <2>1 DEF DoneFacts, OtherTypes
<1>7. OpenInv' /\ QueueInv'
  BY <1>0, <1>1, <1>2, <1>4 DEF OpenInv, QueueInv, DoneFacts, Step
<1>8. ConnInv' /\ WireInv'
  BY <1>0, <1>1, <1>2, <1>4 DEF ConnInv, WireInv, DoneFacts
<1>9. QuietInv' /\ AttemptInv'
  BY <1>0, <1>1, <1>2, <1>3, <1>4 DEF QuietInv, Quiet, AttemptInv, ConnInv, DoneFacts
<1> QED
  BY <1>4, <1>5, <1>6, <1>7, <1>8, <1>9, PiecesNext

-----------------------------------------------------------------------------
(* The callbacks.                                                          *)

LEMMA ConnectedKeeps ==
    ASSUME CallInv, RunConnected
    PROVE  /\ CallInv' /\ DoneFacts(connError')
           /\ connError' # "none" => failed' \/ (loop # "none" /\ attempt > 0 /\ sock # "new")
<1>0. /\ call \in CallRec /\ Accounted(call) /\ OtherTypes
      /\ OpenInv /\ QueueInv /\ ConnInv /\ WireInv /\ QuietInv /\ AttemptInv
  BY Pieces
<1>1. /\ loop = "running" /\ pc \in {"inLoop", "returned"} /\ "connected" \in queued
      /\ queued' = queued \ {"connected"} /\ ConnectDone(connError')
      /\ UNCHANGED <<process, pc, attempt, loop, timer, alive>>
  BY DEF RunConnected, Running, Looping
<1>2. onOut = "connected"
  BY <1>0, <1>1 DEF QueueInv
<1>3. \/ /\ sock \in {"connected", "eof"} /\ connState' = "Connected"
         /\ connError = "none" => /\ mask' = mask \cup {"OUT"} /\ onOut' = "write"
                                 /\ registered' = TRUE
         /\ connError # "none" => registered' = FALSE /\ UNCHANGED <<mask, onOut>>
         /\ UNCHANGED <<connError, sock, blocking, failed>>
      \/ /\ sock \in {"new", "refused"} /\ connError' \in ConnectErrors
         /\ sock' = "new" /\ blocking' = TRUE /\ failed' = TRUE /\ registered' = FALSE
         /\ UNCHANGED <<connState, mask, onOut>>
  BY DEF RunConnected, ListenWrite, controlVars, epollVars, dataVars, sockVars, connVars
<1>4. connError' \in {"none"} \cup ConnectErrors /\ "none" \notin ConnectErrors
  BY <1>0, <1>3 DEF OtherTypes, ConnectErrors
<1>5. DoneFacts(connError')
  BY <1>1, <1>4, DoneSteps
<1>6. call' \in CallRec /\ Accounted(call')
  BY <1>5 DEF DoneFacts, Step
<1>7. OtherTypes'
  <2>1. /\ connState' \in {"NotConnected", "Connected", "Closed"}
        /\ sock' \in {"new", "connecting", "connected", "refused", "eof", "closed"}
        /\ mask' \in SUBSET {"IN", "OUT"} /\ onOut' \in {"none", "connected", "write"}
        /\ queued' \in SUBSET Callbacks
    BY <1>0, <1>1, <1>3 DEF OtherTypes
  <2>2. blocking' \in BOOLEAN /\ failed' \in BOOLEAN /\ registered' \in BOOLEAN
        /\ writeDone' \in BOOLEAN
    BY <1>0, <1>3, <1>5 DEF OtherTypes, DoneFacts
  <2> QED
    BY <1>0, <1>1, <1>4, <1>5, <2>1, <2>2 DEF DoneFacts, OtherTypes
<1>8. OpenInv' /\ QueueInv'
  BY <1>0, <1>1, <1>2, <1>3, <1>5 DEF OpenInv, QueueInv, DoneFacts, Step
<1>9. ConnInv' /\ WireInv'
  BY <1>0, <1>1, <1>2, <1>3, <1>4, <1>5 DEF ConnInv, WireInv, Whole, DoneFacts
<1>10. QuietInv' /\ AttemptInv'
  BY <1>0, <1>1, <1>2, <1>3, <1>4, <1>5 DEF QuietInv, Quiet, AttemptInv, ConnInv, DoneFacts
<1>11. connError' # "none" => failed' \/ (loop # "none" /\ attempt > 0 /\ sock # "new")
  BY <1>0, <1>1, <1>3 DEF AttemptInv
<1> QED
  BY <1>5, <1>6, <1>7, <1>8, <1>9, <1>10, <1>11, PiecesNext

LEMMA TimerKeeps ==
    ASSUME CallInv, RunTimer
    PROVE  /\ CallInv' /\ UNCHANGED <<wire, response, answered>>
           /\ call'.finished /\ call'.runs = call.runs /\ call'.seen = call.seen
<1>0. /\ call \in CallRec /\ Accounted(call) /\ OtherTypes
      /\ OpenInv /\ QueueInv /\ ConnInv /\ WireInv /\ QuietInv /\ AttemptInv
  BY Pieces
<1>1. /\ loop = "running" /\ pc \in {"inLoop", "returned"} /\ timer' = "fired"
      /\ queued' = queued \ {"timer"}
      /\ alive' \in {alive, FALSE} /\ registered' \in {registered, FALSE}
      /\ sock' = sock \/ (sock' = "closed" /\ pc = "returned")
      /\ UNCHANGED <<process, pc, attempt, loop, connError, connState, blocking, failed,
                     mask, onOut, writeDone, readDone, wire, inbox, response, answered>>
  BY DEF RunTimer, Running, Looping, controlVars, epollVars, dataVars, sockVars, connVars
<1>2. /\ call' \in CallRec /\ Accounted(call') /\ call'.finished
      /\ call'.runs = call.runs /\ call'.seen = call.seen
  <2>1. CASE call.finished
    BY <1>0, <2>1 DEF RunTimer
  <2>2. CASE ~call.finished
    <3>1. call' = Report(StartCancel(call), "timeout")
      BY <2>2 DEF RunTimer
    <3> QED
      BY <1>0, <2>2, <3>1, CancelSteps
  <2> QED
    BY <2>1, <2>2
<1>3. quit' \in BOOLEAN
  BY <1>0 DEF RunTimer, MayStop, OtherTypes
<1>4. OtherTypes'
  <2>1. /\ alive' \in BOOLEAN /\ registered' \in BOOLEAN
        /\ sock' \in {"new", "connecting", "connected", "refused", "eof", "closed"}
        /\ queued' \in SUBSET Callbacks
    BY <1>0, <1>1 DEF OtherTypes
  <2> QED
    BY <1>0, <1>1, <1>3, <2>1 DEF OtherTypes
<1>5. OpenInv' /\ QueueInv' /\ ConnInv'
  BY <1>0, <1>1, <1>2 DEF OpenInv, QueueInv, ConnInv
<1>6. WireInv' /\ QuietInv' /\ AttemptInv'
  BY <1>0, <1>1, <1>2 DEF WireInv, QuietInv, Quiet, AttemptInv
<1> QED
  BY <1>1, <1>2, <1>4, <1>5, <1>6, PiecesNext

LEMMA WriteKeeps ==
    ASSUME CallInv, RunWrite
    PROVE  /\ CallInv' /\ UNCHANGED <<call, response, answered>>
           /\ wire' # wire => call.runs = 0
<1>0. /\ call \in CallRec /\ Accounted(call) /\ OtherTypes
      /\ OpenInv /\ QueueInv /\ ConnInv /\ WireInv /\ QuietInv /\ AttemptInv
  BY Pieces
<1>1. /\ loop = "running" /\ pc \in {"inLoop", "returned"} /\ "write" \in queued
      /\ queued' = queued \ {"write"} /\ "read" \notin queued
      /\ UNCHANGED <<process, pc, attempt, loop, quit, timer, call, connError, connState,
                     sock, blocking, failed, inbox, response, answered, alive>>
  BY DEF RunWrite, Running, Looping, controlVars, epollVars, dataVars, sockVars, connVars
<1>2. onOut = "write" /\ wire \notin Whole /\ inbox = <<>>
  BY <1>0, <1>1 DEF QueueInv, WireInv
<1>3. CASE connState # "Connected"
  <2>1. UNCHANGED <<writeDone, readDone, wire, mask, onOut, registered>>
    BY <1>3 DEF RunWrite, epollVars
  <2>2. OtherTypes'
    BY <1>0, <1>1, <2>1 DEF OtherTypes
  <2>3. OpenInv' /\ QueueInv' /\ ConnInv'
    BY <1>0, <1>1, <2>1 DEF OpenInv, QueueInv, ConnInv
  <2>4. WireInv' /\ QuietInv' /\ AttemptInv'
    BY <1>0, <1>1, <2>1 DEF WireInv, QuietInv, Quiet, AttemptInv
  <2> QED
    BY <1>0, <1>1, <2>1, <2>2, <2>3, <2>4, PiecesNext
<1>4. CASE connState = "Connected"
  <2>1. PICK all \in BOOLEAN, short \in BOOLEAN :
            /\ wire' = CASE all /\ (short \/ wire = "part") -> "garbled"
                         [] all /\ ~(short \/ wire = "part") -> "request"
                         [] ~all -> IF short THEN "part" ELSE wire
            /\ mask' = (IF all THEN mask \ {"OUT"} ELSE mask)
                         \cup (IF writeDone THEN {"IN"} ELSE {})
            /\ registered' = (registered \/ all \/ writeDone)
            /\ readDone' = (readDone \/ writeDone)
            /\ writeDone' = FALSE /\ onOut' = onOut
    BY <1>4 DEF RunWrite
  <2>2. /\ wire' \in Writings
        /\ wire' \in Whole => all
    BY <1>0, <1>2, <2>1 DEF OtherTypes, Writings, Whole
  <2>3. wire' \in Whole => "OUT" \notin mask'
    BY <2>1, <2>2
  <2>4. mask' \in SUBSET {"IN", "OUT"}
    BY <1>0, <2>1 DEF OtherTypes
  <2>5. registered' \in BOOLEAN /\ readDone' \in BOOLEAN /\ writeDone' \in BOOLEAN
    BY <1>0, <2>1 DEF OtherTypes
  <2>6. OtherTypes'
    BY <1>0, <1>1, <2>1, <2>2, <2>4, <2>5 DEF OtherTypes
  <2>7. OpenInv' /\ QueueInv' /\ ConnInv'
    BY <1>0, <1>1, <1>2, <2>1 DEF OpenInv, QueueInv, ConnInv
  <2>8. WireInv'
    BY <1>1, <1>2, <2>1, <2>3 DEF WireInv
  <2>9. call.runs = 0
    BY <1>0, <1>2, <1>4 DEF QuietInv, Quiet, CallRec, Accounted
  <2>10. QuietInv' /\ AttemptInv'
    BY <1>0, <1>1, <2>9 DEF QuietInv, AttemptInv
  <2> QED
    BY <1>0, <1>1, <2>6, <2>7, <2>8, <2>9, <2>10, PiecesNext
<1> QED
  BY <1>3, <1>4

\* An answer that the call waits for.
LEMMA AnswerSteps ==
    ASSUME CallInv, NEW a \in {"ok", "serviceError", "unparsable"}, Answer(a)
    PROVE  /\ Step(call, call') /\ (call.closure => call'.finished)
           /\ response' \in BOOLEAN /\ answered' \in BOOLEAN
           /\ ~call.finished /\ call.closure =>
                                /\ call'.seen = "none" => answered'
                                /\ call'.seen \notin ConnectErrors
                                /\ answered' => response'
<1>0. /\ call \in CallRec /\ Accounted(call) /\ OtherTypes
      /\ OpenInv /\ QueueInv /\ ConnInv /\ WireInv /\ QuietInv /\ AttemptInv
  BY Pieces
<1>1. CASE a = "ok"
  <2>1. response' = TRUE /\ answered' = TRUE /\ call' = CallBack(call)
    BY <1>1 DEF Answer
  <2> QED
    BY <1>0, <2>1, CallBackSteps DEF OpenInv, ConnectErrors
<1>2. CASE a = "serviceError"
  <2>1. response' = TRUE /\ answered' = answered /\ call' = Report(call, "service")
    BY <1>0, <1>2 DEF Answer, OtherTypes
  <2> QED
    BY <1>0, <2>1, ReportSteps DEF OtherTypes, OpenInv, Errors, ConnectErrors
<1>3. CASE a = "unparsable"
  <2>1. response' = response /\ answered' = answered /\ call' = Report(call, "serialize")
    BY <1>0, <1>3 DEF Answer, OtherTypes
  <2> QED
    BY <1>0, <2>1, ReportSteps DEF OtherTypes, OpenInv, Errors, ConnectErrors
<1> QED
  BY <1>1, <1>2, <1>3

\* onRead leaves the call as it is, or hands it its answer.
LEMMA ReadKeeps ==
    ASSUME CallInv, RunRead
    PROVE  /\ CallInv' /\ UNCHANGED wire
           /\ \/ UNCHANGED <<call, response, answered>>
              \/ \E a \in {"ok", "serviceError", "unparsable"} :
                    Answer(a) /\ call.runs = 0 /\ wire \in Whole
<1>0. /\ call \in CallRec /\ Accounted(call) /\ OtherTypes
      /\ OpenInv /\ QueueInv /\ ConnInv /\ WireInv /\ QuietInv /\ AttemptInv
  BY Pieces
<1>1. /\ loop = "running" /\ pc \in {"inLoop", "returned"} /\ "read" \in queued
      /\ queued' = queued \ {"read"}
      /\ UNCHANGED <<process, pc, attempt, loop, timer, connError, sock, blocking, failed,
                     onOut, writeDone, wire, alive>>
  BY DEF RunRead, Running, Looping, Excute, PeerGone, controlVars, epollVars, dataVars, sockVars, connVars
<1>2. onOut = "write"
  BY <1>0, <1>1 DEF ConnInv, OtherTypes
<1>3. CASE UNCHANGED <<mask, registered, connState, inbox, readDone, response, answered,
                       call, quit>>
  <2>1. OtherTypes'
    BY <1>0, <1>1, <1>3 DEF OtherTypes
  <2>2. OpenInv' /\ QueueInv' /\ ConnInv'
    BY <1>0, <1>1, <1>3 DEF OpenInv, QueueInv, ConnInv
  <2>3. WireInv' /\ QuietInv' /\ AttemptInv'
    BY <1>0, <1>1, <1>3 DEF WireInv, QuietInv, Quiet, AttemptInv
  <2> QED
    BY <1>0, <1>1, <1>3, <2>1, <2>2, <2>3, PiecesNext
<1>4. CASE PeerGone
  <2>1. /\ mask' = {} /\ registered' = FALSE /\ connState' = "Closed" /\ inbox' = <<>>
        /\ UNCHANGED <<readDone, response, answered, call, quit>>
    BY <1>4 DEF PeerGone
  <2>2. OtherTypes'
    <3>1. /\ inbox' \in Seq(Answers)
          /\ mask' \in SUBSET {"IN", "OUT"} /\ registered' \in BOOLEAN
          /\ queued' \in SUBSET Callbacks
      <4>1. inbox' \in Seq(Answers)
        BY <2>1
      <4>2. mask' \in SUBSET {"IN", "OUT"} /\ registered' \in BOOLEAN
        BY <2>1
      <4>3. queued' \in SUBSET Callbacks
        BY <1>0, <1>1 DEF OtherTypes
      <4> QED
        BY <4>1, <4>2, <4>3
    <3>2. connState' \in {"NotConnected", "Connected", "Closed"}
      BY <2>1
    <3> QED
      BY <1>0, <1>1, <2>1, <3>1, <3>2 DEF OtherTypes
  <2>3. OpenInv' /\ QueueInv' /\ ConnInv'
    BY <1>0, <1>1, <1>2, <2>1 DEF OpenInv, QueueInv, ConnInv
  <2>4. WireInv' /\ QuietInv' /\ AttemptInv'
    BY <1>0, <1>1, <2>1 DEF WireInv, QuietInv, Quiet, AttemptInv
  <2> QED
    BY <1>0, <1>1, <2>1, <2>2, <2>3, <2>4, PiecesNext
<1>5. CASE connState = "Connected" /\ Excute
  <2>1. /\ inbox' = <<>> /\ UNCHANGED <<mask, registered, connState>> /\ wire \in Whole
    BY <1>0, <1>5 DEF Excute, WireInv, epollVars
  <2>2. inbox' \in Seq(Answers)
    BY <2>1
  <2>3. CASE UNCHANGED <<readDone, response, answered, call, quit>>
    <3>1. OtherTypes'
      BY <1>0, <1>1, <2>1, <2>2, <2>3 DEF OtherTypes
    <3>2. OpenInv' /\ QueueInv' /\ ConnInv'
      BY <1>0, <1>1, <2>1, <2>3 DEF OpenInv, QueueInv, ConnInv
    <3>3. WireInv' /\ QuietInv' /\ AttemptInv'
      BY <1>0, <1>1, <2>1, <2>3 DEF WireInv, QuietInv, Quiet, AttemptInv
    <3> QED
      BY <1>0, <1>1, <2>3, <3>1, <3>2, <3>3, PiecesNext
  <2>4. CASE ~UNCHANGED <<readDone, response, answered, call, quit>>
    <3>1. readDone /\ readDone' = FALSE /\ MayStop
      BY <1>5, <2>4 DEF Excute
    <3>2. PICK i \in DOMAIN inbox : inbox[i] # "other" /\ Answer(inbox[i])
      BY <1>5, <2>4 DEF Excute
    <3>3. inbox[i] \in {"ok", "serviceError", "unparsable"}
      BY <1>0, <3>2 DEF OtherTypes, Answers
    <3>4. PICK a \in {"ok", "serviceError", "unparsable"} : Answer(a)
      BY <3>2, <3>3
    <3>5. /\ Step(call, call') /\ (call.closure => call'.finished) /\ call' \in CallRec /\ Accounted(call')
          /\ response' \in BOOLEAN /\ answered' \in BOOLEAN
      BY <3>4, AnswerSteps DEF Step
    <3>6. quit' \in BOOLEAN
      BY <1>0, <3>1 DEF MayStop, OtherTypes
    <3>7. OtherTypes'
      <4>1. queued' \in SUBSET Callbacks /\ readDone' \in BOOLEAN
        BY <1>0, <1>1, <3>1 DEF OtherTypes
      <4> QED
        BY <1>0, <1>1, <2>1, <2>2, <3>5, <3>6, <4>1 DEF OtherTypes
    <3>8. OpenInv' /\ QueueInv' /\ ConnInv'
      BY <1>0, <1>1, <1>2, <2>1, <3>5 DEF OpenInv, QueueInv, ConnInv, Step
    <3>9. WireInv' /\ QuietInv' /\ AttemptInv'
      BY <1>0, <1>1, <2>1, <3>1 DEF WireInv, QuietInv, Quiet, AttemptInv
    <3>10. call.runs = 0
      BY <1>0, <1>2, <1>5, <2>1, <3>1 DEF QuietInv, Quiet, CallRec, Accounted
    <3> QED
      BY <1>1, <2>1, <3>4, <3>5, <3>7, <3>8, <3>9, <3>10, PiecesNext
  <2> QED
    BY <2>3, <2>4
<1> QED
  BY <1>3, <1>4, <1>5 DEF RunRead, epollVars

-----------------------------------------------------------------------------
(* The environment.                                                        *)

LEMMA NetworkKeeps ==
    ASSUME CallInv, SocketChanges \/ PeerAnswers
    PROVE  CallInv' /\ UNCHANGED <<call, wire, response, answered>>
<1>0. /\ call \in CallRec /\ Accounted(call) /\ OtherTypes
      /\ OpenInv /\ QueueInv /\ ConnInv /\ WireInv /\ QuietInv /\ AttemptInv
  BY Pieces
<1>1. CASE SocketChanges
  <2>1. /\ \/ sock = "connecting" /\ sock' \in {"connected", "refused"}
           \/ sock = "connected" /\ sock' = "eof"
        /\ UNCHANGED <<process, pc, attempt, loop, queued, quit, timer, call, connError,
                       connState, blocking, failed, mask, onOut, registered, writeDone,
                       readDone, wire, inbox, response, answered, alive>>
    BY <1>1 DEF SocketChanges, controlVars, epollVars, dataVars, sockVars, connVars
  <2>2. OtherTypes'
    BY <1>0, <2>1 DEF OtherTypes
  <2>3. OpenInv' /\ QueueInv' /\ ConnInv'
    BY <1>0, <2>1 DEF OpenInv, QueueInv, ConnInv
  <2>4. WireInv' /\ QuietInv' /\ AttemptInv'
    BY <1>0, <2>1 DEF WireInv, QuietInv, Quiet, AttemptInv
  <2> QED
    BY <1>0, <2>1, <2>2, <2>3, <2>4, PiecesNext
<1>2. CASE PeerAnswers
  <2>1. /\ wire \in Whole /\ inbox' \in Seq(Answers)
        /\ UNCHANGED <<process, pc, attempt, loop, queued, quit, timer, call, connError,
                       connState, sock, blocking, failed, mask, onOut, registered,
                       writeDone, readDone, wire, response, answered, alive>>
    <3>1. PICK a \in Answers : inbox' = Append(inbox, a)
      BY <1>2 DEF PeerAnswers
    <3>2. inbox' \in Seq(Answers)
      BY <1>0, <3>1 DEF OtherTypes
    <3> QED
      BY <1>2, <3>2 DEF PeerAnswers, controlVars, epollVars, dataVars, sockVars, connVars
  <2>2. OtherTypes'
    BY <1>0, <2>1 DEF OtherTypes
  <2>3. OpenInv' /\ QueueInv' /\ ConnInv'
    BY <1>0, <2>1 DEF OpenInv, QueueInv, ConnInv
  <2>4. WireInv' /\ QuietInv' /\ AttemptInv'
    BY <1>0, <2>1 DEF WireInv, QuietInv, Quiet, AttemptInv
  <2> QED
    BY <1>0, <2>1, <2>2, <2>3, <2>4, PiecesNext
<1> QED
  BY <1>1, <1>2

-----------------------------------------------------------------------------
(* Every step.                                                             *)

LEMMA NextKeeps == CallInv /\ [Next]_vars => CallInv'
<1> SUFFICES ASSUME CallInv, [Next]_vars PROVE CallInv'
  OBVIOUS
<1>1. CASE CallRejected
  BY <1>1, RejectedKeeps
<1>2. CASE ConnectAtOnce \/ ConnectInProgress \/ ConnectError
  BY <1>2, AtOnceKeeps, InProgressKeeps, ErrorKeeps
<1>3. CASE RunTimer \/ RunConnected \/ RunWrite \/ RunRead
  BY <1>3, TimerKeeps, ConnectedKeeps, WriteKeeps, ReadKeeps
<1>4. CASE SocketChanges \/ PeerAnswers
  BY <1>4, NetworkKeeps
<1>5. CASE CallUninitialised \/ CallAccepted \/ RetryDone \/ EpollRound \/ LoopExit
             \/ TimerExpires \/ RunDangling \/ RunWriteToNobody \/ UNCHANGED vars
  BY <1>5, IdleKeeps
<1> QED
  BY <1>1, <1>2, <1>3, <1>4, <1>5 DEF Next, CallStep, LoopStep, Environment

\* What a step may report: see ReportIsTrue.
TrueReport ==
    call.runs = 0 /\ call'.runs = 1 =>
        /\ call'.seen = "none" => answered'
        /\ call'.seen \in ConnectErrors => failed' \/ (loop # "none" /\ attempt > 0 /\ sock # "new")

LEMMA StepReports == CallInv /\ [Next]_vars => TrueReport
<1> SUFFICES ASSUME CallInv, [Next]_vars, call.runs = 0, call'.runs = 1
             PROVE  TrueReport
  BY DEF TrueReport
<1>0. /\ call \in CallRec /\ Accounted(call) /\ OtherTypes /\ AttemptInv
      /\ "none" \notin ConnectErrors
  BY Pieces DEF ConnectErrors
<1>1. CASE CallRejected
  <2>0. PICK e \in {"channelInit", "peerAddr", "serialize"} : call' = Report(call, e)
    BY <1>1 DEF CallRejected
  <2>1. ~call.finished /\ call.closure
    BY <1>0, <2>0, ReportSteps DEF Errors, Step
  <2>2. call'.seen \in {"channelInit", "peerAddr", "serialize"}
    BY <1>0, <2>0, <2>1, ReportSteps DEF Errors
  <2> QED
    BY <2>2 DEF TrueReport, ConnectErrors
<1>2. CASE ConnectAtOnce
  <2>1. call'.seen = connError /\ connError # "none"
    BY <1>2, AtOnceKeeps, DoneReports
  <2>2. /\ sock = "new" \/ (sock \in {"connected", "eof"} /\ connState = "NotConnected")
        /\ failed' = failed
    BY <1>2, UnusedSocket DEF ConnectAtOnce
  <2> QED
    BY <1>0, <2>1, <2>2 DEF TrueReport, AttemptInv
<1>3. CASE ConnectError
  <2>1. call'.seen = "failedConnect"
    BY <1>3, ErrorKeeps, DoneReports
  <2>2. failed' = (failed \/ sock \in {"new", "refused"}) /\ connState # "Connected" /\ pc = "retry"
    BY <1>3 DEF ConnectError, Trying
  <2>3. sock \notin {"new", "refused"} => loop # "none" /\ attempt > 0 /\ sock # "new"
    BY <1>0, <2>2 DEF AttemptInv, OtherTypes
  <2> QED
    BY <2>1, <2>2, <2>3 DEF TrueReport
<1>4. CASE RunConnected
  <2>1. call'.seen = connError' /\ connError' # "none"
    BY <1>4, ConnectedKeeps, DoneReports
  <2> QED
    BY <1>4, <2>1, ConnectedKeeps DEF TrueReport
<1>5. CASE RunRead
  <2>1. PICK a \in {"ok", "serviceError", "unparsable"} : Answer(a)
    BY <1>5, ReadKeeps
  <2>2. ~call.finished /\ call.closure
    BY <2>1, AnswerSteps DEF Step
  <2> QED
    BY <2>1, <2>2, AnswerSteps DEF TrueReport
<1>6. CASE RunTimer \/ RunWrite \/ SocketChanges \/ PeerAnswers \/ ConnectInProgress
             \/ CallUninitialised \/ CallAccepted \/ RetryDone \/ EpollRound \/ LoopExit
             \/ TimerExpires \/ RunDangling \/ RunWriteToNobody \/ UNCHANGED vars
  BY <1>6, TimerKeeps, WriteKeeps, NetworkKeeps, InProgressKeeps, IdleKeeps
<1> QED
  BY <1>1, <1>2, <1>3, <1>4, <1>5, <1>6 DEF Next, CallStep, LoopStep, Environment

-----------------------------------------------------------------------------
(* A call is a CallOutcome.                                                *)

LEMMA OpenMeans ==
    ASSUME NEW c \in CallRec, Accounted(c)
    PROVE  /\ ~c.finished <=> c.runs = 0 /\ ~c.canceled
           /\ c.runs > 0 <=> c.runs = 1
BY DEF CallRec, Accounted

\* An error code reported without an answer is a Report.
LEMMA ErrorIsReport ==
    ASSUME CallInv, Step(call, call'), UNCHANGED <<wire, response, answered>>,
           call' = call \/ ~call.closure
             \/ (call'.finished /\ (~call.finished => call'.seen # "none"))
    PROVE  [Caller!Next]_(Caller!vars)
<1>0. call \in CallRec /\ Accounted(call) /\ OtherTypes /\ OpenInv
  BY Pieces
<1>1. CASE call' = call \/ call.finished \/ ~call.closure
  <2>1. Outcome' = Outcome /\ call'.seen = call.seen
    BY <1>1 DEF Outcome, Step
  <2> QED
    BY <2>1 DEF Caller!vars
<1>2. CASE call' # call /\ ~call.finished /\ call.closure
  <2>1. Outcome = "open" /\ ~answered /\ ~response
    BY <1>0, <1>2, OpenMeans DEF Outcome, OpenInv
  <2>2. call'.finished /\ ~call'.canceled /\ call' \in CallRec /\ Accounted(call')
    BY <1>0, <1>2, OpenMeans DEF Step
  <2>3. Outcome' = "reported" /\ call'.seen \in Errors /\ call'.seen # "none"
    BY <1>2, <2>2, OpenMeans DEF Outcome, Accounted, CallRec
  <2> QED
    BY <2>1, <2>3 DEF Caller!Next, Caller!Report
<1> QED
  BY <1>1, <1>2

LEMMA DoneIsReport ==
    ASSUME CallInv, NEW err, DoneFacts(err)
    PROVE  [Caller!Next]_(Caller!vars)
<1>1. /\ Step(call, call') /\ UNCHANGED <<wire, response, answered>>
      /\ err # "none" /\ call.closure =>
           call'.finished /\ (~call.finished => call'.seen = err)
      /\ err = "none" => call' = call
  BY DEF DoneFacts
<1> QED
  BY <1>1, ErrorIsReport

\* The answer: reported if the call was open, LateAnswer if it was silent.
LEMMA AnswerMaps ==
    ASSUME CallInv, NEW a \in {"ok", "serviceError", "unparsable"}, Answer(a),
           call.runs = 0, wire \in Whole, UNCHANGED wire
    PROVE  [Caller!Next]_(Caller!vars)
<1>0. call \in CallRec /\ Accounted(call) /\ OtherTypes /\ OpenInv
  BY Pieces
<1>1. /\ Step(call, call') /\ (call.closure => call'.finished)
      /\ response' \in BOOLEAN /\ answered' \in BOOLEAN
      /\ ~call.finished /\ call.closure =>
           (call'.seen = "none" => answered') /\ (answered' => response')
  BY AnswerSteps
<1>1a. wire # "none"
  BY DEF Whole
<1>2. CASE ~call.finished /\ call.closure
  <2>1. Outcome = "open"
    BY <1>0, <1>2, OpenMeans DEF Outcome
  <2>2. call'.finished /\ ~call'.canceled /\ call' \in CallRec /\ Accounted(call')
    BY <1>0, <1>1, <1>2, OpenMeans DEF Step
  <2>3. Outcome' = "reported" /\ call'.seen \in Errors
    BY <1>1, <2>2, OpenMeans DEF Outcome, Accounted, CallRec
  <2> QED
    BY <1>1, <1>1a, <1>2, <2>1, <2>3 DEF Caller!Next, Caller!Report
<1>3. CASE call.finished \/ ~call.closure
  <2>1. Outcome = "silent" /\ Outcome' = "silent" /\ call'.seen = call.seen
    BY <1>0, <1>1, <1>3, OpenMeans DEF Outcome, Step
  <2>2. CASE a = "unparsable"
    <3>1. response' = response /\ answered' = answered
      BY <1>0, <2>2 DEF Answer, OtherTypes
    <3> QED
      BY <2>1, <3>1 DEF Caller!vars
  <2>3. CASE a # "unparsable"
    <3>1. response'
      BY <2>3 DEF Answer
    <3> QED
      BY <1>1, <1>1a, <2>1, <3>1 DEF Caller!Next, Caller!LateAnswer
  <2> QED
    BY <2>2, <2>3
<1> QED
  BY <1>2, <1>3

LEMMA StepMaps == CallInv /\ [Next]_vars => [Caller!Next]_(Caller!vars)
<1> SUFFICES ASSUME CallInv, [Next]_vars PROVE [Caller!Next]_(Caller!vars)
  OBVIOUS
<1>0. call \in CallRec /\ Accounted(call) /\ OtherTypes
  BY Pieces
<1>1. CASE CallRejected
  <2>1. PICK e \in {"channelInit", "peerAddr", "serialize"} : call' = Report(call, e)
    BY <1>1 DEF CallRejected
  <2>2. /\ Step(call, call') /\ (call.closure => call'.finished)
        /\ ~call.finished /\ call.closure => call'.seen # "none"
    BY <1>0, <2>1, ReportSteps DEF Errors
  <2>3. UNCHANGED <<wire, response, answered>>
    BY <1>1 DEF CallRejected, dataVars
  <2> QED
    BY <2>2, <2>3, ErrorIsReport
<1>2. CASE ConnectAtOnce \/ ConnectError \/ RunConnected
  BY <1>2, AtOnceKeeps, ErrorKeeps, ConnectedKeeps, DoneIsReport
<1>3. CASE RunTimer
  <2>1. /\ UNCHANGED <<wire, response, answered>> /\ call'.finished
        /\ call'.runs = call.runs /\ call'.seen = call.seen
    BY <1>3, TimerKeeps
  <2>1a. Outcome' = IF call'.runs > 0 THEN "reported" ELSE "silent"
    BY <2>1 DEF Outcome
  <2>2. Outcome' = Outcome \/ (Outcome = "open" /\ Outcome' = "silent")
    BY <2>1, <2>1a DEF Outcome
  <2> QED
    BY <2>1, <2>2 DEF Caller!Next, Caller!Expire, Caller!vars
<1>4. CASE RunWrite
  <2>1. /\ CallInv' /\ UNCHANGED <<call, response, answered>>
        /\ wire' # wire => call.runs = 0
    BY <1>4, WriteKeeps
  <2>2. wire' \in Writings
    BY <2>1 DEF CallInv, TypeOK
  <2>3. Outcome' = Outcome /\ (wire' # wire => Outcome # "reported")
    BY <2>1 DEF Outcome
  <2> QED
    BY <2>1, <2>2, <2>3 DEF Caller!Next, Caller!Send, Caller!vars
<1>5. CASE RunRead
  <2>1. UNCHANGED wire
    BY <1>5, ReadKeeps
  <2>2. CASE UNCHANGED <<call, response, answered>>
    BY <2>1, <2>2 DEF Caller!vars, Outcome
  <2>3. CASE \E a \in {"ok", "serviceError", "unparsable"} :
                Answer(a) /\ call.runs = 0 /\ wire \in Whole
    BY <2>1, <2>3, AnswerMaps
  <2> QED
    BY <1>5, <2>2, <2>3, ReadKeeps
<1>6. CASE SocketChanges \/ PeerAnswers \/ ConnectInProgress
             \/ CallUninitialised \/ CallAccepted \/ RetryDone \/ EpollRound \/ LoopExit
             \/ TimerExpires \/ RunDangling \/ RunWriteToNobody \/ UNCHANGED vars
  <2>1. UNCHANGED <<call, wire, response, answered>>
    BY <1>6, NetworkKeeps, InProgressKeeps, IdleKeeps
  <2> QED
    BY <2>1 DEF Caller!vars, Outcome
<1> QED
  BY <1>1, <1>2, <1>3, <1>4, <1>5, <1>6 DEF Next, CallStep, LoopStep, Environment

-----------------------------------------------------------------------------
(* The theorems.                                                           *)

\* The types of a call's state hold, in every branch of connect and of the loop.
THEOREM CallTypeCorrect == Spec => []TypeOK
<1>1. CallInv => TypeOK
  BY DEF CallInv
<1> QED
  BY <1>1, InitCall, NextKeeps, PTL DEF Spec

\* The closure runs at most once, and a call that is over without it has been
\* canceled by its timeout.
THEOREM ClosureRunsOnce == Spec => []ClosureAtMostOnce
<1>1. CallInv => ClosureAtMostOnce
  BY DEF CallInv
<1> QED
  BY <1>1, InitCall, NextKeeps, PTL DEF Spec

\* The error code that the closure reads is true: an answer for 0, a failed
\* attempt for an error of the connection, with the exception that ReportIsTrue
\* names.
THEOREM ReportsAreTrue == Spec => ReportIsTrue
<1>1. CallInv /\ [Next]_vars =>
        [call.runs = 0 /\ call'.runs = 1 =>
            /\ call'.seen = "none" => answered'
            /\ call'.seen \in ConnectErrors =>
                 failed' \/ (loop # "none" /\ attempt > 0 /\ sock # "new")]_vars
  BY StepReports DEF TrueReport
<1> QED
  BY <1>1, InitCall, NextKeeps, PTL DEF Spec, ReportIsTrue

\* RpcCall implements CallOutcome: once its closure has run nothing is sent or
\* parsed for the call any more.
THEOREM CallIsAnOutcome == Spec => ImplementsCall
<1>1. Init => Caller!Init
  <2> SUFFICES ASSUME Init PROVE Caller!Init
    OBVIOUS
  <2>1. call.runs = 0 /\ ~call.finished /\ call.seen = "none"
    BY DEF Init
  <2>2. Outcome \in {"open", "silent"}
    BY <2>1 DEF Outcome
  <2> QED
    BY <2>1, <2>2 DEF Init, Caller!Init
<1> QED
  BY <1>1, InitCall, NextKeeps, StepMaps, PTL DEF Spec, ImplementsCall, Caller!Spec
=============================================================================
