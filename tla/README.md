# A verification of netrpc

TLA+ modules for the RPC library in `src/netrpc`: models that TLC checks on small
instances, and theorems that TLAPS proves for every value of the constants.
`PROJECT.json` maps each definition to the lines it stands for and lists the
runs, the mutants (a plausible bug per property, which makes the property fail)
and the hazards.

    tlc -workers 2 -config MCEventLoop.cfg MCEventLoop      # one run
    tlapm EventLoopProofs.tla                               # one module of proofs

## 1. The system

| part | state | operations | talks to |
|---|---|---|---|
| **EventLoop** (`net/eventloop.cc`), one per thread | `m_pending_tasks` behind `m_mutex`, `m_listen_fds`, the epoll set, the eventfd, `m_quit`, `m_is_looping` | `loop`, `addTask`, `addEpollEvent`, `deleteEpollEvent`, `stop`, `wakeup` | FdEvent callbacks; any thread that posts |
| **FdEvent**, **FdEventGroup** | event mask and three callbacks per fd; one object per fd number | `listen`, `cancle`, `handler` | EventLoop copies the callbacks into its queue |
| **Timer**, **TimerEvent** | `m_pending_events` behind `m_mutex`, the timerfd, `m_is_cancled` | `addTimerEvent`, `deleteTimerEvent`, `resetArriveTime`, `onTimer` | EventLoop; RpcChannel, TcpServer, Logger use it |
| **TcpBuffer** | a byte vector, read and write index | `writeToBuffer`, `resizeBuffer`, `adjustBuffer`, `moveReadIndex`, `moveWriteIndex` | TcpConnection, coder |
| **TinyPB coder** | none of its own; the read index of the buffer | `encode`, `decode` | TcpConnection |
| **TcpConnection** | `m_state`, in and out buffer, `m_write_dones`, `m_read_dones`, FdEvent | `onRead`, `excute`, `onWrite`, `listenRead/Write`, `clear` | EventLoop, coder, RpcDispatcher, RpcChannel |
| **TcpClient** | `m_connect_error_code`, fd, connection | `connect`, `stop`, `writeMessage`, `readMessage` | EventLoop, RpcChannel |
| **RpcChannel**, **RpcController**, closure | finished and cancelled flags, error code, message id, timeout event | `CallMethod`, `callBack`, `StartCancel` | TcpClient, Timer, the caller |
| **TcpServer**, **TcpAcceptor** | `m_client`, the clearing timer | `onAccept`, `ClearClientTimerFunc` | main loop; hands connections to IO threads |
| **RpcDispatcher** | services by name | `dispatch`, `registerService` | TcpConnection, the services |
| **IOThread(Group)** | two semaphores, a thread, a loop; `m_index` | constructor, `start`, `Main`, `getIOThread` | TcpServer |
| **Logger**, **AsyncLogger** | two line buffers and two queues, each with a mutex; a writing thread per queue; stop flag, open file, number, date | `pushLog`, `syncLoop`, `Loop`, `stop`, `flush`, `CoredumpHandler` | every thread; the main thread's timer; signals |
| **LoadBalance**, **ConsistentHash** | the round robin index, a cached selector per method; a ring of virtual nodes | `select`, `insert`; `AddNewNode`, `DeleteNode`, `GetServerIndex` | RpcChannel; ConsistentHash is used by nobody |
| **ZkClient** and `registerService` | the ZooKeeper handle, a semaphore on `Start`'s stack; the tree is ZooKeeper's | `Start`, `global_watcher`, `Create`, `GetData`, destructor | RpcDispatcher, the library's threads, other servers |
| **MsgIDUtil**, **Config**, addresses | an id counter per thread; values read at start | `GenMsgID`, parsing | RpcChannel |

What is hard in it, and what correct means:

* **EventLoop.** Tasks are swapped out under a lock and run outside it while
  other threads post; the wakeup is one eventfd that a callback drains;
  `m_listen_fds` shadows the kernel's epoll set. Correct: no task lost, repeated or
  overtaken; the shadow true; a posted task runs; `stop` ends the loop.
* **One call.** Connecting, the retry loop, the answer, a lost connection and the
  timeout compete for one closure, with callbacks that are queued as copies.
  Correct: the closure runs once, reports what happened, and nothing happens to the
  call afterwards; the call ends.
* **Bytes.** Frames are cut anywhere by the network, the buffers grow and compact,
  `decode` looks at bytes that may not have come, and a message may hold the bytes of a
  frame. Correct: what was encoded is decoded, once, in order, before the close.
* **Server connections.** Accepted, marked and deleted by the main thread, used by
  an IO thread through bare pointers; peers that send half a request, close or reset
  at any time. Correct: each request answered, a dead connection closed
  and dropped, no use after deletion.
* **Timer.** Threads reset one timerfd from copies of the queue of different age.
  Correct: an event that waits is run, a cancelled one at most once more.
* **Logger.** Lines pass through three owners and two mutexes per log, and a
  signal may interrupt any of them. Correct: files hold the lines in order, a file
  ends when it is full, the process exits on a signal.
* **Descriptors.** One `FdEvent` per number for the whole process, whoever has the
  number; each IO thread shadows its own epoll set; numbers are closed in one thread and
  given away by `accept` in another. Correct: a socket that waits is watched, by its
  own loop, and an event leads to its holder's callback.
* **Registration.** Servers race for the same paths, `zoo_exists` and `zoo_create` are two
  steps, sessions connect late, are lost and expire, processes die and come
  back. Correct: registration ends, somebody stays, and what serves is found.
* **Choice of a server.** State kept from call to call while the lists of addresses change; hashes
  that collide. Correct: the choice is one that was offered; few keys move when a
  server joins or leaves.

## 2. The modules

```
TaskExecutor        what addTask promises (abstract)
  ^ implemented by
EventLoop           loop, queue, eventfd, epoll             <- EventLoopProofs
Descriptors         numbers, FdEvents, epoll sets of several IO threads,
                    shared by servers' and clients' sockets <- DescriptorsProofs
TcpBuffer           the byte buffer, as operators
  ^ used by
TinyPBStream        encode - write - network - read - decode <- TinyPBStreamProofs
CallOutcome         what a call is to its caller (abstract)
  ^ implemented by
RpcCall             one call of a client, from CALLRPC to its end <- RpcCallProofs
RpcServer           accept, keep, read, dispatch, write, drop <- RpcServerProofs
Timer               the timer queue and the timerfd         <- TimerProofs
Registry            registerService and ZkClient in several processes <- DiscoveryProofs
HashRing            the std::map of virtual nodes, as operators
  ^ used by
Balance             ConsistentHash and the three strategies <- DiscoveryProofs
Logger              buffers, queues, files, signal handler <- LoggerProofs
```

`MC*.tla` give constants their values where a `.cfg` cannot; `MC*.cfg` are the runs.

**EventLoop.** `pending` and `batch` are `m_pending_tasks` and `tmp_tasks`; `loopPc`
follows `loop()`: check the flag, swap, run each task, `epoll_wait`, handle each
result. A task is an "add" or "del" posted by a thread, or a copied callback.
Actions of the threads are `Listen` (the FdEvent of a new connection), the critical section of
`addTask`, and `Wakeup`, the eventfd's write that follows it outside the lock.
`RunHandler` is any callback of a connection: it may change its mask, give its
fd up or stop the loop. What `epoll_wait` returns is any set of registered fds, an error
included, the eventfd whenever it is signalled, or nothing (the 10 s timeout).
`addEpollEvent` called in the loop's own thread is part of `RunHandler`.

**RpcCall.** Everything runs in the calling thread, so a step is a callback, or
`CallMethod` up to where the loop starts. The thread may never have looped (a
main program), may loop (a service that calls another), or may have stopped: then `m_is_looping`
is still set, and nobody loops. `sock` is the kernel's socket with what `::connect`
says in each state (EINPROGRESS, EALREADY, refused, 0 once for a connection that has been
established in the background, EISCONN from then on); a failed attempt
makes a new, blocking socket. `call` is the controller together with the closure, which may be
missing: then nobody is told, and `SetFinished` is left out. A request that has been
written in parts (`part`), and whole behind them (`garbled`), may still be found by the peer. Answers are kinds: parsed, with an error
code, unparsable, or for another id. `process` ends the model where the program
dies: SIGPIPE, an uninitialised channel, a callback of a destroyed connection.

**TcpBuffer, TinyPBStream.** Index for index the code's buffer, with the third
of the array that `adjustBuffer` waits for and the bound of the move functions. A
frame keeps its start byte, four length bytes and end byte; its fields are any bytes
(`Fields`), a start, an end, or a whole frame among them. `decode` is one turn of `while (1)`
per step, and looks for a frame as the code does: at the first start byte that leads to an end
byte, wherever it lies. Length bytes that have not come are what the array holds, or anything
behind its end; the byte in front of the array may be an end, too. `misled` records that the frame
which was taken lies behind the start of one that had not all come.

**RpcServer.** The main thread takes `Accept` (the constructor, which already hands the
fd to the IO thread), `Keep` (`setState`, `m_client`) and `ClearClientTimer`.
The IO thread swaps, runs and waits like `EventLoop`, with callbacks of
bare connections. `Excute` follows `excute` and `dispatch`: the closure
encodes its response, then `excute` encodes all of them. A write takes the whole
buffer, or a part of it (EAGAIN), and starts from the same read index each
time. Peers send halves of requests, close, reset and read.

**Timer.** Time is relative: `due[e]` is what is left until `m_arrive_time`, `armed`
what is left until the timerfd expires, and `Tick` lets time pass between any two
steps: between the constructor of an event, which fixes its time (`SetArriveTime`), and
`AddTimerEvent`, and between the `now` of `onTimer` (`ReadNow`) and the lock under which it
collects what was due then. Of two events that are overdue, either may be the earlier.
`addTimerEvent` holds the lock, then `resetArriveTime` copies the
queue under the lock and sets the fd without it, as two steps (`CopyQueue`,
`SetTimer`).

**Logger.** `buffer`, `held`, `queue`, `tmp` and `written` are the places of a line. `syncLoop` has
two executions, the timer's and the signal handler's, each with its own
`tmp_vec`. A signal interrupts one thread (one that logs, the main one in the midst of
`syncLoop`, or a writing thread, whose join of itself returns EDEADLK), which may hold a
mutex then.

**CallOutcome.** A call is open, then reported (its closure ran, with a code) or silent (timed
out, or without a closure from the start).
`Report` requires an answer for code 0; only an open or a silent call is still
sent, and only a silent one's response is parsed into later: after `Report` everything stands
still. `RpcCall!Outcome` is the refinement mapping: `runs`, then `finished`.

**Descriptors.** `mask` and `callback` are the `FdEvent` of a number, `listed` is
`m_listen_fds` and `watched` the kernel's set of each loop, `toAdd` the adds posted by the main
thread. A socket is a TcpClient of a service or an accepted TcpConnection, with what it
waits for as its `phase`. `NewClient`, `RunConnected`, `RunRefused`, `RunClientWrite`,
`RunServerRead`, `RunWritten`, `RunEnd`, `RunUnheard` and `DestroyClient` are the places where the
code touches the FdEvent or the epoll set; `RunForeign` is an event whose callback is another
socket's. `Accept` is the constructor of a TcpConnection, which posts the add, and `SetConnected`
the `setState` that follows it: until then the connection is `fresh` and its callbacks return
at once. An error (EPOLLERR) may come with any event. The loop takes the number out of the epoll set
before the callbacks run; most of these take it out as well, or add it again, and `RunUnheard`
is the case in which none does: `onRead` of a fresh connection, or of a client that reads a last
part of its answer. `RunBroken` is the write to a socket in error (SIGPIPE).
The two semaphores of an IOThread are `thread` ("starting" until the first is posted)
and `started`. A callback runs at once: that it waits in a queue is EventLoop's
subject, and deletion of a connection between is RpcServer's.

**Registry.** Each server is the main thread's `pc` in `registerService`: `Start`,
`SetContext`, `StartReturns`, then `Exists` and `Create` for each path, in the order of
`m_service_map`, and again from the start for each further service, with a new
session. `Connect` is a session that connects and calls `global_watcher`, which is a null pointer's
`sem_post` before `zoo_set_context`; one that connects when `Start` has left its stack harms it, does
nothing, or posts the semaphore that the next `Start` has at the same place. `LoseConnection`, `Expire` and `Die`
are the faults; a process that comes back has new sessions and may find its old nodes. Two
histories belong to each server: `overlooked`, the paths it went past without a connection, and
`dropped`, those it had found or made and that have gone with a session since. A path leaves both when
somebody makes it, and both start anew with each walk.

**Balance, HashRing.** A ring is a function from points to nodes. The hash is any function of
`Hashes` from a node to its points, so that virtual nodes may collide. `Insert` keeps a point
that is taken (`std::map::insert`), `Erase` erases whoever has it; a node may be added twice, or
deleted without being there. `SelectorFor` builds a selector:
a point is the last address's that has it (`map[p] = n`, `IsLastAt`). `Selectors` is the cache of a method's selector, which `insert` does not replace.

## 3. The runs

| run | shows |
|---|---|
| `eventloop` | `TasksInOrder`, `EpollInSync`, `SleepsOnlyAfterDrain` (a posted task is slept on only if this round's batch read the eventfd after the post), `ImplementsExecutor` (refinement with liveness), `StopEndsLoop` |
| `rpc_call` | `ClosureAtMostOnce` (a call is over without its closure only if it timed out), `ReportIsTrue` (code 0 after an answer, not connected after a failure, with one exception), `ImplementsCall` (refinement of CallOutcome), `CallFinishes` |
| `stream` | `DecodedInOrder` (once, in order, before the close; if the scan was misled, then a message holds a start byte), `BytesStayInOrder`, `DecodedEventually` (or `decode` is `Stuck` at a frame that is cut in its length), each unless a read filled the buffer exactly |
| `server` | `IdleMeansAnswered`, `DeletedIsUnreachable`, `ClosedForGood`, `AnsweredEventually`, `GoneIsDropped` |
| `descriptors` | `TypeOK` with `WatchedAtHome`, `WaitingIsWatched` (exactly the sockets that inherited a listed number, and those that an error took out unheard, wait unwatched), `ForeignOnlyIfLeft`, `AcceptedIsWatched` |
| `timer` | `ArmedWhileWaiting`, `CancelledRunsAtMostOnce`, `CancelledLeaves`, `WaitingIsCollected` |
| `discovery` | `Registry`: `NotAllExit`, `ServingIsFound` (what is missing of a server that serves is exactly what it overlooked or what was dropped), `RegistrationEnds`. `Balance`: `BalanceTypeOK` with `RingIsMembers`, `KeysMoveOnlyWhenTheyMust`, `RoundTakesTurns` (a list that is asked twice in a row gives the next address). They share no state: each moves while the other is as it began (`MCDiscovery`) |
| `logger` | `LinesReachFiles` (each line is in one place, in order, in files that are not too full), `WrittenEventually` |

Four more runs have TLC find a disagreement between the code and what the
repository says of it (`PROJECT.json`, "findings"):

| run | the code |
|---|---|
| `stream_hang` | a frame whose length has not all come, behind the end of another, is an empty frame to `decode`, for ever |
| `server_replies` | a request is answered twice in one buffer, and again with every later write |
| `balance_stale` | a call by consistent hash gets an address that has left the list: `insert` does not replace the method's selector |
| `logger_exit` | the signal handler joins a writing thread that waits and that `stop` does not wake |

Some faults of the code are exact parts of properties that hold: when a message that holds
the bytes of a frame comes in two pieces, `decode` hands out the inner frame and loses the message
(`misled`, the exception of the stream's properties); a
call that times out ends without its closure (`StartCancel` sets the flag that `callBack`
tests: `CallOutcome!Expire`, `ClosureAtMostOnce`); on a thread that loops already the second
`::connect` meets EALREADY and the call fails although nothing has (the exception of
`ReportIsTrue`); a `read()` that fills `m_in_buffer` exactly is forgotten by `moveWriteIndex`
(theorem `FullReadIsLost`, and the exception of the stream's properties).

**Bounds**, and why they are enough. `eventloop`: two threads, one with two posts and
one with one (order within a thread, interleaving between two), one socket and the eventfd,
batches of two results. More fds add independent copies. `rpc_call`: three attempts (a
failure, retries, every order of their results), three answers in the buffer (the later ones
for a call that is over). `stream`: 25 bytes, up to three messages of three kinds: frames of 7 and
8 bytes (the latter with an end byte among its fields), no longer than a third of the buffer, so
that they leave the read index where they end, and one of 13, which is longer, makes
the buffer compact, and holds what looks like a frame. A frame can be cut at each
byte. With the code's 128 bytes a frame is shorter than a third, 42, when the caller has
set a short message id (`SetMsgId`) and the method has a short name; one with the 20 digits of
`MsgIDUtil` is always longer, and `stream_hang` does not concern it. The run `stream`, and the
theorems, are about both. `server`: a connection with two requests in four pieces
and a second one whose peer sends nothing: what two connections share is the queue,
`m_client` and the process. One short write. `descriptors`: two IO threads, three sockets
and two numbers: a number is held, closed, and held again by a socket of the same thread or of
the other, and a third socket finds no number. Errors come with any event. `timer`: a one-shot of 3 units, a repeated event
of 2, a grace of 1 and two calling threads. `discovery`: two servers with two services each, four sessions
(both rounds of both servers, or a server that has come back), one lost connection.
Three nodes and three hash functions: no collision, a shared point of two
nodes, and points shared along a chain; three lists that overlap, are of different lengths, and are
passed for two methods in every order. `logger`: two lines and the handler's in one log (a full
file, its second opening and the next file), one in the other, two days.

Deadlock is not checked: in every module the environment may stop, or the process may
die or be stopped, and a program with nothing to do then stands still.

**Fairness.** The loop's steps are weakly fair: its thread runs, its tasks return, and
`epoll_wait` has a timeout of 10 s; a thread that has begun a call of
`addEpollEvent`, `resetArriveTime` or `onAccept` finishes it; threads that are created start
(`ThreadStep`), and the main thread goes on to start the group (`StartGroup`) and from the
constructor of a connection to `setState` (`SetConnected`). Time passes (a
timer expires; the clearing timer is repeated every 5 s, the logger's every
`m_log_sync_interval`). In `Registry` the main thread goes on through `registerService` and a
session that is tried for ever connects (`Connect`), without which `Start` may rightly wait for
ever. Nothing is assumed of the network, of peers (except that one which does not
go away reads what it is sent, which `AnsweredEventually` needs), of callers, or of signals.

## 4. The proofs

| theorem | for every | argument |
|---|---|---|
| `EventLoopProofs!TypeCorrect` | set of threads and fds | the type invariant is inductive |
| `EpollStaysInSync` | ″ | inductive as it stands: `AddToEpoll` and `DeleteToEpoll` change the shadow, the kernel's set and its masks together, and `Listen` touches only an fd that is not registered |
| `WakeupLostOnlyByDrain` | ″ | `WakeupKept`, the same statement already while the batch runs: a task posted behind the swap has its wakeup, until a drain |
| `TasksOnceInOrder` | ″ | `QueueInv`: batch and pending, taken as one queue, hold exactly the numbers between `ran` and `posted` of each thread, ascending; lemmas for appending, swapping and popping |
| `ExecutorSafety` | ″ | step simulation under `QueueInv`: running the front of the queue is the executor's `Run` |
| `TinyPBStreamProofs!WriteAppends`, `MoveReadTakesPrefix`, `MoveWriteAppends`, `FullReadIsLost` | buffer, size, index and string | the readable contents as a function of the indices, through growth and compaction |
| `StreamTypeCorrect` | buffer size, messages of any bytes | indices stay in the array; the buffer is never full |
| `BytesKeepOrder` | ″ | each of read, decode and compaction takes a prefix of buffer ∘ wire, but for a frame found inside another |
| `DecodedIsSent` | ″ | `StreamInv`: there are offsets at which the frames lie in what was encoded (`Layout`), and what is unread, in the buffer and on the wire, is the rest of it from the offset of the next frame (`Received`); outside of `decode` the buffer holds less than a frame (`DecodeInv`). Once its length bytes have come the length of the next frame is certain (`CertainLength`); if all of it has come, its end is there, and the scan takes it and nothing else (`CompleteFrame`). If not, an end that the scan can match at its start is that of an empty frame only (`PartialFrame`), and any other match lies behind the start, which is what `misled` says; it is at a start byte, and that byte is one of the fields of the cut frame |
| `RpcServerProofs!ServerTypeCorrect` | connections, requests | inductive under `ServerInv` |
| `DeletedStaysUnreachable` | ″ | `QueueInv`: the task that registers a connection is the only one of it while it is in the queue, so that a connection cannot be closed before it has run; `ClosedInv`: `clear()` leaves nothing in the epoll set or in the pending tasks, and while a batch runs nothing but such "add" tasks is posted (`LoopInv`) |
| `ClosedIsForGood` | ″ | `ObjectInv`: a connection is made, marked and closed in this order: `clear()` closes only what is connected, and only the one `Keep` of a connection makes it so |
| `IdleHasAnswered` | ″ | `AnswerInv`: each decoded request has a reply in `m_out_buffer`, and all of it is on the wire when OUT is cancelled |
| `TimerProofs!TimerTypeCorrect`, `TimerIsArmed` | events, intervals, threads | `ArmedOnceReset`: from the reset of `onTimer` to the next expiry the fd is armed or expired, or a thread is between the queue's lock and `timerfd_settime` |
| `CancelledOnceAtMost` | ″ | `NotCollectedAgain`: the callback that ran after the cancel was the last one to be collected, also if the event was put back into the queue |
| `RpcCallProofs!CallTypeCorrect`, `ClosureRunsOnce`, `ReportsAreTrue` | attempts, answers | `CallInv`: before the request is queued nothing is written or awaited (`ConnInv`), what has been written whole is not written again (`WireInv`), sockets belong to attempts of a thread that has looped (`AttemptInv`) |
| `CallIsAnOutcome` | ″ | step simulation under `QuietInv`: when the closure has run, the connection is closed, or its error keeps the request back, or the one answer has been taken. `CallOutcome` states no fairness, so this is the whole refinement |
| `DescriptorsProofs!DescriptorsTypeCorrect`, `WaitersAreWatched`, `ForeignWasLeft` | IO threads, sockets, numbers | `DescInv`: a number has one holder (`NumbersInv`); an add on its way is that of a server connection of that loop, whose number no loop watches yet, and which inherited its number exactly if the loop has it listed now (`AddsInv`, needed for what `RunAdd` will do); what an event leads to is known for unwatched numbers too (`EventsInv`). `WaitersAreWatched` is an equivalence: a socket that is one of the two exceptions is not watched, and stays so as long as it waits |
| `DiscoveryProofs!RegistryTypeCorrect` | servers, services, sessions | the types, with who may hold a node in which state of its session |
| `ServersAreFound` | ″ | `RegInv`: of the paths that a server has passed, exactly those in its `dropped` and `overlooked` are missing (`FoundInv`); it overlooks one only if a connection has been lost, because `Start` returns with a session that is connected (`SessionInv`) or was told so by the late post of an earlier session of the process, which stays connected unless it is cut (`OwnInv`); `WalkInv` ties the place on the walk to the round |
| `SomeServerStays` | ″, at least one server | `RaceInv`: while no connection is lost some server has neither exited nor is about to create what is there by now. Whoever has made a path moves on from it and is that server, however many lost the race |
| `RingBelongsToMembers` | nodes, hash functions | inductive: a point leaves the ring only with a node that has it |
| `FewKeysMove` | nodes, hash functions, keys | the successor of a key, in a ring with points more or fewer, whether the node was a member or not: it stays, or is one of the new, or was one of the erased |
| `RoundRobinTakesTurns`, `BalanceTypeCorrect` | nodes, methods, lists, hash functions | `StrategyInv`: after a choice in turn the index is the place of what was chosen; every selector is `SelectorFor` of a list that was passed |
| `LoggerProofs!LoggerTypeCorrect` | threads, file size, lines, days | with `PcInv` and `WriterInv`: no batch is empty, and a writing thread holds one only before it writes it |
| `LinesAreKept` | ″ | `PlaceInv`: the six places of a line, taken as one sequence (`Trail`), hold each line that was logged once, in order until a signal comes; each step moves a piece from one place to the next. `FileInv`: file names are used up in the order of dates and numbers; the first full file of a day is opened once more (`m_no` goes from 0 to 1 with the same name next), so two batches may go into a file that is full, and no third |

The invariants hold under the named assumption of each module (`LoopAssumption`,
`StreamAssumption`, `TimerAssumption`, `CallAssumption`, `ServerAssumption`, `DescriptorsAssumption`,
`RegistryAssumption`, `BalanceAssumption`, `LoggerAssumption`): sets do not overlap or are finite, sizes are
natural numbers, a node has a point, a list of addresses is not empty, one timer event and one server exist.
Nothing else is assumed. The inductive invariants were checked by TLC on the runs' instances
before they were proved.

Every safety property of a passing run is stated by a theorem. For sequences that are flattened
(`FlattenSeq`: what `dispatch` makes of the requests, the lines of a batch, the batches of a file) the proofs
use one form of induction, over the set of the lengths for which the fact holds (`SetInduction`, from the
library's well-founded order of the naturals): it is what `FlattenIsDefined`, `FlattenAppend` and `FlattenTail`
rest on.

Model-checked only:

* All liveness (`ImplementsExecutor`'s fairness, `StopEndsLoop`, `CallFinishes`, `DecodedEventually`,
  `AnsweredEventually`, `GoneIsDropped`, `AcceptedIsWatched`, `CancelledLeaves`, `WaitingIsCollected`,
  `RegistrationEnds`, `WrittenEventually`): it needs ENABLED under fairness.
* The four disagreements, which are counterexamples (`DecodeReturns`, `RepliedOnce`,
  `PickIsOffered`, `ExitsAfterSignal`).

## 5. What is not modelled, and what was seen on the way

Not modelled:

* `MsgIDUtil`: a counter of 20 decimal digits per thread, from a random start. Its one edge, the
  roll-over of all nines, is out of reach of any run of the program.
* Configuration, address parsing, logging formats: parsing without state that changes.
* MD5 and MurmurHash (third party): any function in `Balance`.
* The test programs, which were read for how the library is used.

Within the modelled parts: `ZkClient::GetData` (only reads) and an error of `zookeeper_init`; the
destructors of IOThread, IOThreadGroup and FdEventGroup, which nothing reaches
(`~IOThreadGroup` deletes no thread); the growth of FdEventGroup's array under its
mutex; a socket error code other than
the ones above, a service that keeps its closure for later
(none does), a peer that sends frames the library's `encode` would not, whether the fields of a frame
that lies inside another parse (left open), a log file
that cannot be opened (the code does not check), a second signal.

Seen in the code, and kept out of the runs' properties or named in them as exceptions:

* A socket error that reaches the loop before `setState` takes the fd out of the epoll set
  while `onRead` returns at once: nobody closes or drops the connection, and nobody watches it.
  `GoneIsDropped` and `WaitingIsWatched` (`unheard`) name this exception.
* A task posted after the swap of a round in which the eventfd is drained waits up to 10 s
  (`SleepsOnlyAfterDrain` says exactly when). A new connection may wait so.
* A callback left in the running batch of the IO thread meets a connection that the
  main thread has just deleted (`RunDeleted`); `DeletedIsUnreachable` says that nothing
  else can.
* `~TcpClient` closes its number and leaves it in `m_listen_fds`: the next socket of that thread with
  this number is never watched (`inherited`). Its mask stays in the FdEvent as well, and
  an event may then lead to the closed client's callback (`RunForeign`).
* Nobody closes the number of an accepted connection: a server that has run out of
  them gets -1 from `accept`, and `getFdEvent(-1)` reads in front of its array.
* `TcpClient::connect` replaces `m_fd` after a refused attempt but keeps the FdEvent of the old number.
* `CallMethod` does not use the address that its strategy has chosen. Several lists share one round
  robin index: taken in turns, they may keep an address of one from ever being chosen.
* The watcher may run before `zoo_set_context`, and again after `Start` has left its stack, where the
  semaphore of the next `Start` may be.
* A server goes past a path without a connection: `zoo_exists` that fails is taken for "exists"
  (`overlooked`).
* An expired session is told to nobody: a server goes on to serve what is no longer found.
* `timerfd_settime` may be called with an older copy of the queue last; events come
  late by up to the later event's interval, and an overdue one by another 100 ms.
* A short write is followed by a write from the same index: the peer's stream is torn.
* On exit the writing thread leaves after one batch; what is behind it is lost.

## 6. Plan

1. *Done*: every part of the system with state of its own has a module and proofs; each safety
   property that a run checks is a theorem.
2. *Next theorems*: `TinyPBStream`: that `decode` hangs only at a frame cut in its length bytes; `RpcServer`: replies
   are of the requests that were decoded, in their order; `Balance`: a ring after a node has
   joined and left again.
3. *Compositions*: `RpcServer`'s IO thread as an implementation of `EventLoop`'s queue; `Registry` and
   `RpcCall` joined by the list of addresses, once the code calls the address it has chosen.
