-------------------------------- MODULE Logger --------------------------------
(***************************************************************************)
(* The asynchronous log of a server (src/netrpc/common/log.cc): threads    *)
(* append lines to the Logger's two buffers, the main thread's timer moves *)
(* full buffers to the two AsyncLoggers (syncLoop), and the thread of each *)
(* AsyncLogger writes them to files. A signal makes one of these threads   *)
(* run CoredumpHandler on top of what it was doing.                        *)
(*                                                                         *)
(* A step is a critical section of one mutex, one batch written, or one    *)
(* statement of the handler. The lines of a log are numbered in the order  *)
(* in which they entered its buffer. fopen, which the code does not check, *)
(* succeeds, and the directory holds no files of earlier runs.             *)
(***************************************************************************)
EXTENDS Naturals, Sequences, SequencesExt

CONSTANTS
    Threads,        \* threads that log
    Main,           \* the one of them whose timer calls syncLoop
    MaxFileSize,    \* m_max_file_size, in lines
    MaxLines,       \* bound: lines that the threads push to each log
    MaxDays         \* bound: days that the program runs

Logs == {"rpc", "app"}

ASSUME LoggerAssumption ==
    /\ Main \in Threads
    /\ Threads \cap (Logs \cup {"nobody"}) = {}
    /\ MaxFileSize \in Nat
    /\ MaxLines \in [Logs -> Nat]
    /\ MaxDays \in Nat \ {0}

\* A file's name is its date and number; <<0, 0>> stands for no open file.
Names == (0..MaxDays) \X Nat
NoFile == <<0, 0>>

Mutexes == {"buffer", "queue"} \X Logs
NoMutex == <<"none", "rpc">>

\* Who executes syncLoop: the timer's callback, or the signal handler.
Contexts == {"timer", "handler"}

VARIABLES
    process,        \* "up", "dead" (the signal's default action), or "dangling"
    logged,         \* how many lines have been pushed to each log
    buffer,         \* m_buffer and m_app_buffer of the Logger
    pc,             \* where each context is: a step, and the log it is about
    held,           \* its tmp_vec
    queue,          \* m_buffer of each AsyncLogger
    stopFlag,       \* m_stop_flag of each AsyncLogger
    writer,         \* where the thread of each AsyncLogger is in Loop
    tmp,            \* its tmp
    file,           \* m_file_handler, m_no and m_date
    today,          \* the date
    written,        \* what has been written: batches, and the names of their files
    interrupted,    \* the thread that runs the signal handler; a writer by its log
    locked          \* the mutex which that thread holds below the handler

loggerVars == <<logged, buffer>>
syncVars == <<pc, held>>
writerVars == <<writer, tmp, file, written>>
signalVars == <<interrupted, locked>>
vars == <<process, loggerVars, syncVars, queue, stopFlag, writerVars, today, signalVars>>

Lines == Seq(Nat)

TypeOK ==
    /\ process \in {"up", "dead", "dangling"}
    /\ logged \in [Logs -> Nat]
    /\ buffer \in [Logs -> Lines]
    /\ pc \in [Contexts -> {"off", "log", "swap", "push", "stop", "flush", "join"} \X Logs]
    /\ held \in [Contexts -> Lines]
    /\ queue \in [Logs -> Seq(Lines \ {<<>>})]
    /\ stopFlag \in [Logs -> BOOLEAN]
    /\ writer \in [Logs -> {"wait", "write", "check", "ended"}]
    /\ tmp \in [Logs -> Lines]
    /\ file \in [Logs -> [open : Names, no : Nat, date : 0..MaxDays]]
    /\ today \in 1..MaxDays
    /\ written \in [Logs -> Seq([name : Names, lines : Lines])]
    /\ interrupted \in Threads \cup Logs \cup {"nobody"}
    /\ locked \in Mutexes \cup {NoMutex}

Init ==
    /\ process = "up"
    /\ logged = [l \in Logs |-> 0]
    /\ buffer = [l \in Logs |-> <<>>]
    /\ pc = [x \in Contexts |-> <<IF x = "timer" THEN "swap" ELSE "off", "rpc">>]
    /\ held = [x \in Contexts |-> <<>>]
    /\ queue = [l \in Logs |-> <<>>]
    /\ stopFlag = [l \in Logs |-> FALSE]
    /\ writer = [l \in Logs |-> "wait"]
    /\ tmp = [l \in Logs |-> <<>>]
    /\ file = [l \in Logs |-> [open |-> NoFile, no |-> 0, date |-> 0]]
    /\ today = 1
    /\ written = [l \in Logs |-> <<>>]
    /\ interrupted = "nobody"
    /\ locked = NoMutex

-----------------------------------------------------------------------------
(* Logger: pushLog, pushAppLog and syncLoop.                               *)

Runs(t) == interrupted # t

\* The main thread logs when it is not in syncLoop, which logs nothing itself.
MayLog(t, l) ==
    /\ t \in Threads
    /\ t = Main => pc["timer"] = <<"swap", "rpc">>
    /\ logged[l] < MaxLines[l]

Free(mutex, l) == locked # <<mutex, l>>

AppendLine(l) ==
    /\ Free("buffer", l)
    /\ logged' = [logged EXCEPT ![l] = @ + 1]
    /\ buffer' = [buffer EXCEPT ![l] = Append(@, logged'[l])]

PushLog(t, l) ==
    /\ Runs(t)
    /\ MayLog(t, l)
    /\ AppendLine(l)
    /\ UNCHANGED <<process, syncVars, queue, stopFlag, writerVars, today, signalVars>>

\* What follows the part of syncLoop for the log l: the other log; then the
\* timer's next call, or the rest of Logger::flush.
After(x, l) ==
    CASE l = "rpc" -> <<"swap", "app">>
      [] l = "app" /\ x = "timer" -> <<"swap", "rpc">>
      [] l = "app" /\ x = "handler" -> <<"stop", "rpc">>

\* Mutant of SwapBuffer: the buffer is copied instead of swapped.
CopyBuffer(x, l) ==
    /\ pc[x] = <<"swap", l>>
    /\ Free("buffer", l)
    /\ held' = [held EXCEPT ![x] = buffer[l]]
    /\ pc' = [pc EXCEPT ![x] = IF buffer[l] = <<>> THEN After(x, l) ELSE <<"push", l>>]
    /\ UNCHANGED <<process, logged, buffer, queue, stopFlag, writerVars, today, signalVars>>

\* Mutant of SwapBuffer: an empty buffer is pushed like any other.
SwapEmptyBuffer(x, l) ==
    /\ pc[x] = <<"swap", l>>
    /\ Free("buffer", l)
    /\ held' = [held EXCEPT ![x] = buffer[l]]
    /\ buffer' = [buffer EXCEPT ![l] = <<>>]
    /\ pc' = [pc EXCEPT ![x] = <<"push", l>>]
    /\ UNCHANGED <<process, logged, queue, stopFlag, writerVars, today, signalVars>>

\* Mutant of SwapBuffer: syncLoop returns when the first buffer is empty.
SwapBufferOrReturn(x, l) ==
    /\ pc[x] = <<"swap", l>>
    /\ Free("buffer", l)
    /\ held' = [held EXCEPT ![x] = buffer[l]]
    /\ buffer' = [buffer EXCEPT ![l] = <<>>]
    /\ pc' = [pc EXCEPT ![x] = IF buffer[l] = <<>> THEN After(x, "app") ELSE <<"push", l>>]
    /\ UNCHANGED <<process, logged, queue, stopFlag, writerVars, today, signalVars>>

SwapBuffer(x, l) ==
    /\ pc[x] = <<"swap", l>>
    /\ Free("buffer", l)
    /\ held' = [held EXCEPT ![x] = buffer[l]]
    /\ buffer' = [buffer EXCEPT ![l] = <<>>]
    /\ pc' = [pc EXCEPT ![x] = IF buffer[l] = <<>> THEN After(x, l) ELSE <<"push", l>>]
    /\ UNCHANGED <<process, logged, queue, stopFlag, writerVars, today, signalVars>>

\* pushLogBuffer, which wakes the writing thread if it waits for a batch.
PushLogBuffer(x, l) ==
    /\ pc[x] = <<"push", l>>
    /\ Free("queue", l)
    /\ queue' = [queue EXCEPT ![l] = Append(@, held[x])]
    /\ held' = [held EXCEPT ![x] = <<>>]
    /\ pc' = [pc EXCEPT ![x] = After(x, l)]
    /\ UNCHANGED <<process, loggerVars, stopFlag, writerVars, today, signalVars>>

SyncStep(x) == \E l \in Logs : SwapBuffer(x, l) \/ PushLogBuffer(x, l)

SyncTimer == Runs(Main) /\ SyncStep("timer")

-----------------------------------------------------------------------------
(* AsyncLogger::Loop.                                                      *)

\* The thread waits for a batch, whether it is to stop or not.
TakeBatch(l) ==
    /\ writer[l] = "wait"
    /\ Free("queue", l)
    /\ queue[l] # <<>>
    /\ tmp' = [tmp EXCEPT ![l] = Head(queue[l])]
    /\ queue' = [queue EXCEPT ![l] = Tail(@)]
    /\ writer' = [writer EXCEPT ![l] = "write"]
    /\ UNCHANGED <<process, loggerVars, syncVars, stopFlag, file, written, today, signalVars>>

BatchesIn(batches, name) ==
    FlattenSeq([i \in DOMAIN batches |->
                    IF batches[i].name = name THEN <<batches[i]>> ELSE <<>>])
LinesOf(batches) == FlattenSeq([i \in DOMAIN batches |-> batches[i].lines])
FileSize(l, name) == Len(LinesOf(BatchesIn(written[l], name)))

\* A new date starts again at number 0, in a new file.
Number(l) == IF today = file[l].date THEN file[l].no ELSE 0
Reopened(l) == today # file[l].date \/ file[l].open = NoFile
Current(l) == IF Reopened(l) THEN <<today, Number(l)>> ELSE file[l].open
IsFull(l) == FileSize(l, Current(l)) > MaxFileSize

\* Mutant of NextFile: m_no stays.
NextFileSameNumber(l) ==
    [open |-> IF IsFull(l) THEN <<today, Number(l)>> ELSE Current(l),
     no |-> Number(l),
     date |-> today]

\* A full file is closed and the next is opened. Its name is compared with the
\* new one (log_file_name == ...) where it should be assigned: the first full
\* file of a day is opened again, and the numbers are one ahead from then on.
NextFile(l) ==
    [open |-> IF IsFull(l) THEN <<today, Number(l)>> ELSE Current(l),
     no |-> IF IsFull(l) THEN Number(l) + 1 ELSE Number(l),
     date |-> today]

WriteBatch(l) ==
    /\ writer[l] = "write"
    /\ file' = [file EXCEPT ![l] = NextFile(l)]
    /\ written' = [written EXCEPT ![l] = Append(@, [name |-> file'[l].open, lines |-> tmp[l]])]
    /\ tmp' = [tmp EXCEPT ![l] = <<>>]
    /\ writer' = [writer EXCEPT ![l] = "check"]
    /\ UNCHANGED <<process, loggerVars, syncVars, queue, stopFlag, today, signalVars>>

\* The flag is looked at after a batch only; batches behind it stay where they are.
CheckStop(l) ==
    /\ writer[l] = "check"
    /\ writer' = [writer EXCEPT ![l] = IF stopFlag[l] THEN "ended" ELSE "wait"]
    /\ UNCHANGED <<process, loggerVars, syncVars, queue, stopFlag, tmp, file, written, today,
                   signalVars>>

WriterStep(l) == Runs(l) /\ (TakeBatch(l) \/ WriteBatch(l) \/ CheckStop(l))

-----------------------------------------------------------------------------
(* CoredumpHandler.                                                        *)

\* The mutexes that the thread t may be holding when the signal arrives.
MayHold(t) ==
    {NoMutex}
    \cup {<<"buffer", l>> : l \in {k \in Logs : MayLog(t, k)}}
    \cup {<<IF pc["timer"][1] = "swap" THEN "buffer" ELSE "queue", l>> :
            l \in {k \in Logs : t = Main /\ pc["timer"][2] = k}}
    \cup {<<"queue", l>> : l \in {k \in Logs : t = k /\ writer[k] = "wait"}}

\* The first signal; more of them are left out.
Signal(t) ==
    /\ pc["handler"][1] = "off"
    /\ t \in Threads \/ (t \in Logs /\ writer[t] # "ended")
    /\ interrupted' = t
    /\ locked' \in MayHold(t)
    /\ pc' = [pc EXCEPT !["handler"] = <<"log", "rpc">>]
    /\ UNCHANGED <<process, loggerVars, held, queue, stopFlag, writerVars, today>>

HandlerGoes(to) == pc' = [pc EXCEPT !["handler"] = to]

HandlerLog ==
    /\ pc["handler"] = <<"log", "rpc">>
    /\ AppendLine("rpc")
    /\ HandlerGoes(<<"swap", "rpc">>)
    /\ UNCHANGED <<process, held, queue, stopFlag, writerVars, today, signalVars>>

\* AsyncLogger::stop, which wakes nobody.
HandlerStop(l) ==
    /\ pc["handler"] = <<"stop", l>>
    /\ stopFlag' = [stopFlag EXCEPT ![l] = TRUE]
    /\ HandlerGoes(<<"flush", l>>)
    /\ UNCHANGED <<process, loggerVars, held, queue, writerVars, today, signalVars>>

\* AsyncLogger::flush. Every batch has been flushed by the thread that wrote it;
\* but that thread may be closing the FILE which is flushed here.
HandlerFlush(l) ==
    /\ pc["handler"] = <<"flush", l>>
    /\ process' \in IF writer[l] = "write" /\ file[l].open # NoFile /\ (Reopened(l) \/ IsFull(l))
                      THEN {"up", "dangling"} ELSE {"up"}
    /\ HandlerGoes(IF l = "rpc" THEN <<"stop", "app">> ELSE <<"join", "rpc">>)
    /\ UNCHANGED <<loggerVars, held, queue, stopFlag, writerVars, today, signalVars>>

\* pthread_join waits for the writing thread, except for one that joins itself
\* (EDEADLK). After the second the signal takes its default action.
HandlerJoin(l) ==
    /\ pc["handler"] = <<"join", l>>
    /\ writer[l] = "ended" \/ interrupted = l
    /\ IF l = "rpc" THEN HandlerGoes(<<"join", "app">>) /\ UNCHANGED process
                    ELSE process' = "dead" /\ UNCHANGED pc
    /\ UNCHANGED <<loggerVars, held, queue, stopFlag, writerVars, today, signalVars>>

HandlerStep ==
    \/ HandlerLog \/ SyncStep("handler")
    \/ \E l \in Logs : HandlerStop(l) \/ HandlerFlush(l) \/ HandlerJoin(l)

-----------------------------------------------------------------------------

NewDay ==
    /\ today < MaxDays
    /\ today' = today + 1
    /\ UNCHANGED <<process, loggerVars, syncVars, queue, stopFlag, writerVars, signalVars>>

Next ==
    /\ process = "up"
    /\ \/ \E t \in Threads, l \in Logs : PushLog(t, l)
       \/ SyncTimer
       \/ \E l \in Logs : WriterStep(l)
       \/ \E t \in Threads \cup Logs : Signal(t)
       \/ HandlerStep
       \/ NewDay

Up(action) == process = "up" /\ action

\* The main thread's timer comes back, and every thread that can take a step
\* takes one. Nobody has to log, and no signal has to arrive.
Fairness ==
    /\ WF_vars(Up(SyncTimer))
    /\ WF_vars(Up(HandlerStep))
    /\ \A l \in Logs : WF_vars(Up(WriterStep(l)))

Spec == Init /\ [][Next]_vars /\ Fairness

-----------------------------------------------------------------------------
(* Properties.                                                             *)

\* The lines of the log l from the files back to the buffer, with what the two
\* executions of syncLoop carry in between.
Held(x, l) == IF pc[x] = <<"push", l>> THEN held[x] ELSE <<>>

Trail(l) ==
    LinesOf(written[l]) \o tmp[l] \o FlattenSeq(queue[l])
        \o Held("timer", l) \o Held("handler", l) \o buffer[l]

\* The files and what follows them hold the lines in the order of their pushing.
\* A handler that overtakes the syncLoop it has interrupted may change the order,
\* but even then every line is in one place.
InOrder(l) == Trail(l) = [i \in 1..logged[l] |-> i]
InOnePlace(l) == Len(Trail(l)) = logged[l] /\ ToSet(Trail(l)) = 1..logged[l]

\* Files change hands in time: without its last two batches no file is larger
\* than m_max_file_size, although the full file is opened once more.
FilesBounded(l) ==
    \A b \in ToSet(written[l]) :
        LET batches == BatchesIn(written[l], b.name)
        IN  Len(LinesOf(SubSeq(batches, 1, Len(batches) - 2))) <= MaxFileSize

\* Between the threads that log, the timer's syncLoop (log.cc:73) and the writing
\* thread (log.cc:195) no line is lost, repeated or overtaken, and files are bounded.
LinesReachFiles ==
    \A l \in Logs :
        /\ InOnePlace(l)
        /\ interrupted = "nobody" => InOrder(l)
        /\ FilesBounded(l)

\* A line that was pushed is written to a file, unless a signal interrupts.
WrittenEventually ==
    \A l \in Logs : \A n \in 1..MaxLines[l] :
        (logged[l] >= n)
            ~> (n \in ToSet(LinesOf(written[l])) \/ interrupted # "nobody")

\* "progress received invalid signal, will exit" (log.cc:18): at least when the
\* signal has not met its thread with a mutex in its hands.
ExitsAfterSignal ==
    (interrupted # "nobody" /\ locked = NoMutex) ~> (process # "up")
=============================================================================
