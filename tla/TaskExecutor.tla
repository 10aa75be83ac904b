---------------------------- MODULE TaskExecutor ----------------------------
(***************************************************************************)
(* What EventLoop::addTask promises to the threads that call it, with the  *)
(* queues, the mutex, the eventfd and epoll left out: the tasks of one     *)
(* thread are run one at a time, each once, in the order they were posted; *)
(* until stop() is called every posted task is eventually run.             *)
(***************************************************************************)
EXTENDS Naturals

CONSTANT Threads    \* the threads that post tasks

VARIABLES
    posted,         \* posted[t]: how many tasks t has posted
    ran,            \* ran[t]: how many tasks of t have been run
    quit            \* stop() has been called

vars == <<posted, ran, quit>>

Init ==
    /\ posted = [t \in Threads |-> 0]
    /\ ran = [t \in Threads |-> 0]
    /\ quit = FALSE

Post(t) ==
    /\ posted' = [posted EXCEPT ![t] = @ + 1]
    /\ UNCHANGED <<ran, quit>>

\* The next task of t runs: tasks are numbered, so a task that is skipped,
\* repeated or overtaken is not a step of this specification.
Run(t) ==
    /\ ran[t] < posted[t]
    /\ ran' = [ran EXCEPT ![t] = @ + 1]
    /\ UNCHANGED <<posted, quit>>

Stop ==
    /\ quit' = TRUE
    /\ UNCHANGED <<posted, ran>>

Next == Stop \/ \E t \in Threads : Post(t) \/ Run(t)

Safety == Init /\ [][Next]_vars

Fairness == \A t \in Threads : WF_vars(Run(t) /\ ~quit)

Spec == Safety /\ Fairness
=============================================================================
