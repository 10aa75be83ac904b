---------------------------- MODULE RpcServerProofs ----------------------------
(***************************************************************************)
(* RpcServer for any number of connections, requests and short writes: its *)
(* types, that a connection is closed for good, that one which the main    *)
(* thread has deleted is unreachable for the IO thread's next round, and   *)
(* that a connection with nothing left to write has answered.              *)
(***************************************************************************)
EXTENDS RpcServer, FiniteSetTheorems, SequenceTheorems, WellFoundedInduction, TLAPS

-----------------------------------------------------------------------------
(* The inductive invariant.                                                *)

\* A connection is marked by its constructor, Keep and clear(), in this order.
ObjectInv ==
    \A c \in Conns :
        /\ object[c] \in {"none", "made"} <=> state[c] = "NotConnected"
        /\ object[c] = "deleted" => state[c] = "Closed"

\* While the batch runs, only onAccept posts tasks.
LoopInv ==
    /\ loopPc = "swap" => batch = <<>>
    /\ loopPc = "run" => \A i \in DOMAIN pending : pending[i].op = "add"

\* The tasks that the IO thread will run, in their order.
Queue == batch \o pending

\* The task that registers a connection is the first and only one of it: no callback
\* can be queued before it has run, and the connection cannot be closed before.
QueueInv ==
    /\ \A c \in registered : object[c] # "none"
    /\ \A i \in DOMAIN Queue :
        /\ object[Queue[i].conn] # "none"
        /\ Queue[i].op = "add" =>
            /\ Queue[i].conn \notin registered
            /\ state[Queue[i].conn] # "Closed"
            /\ \A j \in DOMAIN Queue : Queue[j].conn = Queue[i].conn => j = i

\* What clear() leaves behind: only the running batch may still hold a callback.
ClosedInv ==
    \A c \in Conns :
        state[c] = "Closed" =>
            /\ c \notin registered
            /\ \A i \in DOMAIN pending : pending[i].conn # c

\* Every request that has been decoded has its reply in m_out_buffer, and on the wire
\* too once OUT is cancelled.
Answers(c) ==
    /\ state[c] = "NotConnected" => received[c] = 0 /\ out[c] = <<>>
    /\ \A k \in 1..received[c] \div 2 : \E i \in DOMAIN out[c] : out[c][i].req = k
    /\ state[c] = "Connected" /\ "OUT" \notin mask[c] /\ ~IsTorn(c) =>
           \A i \in DOMAIN out[c] : \E j \in DOMAIN wire[c] : wire[c][j] = out[c][i]

AnswerInv == \A c \in Conns : Answers(c)

ServerInv == TypeOK /\ ObjectInv /\ LoopInv /\ QueueInv /\ ClosedInv /\ AnswerInv

-----------------------------------------------------------------------------
(* Sequences.                                                              *)

\* A set of naturals that holds 0 and, with each number, the next one, holds all.
LEMMA SetInduction ==
    ASSUME NEW S \in SUBSET Nat, 0 \in S, \A n \in S : n + 1 \in S
    PROVE  S = Nat
<1> DEFINE T == Nat \ S
<1>1. SUFFICES ASSUME T # {} PROVE FALSE
  OBVIOUS
<1>2. PICK n \in T : \A m \in T : ~ (<<m, n>> \in OpToRel(<, Nat))
  BY <1>1, NatLessThanWellFounded, WFMin
<1>3. n - 1 \in T /\ n - 1 < n /\ n - 1 \in Nat /\ n \in Nat
  OBVIOUS
<1>4. <<n - 1, n>> \in OpToRel(<, Nat)
  BY <1>3 DEF OpToRel
<1> QED
  BY <1>2, <1>3, <1>4

\* The function by which FlattenSeq is defined exists, and its values are sequences.
LEMMA FlattenIsDefined ==
    ASSUME NEW S, NEW q \in Seq(Seq(S)), q # <<>>
    PROVE  \E f \in [1..Len(q) -> Seq(S)] :
               /\ \A i \in 1..Len(q) : f[i] = IF i = 1 THEN q[i] ELSE f[i - 1] \o q[i]
               /\ FlattenSeq(q) = f[Len(q)]
<1> DEFINE Step(f, i) == IF i = 1 THEN q[i] ELSE f[i - 1] \o q[i]
           Upto(f, n) == \A i \in 1..n : f[i] = Step(f, i)
           Done == {n \in Nat : n <= Len(q) => \E f : f \in [1..n -> Seq(S)] /\ Upto(f, n)}
<1>1. Len(q) \in Nat \ {0} /\ \A i \in 1..Len(q) : q[i] \in Seq(S)
  BY EmptySeq, LenProperties, ElementOfSeq
<1>2. 0 \in Done
  <2>1. [i \in 1..0 |-> q[i]] \in [1..0 -> Seq(S)] /\ Upto([i \in 1..0 |-> q[i]], 0)
    OBVIOUS
  <2> QED
    BY <2>1
<1>3. ASSUME NEW n \in Done, n + 1 <= Len(q)
      PROVE  \E f : f \in [1..(n + 1) -> Seq(S)] /\ Upto(f, n + 1)
  <2>0. n \in Nat /\ n <= Len(q)
    BY <1>1, <1>3
  <2>1. PICK f : f \in [1..n -> Seq(S)] /\ Upto(f, n)
    BY <2>0
  <2> DEFINE next == Step(f, n + 1)
             g == [i \in 1..(n + 1) |-> IF i <= n THEN f[i] ELSE next]
  <2>2. next \in Seq(S)
    <3>1. n + 1 = 1 \/ (n + 1 # 1 /\ (n + 1) - 1 = n /\ f[n] \in Seq(S))
      BY <2>0, <2>1
    <3>2. q[n + 1] \in Seq(S)
      BY <1>1, <1>3, <2>0
    <3> QED
      BY <3>1, <3>2, ConcatProperties
  <2>3. ASSUME NEW i \in 1..n PROVE g[i] = f[i] /\ f[i] = Step(f, i)
    <3>1. f[i] = Step(f, i)
      BY <2>1
    <3> HIDE DEF Step
    <3>2. g[i] = f[i]
      BY <2>0
    <3> QED
      BY <3>1, <3>2
  <2>4. g[n + 1] = Step(f, n + 1)
    BY <2>0
  <2> HIDE DEF next
  <2>5. g \in [1..(n + 1) -> Seq(S)]
    BY <2>0, <2>1, <2>2
  <2> HIDE DEF g
  <2>6. ASSUME NEW i \in 1..(n + 1) PROVE g[i] = Step(g, i)
    <3>1. i = 1 \/ (i # 1 /\ g[i - 1] = f[i - 1])
      BY <2>0, <2>3
    <3>2. g[i] = Step(f, i)
      BY <2>0, <2>3, <2>4
    <3> QED
      BY <3>1, <3>2
  <2> QED
    BY <2>5, <2>6
<1>4. \E f : f \in [1..Len(q) -> Seq(S)] /\ Upto(f, Len(q))
  <2> HIDE DEF Upto
  <2>1. \A n \in Done : n + 1 \in Done
    BY <1>3
  <2>2. Done = Nat
    <3> HIDE DEF Done
    <3>1. Done \in SUBSET Nat
      BY DEF Done
    <3> QED
      BY <1>2, <2>1, <3>1, SetInduction
  <2>3. Len(q) \in Done
    <3> HIDE DEF Done
    <3> QED
      BY <1>1, <2>2
  <2> QED
    BY <1>1, <2>3
<1>5. PICK f : f \in [1..Len(q) -> Seq(S)] /\ Upto(f, Len(q))
  BY <1>4
<1>6. f = [i \in 1..Len(q) |-> Step(f, i)]
  BY <1>5
<1> DEFINE g == CHOOSE h : h = [i \in 1..Len(q) |-> Step(h, i)]
<1>7. g = [i \in 1..Len(q) |-> Step(g, i)]
  BY <1>6
<1>8. FlattenSeq(q) = g[Len(q)]
  BY <1>1 DEF FlattenSeq
<1> HIDE DEF g
<1>9. Upto(g, Len(q))
  <2> SUFFICES ASSUME NEW i \in 1..Len(q) PROVE g[i] = Step(g, i)
    OBVIOUS
  <2> DEFINE rest == [j \in 1..Len(q) |-> Step(g, j)]
  <2>1. rest[i] = Step(g, i)
    OBVIOUS
  <2> HIDE DEF rest
  <2>2. g = rest
    BY <1>7 DEF rest
  <2> QED
    BY <2>1, <2>2
<1>10. g \in [1..Len(q) -> Seq(S)]
  <2> DEFINE Typed == {n \in Nat : n \in 1..Len(q) => g[n] \in Seq(S)}
  <2>1. 0 \in Typed
    OBVIOUS
  <2>2. ASSUME NEW n \in Typed PROVE n + 1 \in Typed
    <3> SUFFICES ASSUME n + 1 \in 1..Len(q) PROVE g[n + 1] \in Seq(S)
      OBVIOUS
    <3>1. g[n + 1] = Step(g, n + 1)
      BY <1>9
    <3>2. n + 1 = 1 \/ (n + 1 # 1 /\ (n + 1) - 1 = n /\ g[n] \in Seq(S))
      BY <1>1
    <3> QED
      BY <1>1, <3>1, <3>2, ConcatProperties
  <2>3. Typed = Nat
    <3> HIDE DEF Typed
    <3>1. Typed \in SUBSET Nat
      BY DEF Typed
    <3> QED
      BY <2>1, <2>2, <3>1, SetInduction
  <2> HIDE DEF Typed, Upto
  <2>4. \A n \in Typed : n \in 1..Len(q) => g[n] \in Seq(S)
    BY DEF Typed
  <2>5. \A n \in 1..Len(q) : g[n] \in Seq(S)
    BY <2>3, <2>4
  <2>6. DOMAIN g = 1..Len(q) /\ g = [i \in DOMAIN g |-> g[i]]
    BY <1>7
  <2> QED
    BY <2>5, <2>6
<1> QED
  BY <1>8, <1>9, <1>10

LEMMA FlattenType ==
    ASSUME NEW S, NEW q \in Seq(Seq(S))
    PROVE  FlattenSeq(q) \in Seq(S)
<1>1. CASE q = <<>>
  BY <1>1, EmptySeq DEF FlattenSeq
<1>2. CASE q # <<>>
  <2>1. PICK f \in [1..Len(q) -> Seq(S)] : FlattenSeq(q) = f[Len(q)]
    BY <1>2, FlattenIsDefined
  <2>2. Len(q) \in 1..Len(q)
    BY <1>2, EmptySeq, LenProperties
  <2> QED
    BY <2>1, <2>2
<1> QED
  BY <1>1, <1>2

-----------------------------------------------------------------------------
(* The queue of the IO thread.                                             *)

LEMMA TaskFields ==
    /\ \A t \in Tasks : t.conn \in Conns /\ t.op \in {"IN", "OUT", "add"}
    /\ \A t \in Handlers : t \in Tasks /\ t.op \in {"IN", "OUT"}
    /\ \A c \in Conns : [op |-> "add", conn |-> c] \in Tasks
    /\ \A c \in Conns : \A e \in {"IN", "OUT"} : [op |-> e, conn |-> c] \in Handlers
BY DEF Tasks, Handlers

LEMMA QueueIs ==
    ASSUME TypeOK
    PROVE  /\ Queue \in Seq(Tasks)
           /\ DOMAIN Queue = 1..(Len(batch) + Len(pending))
           /\ DOMAIN pending = 1..Len(pending)
           /\ Len(batch) \in Nat /\ Len(pending) \in Nat
           /\ \A i \in 1..Len(batch) : Queue[i] = batch[i]
           /\ \A i \in 1..Len(pending) : Queue[Len(batch) + i] = pending[i]
<1>1. batch \in Seq(Tasks) /\ pending \in Seq(Tasks)
  BY DEF TypeOK
<1>2. /\ Len(batch) \in Nat /\ Len(pending) \in Nat
      /\ DOMAIN pending = 1..Len(pending)
  BY <1>1, LenProperties
<1>3. /\ Queue \in Seq(Tasks)
      /\ Len(Queue) = Len(batch) + Len(pending)
      /\ \A i \in 1..(Len(batch) + Len(pending)) :
            Queue[i] = IF i <= Len(batch) THEN batch[i] ELSE pending[i - Len(batch)]
  BY <1>1, ConcatProperties DEF Queue
<1>4. DOMAIN Queue = 1..(Len(batch) + Len(pending))
  BY <1>3, LenProperties
<1>5. ASSUME NEW i \in 1..Len(pending) PROVE Queue[Len(batch) + i] = pending[i]
  <2>1. Len(batch) + i \in 1..(Len(batch) + Len(pending)) /\ ~(Len(batch) + i <= Len(batch))
        /\ (Len(batch) + i) - Len(batch) = i
    BY <1>2
  <2> QED
    BY <1>3, <2>1
<1>6. \A i \in 1..Len(batch) : Queue[i] = batch[i]
  BY <1>2, <1>3
<1> QED
  BY <1>2, <1>3, <1>4, <1>5, <1>6

\* To run a task takes the first one off the queue.
LEMMA PopIs ==
    ASSUME TypeOK, PopTask
    PROVE  /\ batch' \in Seq(Tasks)
           /\ Task \in Tasks
           /\ 1 \in DOMAIN Queue /\ Queue[1] = Task
           /\ Len(batch) >= 1
           /\ \A i \in DOMAIN Queue' : i + 1 \in DOMAIN Queue /\ Queue'[i] = Queue[i + 1]
                                       /\ i + 1 # 1 /\ i \in Int
<1>1. batch \in Seq(Tasks) /\ batch # <<>> /\ batch' = Tail(batch) /\ pending' = pending
  BY DEF TypeOK, PopTask
<1>2. /\ Head(batch) = batch[1]
      /\ Tail(batch) \in Seq(Tasks)
      /\ Len(Tail(batch)) = Len(batch) - 1
      /\ \A i \in 1..Len(Tail(batch)) : Tail(batch)[i] = batch[i + 1]
      /\ Head(batch) \in Tasks
      /\ Len(batch) >= 1
  BY <1>1, HeadTailProperties, EmptySeq
<1>3. pending \in Seq(Tasks) /\ Len(pending) \in Nat /\ Len(batch) \in Nat
  BY LenProperties DEF TypeOK
<1>4. /\ Queue' \in Seq(Tasks)
      /\ Len(Queue') = Len(batch) - 1 + Len(pending)
      /\ \A i \in 1..(Len(batch) - 1 + Len(pending)) :
            Queue'[i] = IF i <= Len(batch) - 1 THEN batch[i + 1]
                                               ELSE pending[i - (Len(batch) - 1)]
  <2> DEFINE q == Tail(batch) \o pending
  <2>1. /\ q \in Seq(Tasks)
        /\ Len(q) = Len(batch) - 1 + Len(pending)
        /\ \A i \in 1..(Len(batch) - 1 + Len(pending)) :
              q[i] = IF i <= Len(batch) - 1 THEN Tail(batch)[i]
                                            ELSE pending[i - (Len(batch) - 1)]
    BY <1>2, <1>3, ConcatProperties
  <2>2. Queue' = q
    BY <1>1 DEF Queue
  <2> HIDE DEF q
  <2> QED
    BY <1>2, <1>3, <2>1, <2>2
<1>5. DOMAIN Queue' = 1..(Len(batch) - 1 + Len(pending))
  BY <1>4, LenProperties
<1>6. ASSUME NEW i \in DOMAIN Queue'
      PROVE  i + 1 \in DOMAIN Queue /\ Queue'[i] = Queue[i + 1] /\ i + 1 # 1 /\ i \in Int
  <2>1. i \in 1..(Len(batch) - 1 + Len(pending)) /\ i + 1 \in DOMAIN Queue /\ i + 1 # 1
    BY <1>2, <1>3, <1>5, QueueIs
  <2>2. CASE i <= Len(batch) - 1
    BY <1>2, <1>3, <1>4, <2>1, <2>2, QueueIs
  <2>3. CASE ~(i <= Len(batch) - 1)
    <3>1. i - (Len(batch) - 1) \in 1..Len(pending)
          /\ Len(batch) + (i - (Len(batch) - 1)) = i + 1
      BY <1>2, <1>3, <2>1, <2>3
    <3> QED
      BY <1>4, <2>1, <2>3, <3>1, QueueIs, SMTT(60)
  <2> QED
    BY <2>2, <2>3
<1> QED
  BY <1>1, <1>2, <1>3, <1>6, QueueIs DEF Task

LEMMA ConnType == ASSUME TypeOK, PopTask PROVE conn \in Conns
BY PopIs, TaskFields DEF conn

\* Whatever a task does to its own connection, it leaves the invariant of the queue.
LEMMA PopKeepsQueue ==
    ASSUME TypeOK, ObjectInv, QueueInv, PopTask, UNCHANGED object,
           registered' \subseteq registered \cup {conn},
           \A c \in Conns : state'[c] = "Closed" => state[c] = "Closed" \/ c = conn
    PROVE  QueueInv'
<1>1. /\ Task \in Tasks /\ conn \in Conns
      /\ 1 \in DOMAIN Queue /\ Queue[1] = Task
      /\ \A i \in DOMAIN Queue' : i + 1 \in DOMAIN Queue /\ Queue'[i] = Queue[i + 1]
                                  /\ i + 1 # 1 /\ i \in Int
  BY PopIs, ConnType
<1>2. object[conn] # "none"
  BY <1>1 DEF QueueInv, conn
<1>3. \A c \in registered' : object'[c] # "none"
  BY <1>2 DEF QueueInv
<1>4. ASSUME NEW i \in DOMAIN Queue'
      PROVE  /\ object'[Queue'[i].conn] # "none"
             /\ Queue'[i].op = "add" =>
                 /\ Queue'[i].conn \notin registered'
                 /\ state'[Queue'[i].conn] # "Closed"
                 /\ \A j \in DOMAIN Queue' : Queue'[j].conn = Queue'[i].conn => j = i
  <2>1. i + 1 \in DOMAIN Queue /\ Queue'[i] = Queue[i + 1] /\ i + 1 # 1
    BY <1>1
  <2>2. object'[Queue'[i].conn] # "none"
    BY <2>1 DEF QueueInv
  <2>3. ASSUME Queue'[i].op = "add"
        PROVE  /\ Queue'[i].conn \notin registered'
               /\ state'[Queue'[i].conn] # "Closed"
               /\ \A j \in DOMAIN Queue' : Queue'[j].conn = Queue'[i].conn => j = i
    <3>1. \A j \in DOMAIN Queue : Queue[j].conn = Queue[i + 1].conn => j = i + 1
      BY <2>1, <2>3 DEF QueueInv
    <3>2. Queue[i + 1].conn # conn
      BY <1>1, <2>1, <3>1 DEF conn
    <3>3. Queue[i + 1].conn \notin registered /\ state[Queue[i + 1].conn] # "Closed"
      BY <2>1, <2>3 DEF QueueInv
    <3>4. Queue[i + 1].conn \in Conns
      BY <2>1, QueueIs, ElementOfSeq, TaskFields
    <3>5. ASSUME NEW j \in DOMAIN Queue', Queue'[j].conn = Queue'[i].conn PROVE j = i
      <4>1. j + 1 \in DOMAIN Queue /\ Queue'[j] = Queue[j + 1]
        BY <1>1
      <4>2. j + 1 = i + 1
        BY <2>1, <3>1, <3>5, <4>1
      <4>3. i \in Int /\ j \in Int
        BY <1>1
      <4> QED
        BY <4>2, <4>3
    <3> QED
      BY <2>1, <3>2, <3>3, <3>4, <3>5
  <2> QED
    BY <2>2, <2>3
<1> QED
  BY <1>3, <1>4 DEF QueueInv

-----------------------------------------------------------------------------
(* What dispatch and excute append to m_out_buffer.                        *)

LEMMA DispatchType ==
    ASSUME NEW replies \in Seq(Replies)
    PROVE  Dispatch(replies) \in Seq(Replies)
<1> DEFINE One(i) == IF replies[i].res = "result" THEN <<replies[i]>> ELSE <<>>
           parts == [i \in 1..Len(replies) |-> One(i)]
<1>1. Len(replies) \in Nat /\ DOMAIN replies = 1..Len(replies)
  BY LenProperties
<1>2. ASSUME NEW i \in 1..Len(replies) PROVE One(i) \in Seq(Replies)
  <2>1. replies[i] \in Replies
    BY ElementOfSeq
  <2> QED
    BY <2>1
<1>3. parts \in Seq(Seq(Replies))
  <2> HIDE DEF One
  <2>1. parts \in [1..Len(replies) -> Seq(Replies)]
    BY <1>2
  <2> HIDE DEF parts
  <2> QED
    BY <1>1, <2>1
<1>4. Dispatch(replies) = FlattenSeq(parts)
  BY <1>1 DEF Dispatch
<1> QED
  BY <1>3, <1>4, FlattenType

\* Requests first..last have at least one reply each in what is appended.
LEMMA ExcuteIs ==
    ASSUME TypeOK, conn \in Conns, NEW first \in Nat, NEW last \in Nat,
           1 <= first, first <= last + 1, Excute(first, last)
    PROVE  /\ ListenFor({"IN", "OUT"})
           /\ \E s \in Seq(Replies) :
                 /\ out' = [out EXCEPT ![conn] = @ \o s]
                 /\ \A k \in first..last : \E i \in DOMAIN s : s[i].req = k
<1> DEFINE n == last - first + 1
<1>1. n \in Nat
  OBVIOUS
<1>2. PICK res \in [first..last -> Outcomes] :
        LET replies == [i \in 1..n |-> [req |-> first + i - 1, res |-> res[first + i - 1]]]
        IN  /\ out' = [out EXCEPT ![conn] = @ \o Dispatch(replies) \o replies]
            /\ ListenFor({"IN", "OUT"})
  BY DEF Excute
<1> DEFINE replies == [i \in 1..n |-> [req |-> first + i - 1, res |-> res[first + i - 1]]]
           s == Dispatch(replies) \o replies
<1>3. out' = [out EXCEPT ![conn] = @ \o Dispatch(replies) \o replies] /\ ListenFor({"IN", "OUT"})
  BY <1>2
<1>4. replies \in Seq(Replies) /\ Len(replies) = n
      /\ \A i \in 1..n : replies[i].req = first + i - 1
  <2>1. ASSUME NEW i \in 1..n PROVE replies[i] \in Replies /\ replies[i].req = first + i - 1
    <3>1. first + i - 1 \in first..last /\ first + i - 1 \in Nat
      BY <1>1
    <3>2. replies[i] = [req |-> first + i - 1, res |-> res[first + i - 1]]
      OBVIOUS
    <3> HIDE DEF replies
    <3> QED
      BY <3>1, <3>2 DEF Replies
  <2>2. replies \in [1..n -> Replies]
    BY <2>1
  <2> HIDE DEF replies
  <2> QED
    BY <1>1, <2>1, <2>2
<1> HIDE DEF replies
<1>5. Dispatch(replies) \in Seq(Replies) /\ out[conn] \in Seq(Replies)
  BY <1>4, DispatchType DEF TypeOK
<1>6. /\ s \in Seq(Replies)
      /\ Len(s) = Len(Dispatch(replies)) + n
      /\ \A i \in 1..n : s[Len(Dispatch(replies)) + i] = replies[i]
  <2> DEFINE d == Dispatch(replies)
  <2>1. d \in Seq(Replies) /\ Len(d) \in Nat
    BY <1>5, LenProperties
  <2> HIDE DEF d, n
  <2>2. /\ d \o replies \in Seq(Replies)
        /\ Len(d \o replies) = Len(d) + n
        /\ \A i \in 1..(Len(d) + n) :
              (d \o replies)[i] = IF i <= Len(d) THEN d[i] ELSE replies[i - Len(d)]
    BY <1>1, <1>4, <2>1, ConcatProperties
  <2>3. ASSUME NEW i \in 1..n PROVE (d \o replies)[Len(d) + i] = replies[i]
    <3>1. Len(d) + i \in 1..(Len(d) + n) /\ ~(Len(d) + i <= Len(d))
          /\ (Len(d) + i) - Len(d) = i
      BY <1>1, <2>1
    <3> QED
      BY <2>2, <3>1
  <2> QED
    BY <2>2, <2>3 DEF d
<1>7. (out[conn] \o Dispatch(replies)) \o replies = out[conn] \o s
  <2> DEFINE o == out[conn]
             d == Dispatch(replies)
  <2>1. o \in Seq(Replies) /\ d \in Seq(Replies) /\ replies \in Seq(Replies)
    BY <1>4, <1>5
  <2> HIDE DEF o, d
  <2>2. (o \o d) \o replies = o \o (d \o replies)
    BY <2>1, ConcatAssociative, SMTT(60)
  <2> QED
    BY <2>2 DEF o, d
<1>8. out' = [out EXCEPT ![conn] = @ \o s]
  <2> HIDE DEF s
  <2> QED
    BY <1>3, <1>7
<1>9. ASSUME NEW k \in first..last PROVE \E i \in DOMAIN s : s[i].req = k
  <2> DEFINE d == Len(Dispatch(replies))
  <2>1. d \in Nat /\ DOMAIN s = 1..Len(s)
    BY <1>5, <1>6, LenProperties
  <2>2. k - first + 1 \in 1..n /\ first + (k - first + 1) - 1 = k
    BY <1>1
  <2>3. d + (k - first + 1) \in 1..(d + n)
    BY <1>1, <2>1, <2>2
  <2>4. s[d + (k - first + 1)].req = k
    BY <1>4, <1>6, <2>2
  <2> QED
    BY <1>6, <2>1, <2>3, <2>4
<1> QED
  BY <1>3, <1>6, <1>8, <1>9

-----------------------------------------------------------------------------
(* The types.                                                              *)

LEMMA HandlersAreFinite == IsFiniteSet(Handlers)
<1> DEFINE f == [t \in Handlers |-> <<t.op, t.conn>>]
           Pairs == {"IN", "OUT"} \X Conns
<1>1. f \in Injection(Handlers, Pairs)
  <2>1. f \in [Handlers -> Pairs]
    BY DEF Handlers
  <2>2. ASSUME NEW s \in Handlers, NEW t \in Handlers, f[s] = f[t] PROVE s = t
    BY <2>2 DEF Handlers
  <2> QED
    BY <2>1, <2>2 DEF Injection, IsInjective
<1>2. IsFiniteSet({"IN", "OUT"})
  <2>1. IsFiniteSet({"IN"})
    BY FS_Singleton
  <2>2. IsFiniteSet({"IN"} \cup {"OUT"})
    BY <2>1, FS_AddElement
  <2>3. {"IN"} \cup {"OUT"} = {"IN", "OUT"}
    OBVIOUS
  <2> QED
    BY <2>2, <2>3
<1>3. IsFiniteSet(Pairs)
  BY <1>2, ServerAssumption, FS_Product
<1> HIDE DEF f, Pairs
<1> QED
  BY <1>1, <1>3, FS_Injection

\* The callbacks that one epoll_wait queues, in whatever order.
ReadyHandlers == UNION {HandlersOf(c) : c \in Ready}

LEMMA HandlersType ==
    ASSUME TypeOK, NEW handlers \in SetToSeqs(ReadyHandlers)
    PROVE  /\ handlers \in Seq(Tasks)
           /\ \A i \in DOMAIN handlers : handlers[i] \in Handlers /\ handlers[i].conn \in registered
<1>1. ASSUME NEW t \in ReadyHandlers PROVE t \in Handlers /\ t.conn \in registered /\ t \in Tasks
  <2>1. PICK c \in registered : t \in HandlersOf(c)
    BY DEF ReadyHandlers, Ready
  <2>2. c \in Conns /\ mask[c] \subseteq {"IN", "OUT"}
    BY DEF TypeOK
  <2>3. PICK e \in {"IN", "OUT"} : t = [op |-> e, conn |-> c]
    BY <2>1, <2>2 DEF HandlersOf, Events
  <2> QED
    BY <2>2, <2>3, TaskFields
<1>2. Cardinality(ReadyHandlers) \in Nat
  <2>1. ReadyHandlers \in SUBSET Handlers
    BY <1>1
  <2> QED
    BY <2>1, HandlersAreFinite, FS_Subset, FS_CardinalityType
<1>3. handlers \in [1..Cardinality(ReadyHandlers) -> ReadyHandlers]
  BY DEF SetToSeqs
<1>4. handlers \in [1..Cardinality(ReadyHandlers) -> Tasks]
  BY <1>1, <1>3
<1> QED
  BY <1>1, <1>2, <1>3, <1>4

LEMMA TypeInit == Init => TypeOK
<1> SUFFICES ASSUME Init PROVE TypeOK
  OBVIOUS
<1>1. <<>> \in Seq(Tasks) /\ <<>> \in Seq(Replies)
  BY EmptySeq
<1>2. MaxShort \in Nat /\ \A c \in Conns : MaxRequests[c] \in Nat
  BY ServerAssumption
<1> QED
  BY <1>1, <1>2 DEF Init, TypeOK

LEMMA TypeNext == TypeOK /\ [Next]_vars => TypeOK'
<1> SUFFICES ASSUME TypeOK, [Next]_vars PROVE TypeOK'
  OBVIOUS
<1> USE DEF TypeOK
<1>0. MaxShort \in Nat /\ \A c \in Conns : MaxRequests[c] \in Nat
  BY ServerAssumption
<1>1. ASSUME NEW c \in Conns, Accept(c) PROVE TypeOK'
  <2>1. pending' \in Seq(Tasks)
    BY <1>1, TaskFields, AppendProperties DEF Accept
  <2> QED
    BY <1>1, <2>1 DEF Accept, peerVars, writeVars
<1>2. ASSUME NEW c \in Conns, Keep(c) PROVE TypeOK'
  BY <1>2 DEF Keep, epollVars, loopVars, peerVars, writeVars
<1>3. CASE ClearClientTimer
  BY <1>3 DEF ClearClientTimer, epollVars, loopVars, peerVars, writeVars
<1>4. CASE SwapTasks
  BY <1>4, EmptySeq DEF SwapTasks, objectVars, epollVars, peerVars, writeVars
<1>5. CASE EpollWait
  <2>1. PICK handlers \in SetToSeqs(ReadyHandlers) : pending' = pending \o handlers
    BY <1>5 DEF EpollWait, ReadyHandlers
  <2>2. pending' \in Seq(Tasks)
    BY <2>1, HandlersType, ConcatProperties
  <2> QED
    BY <1>5, <2>2 DEF EpollWait, objectVars, peerVars, writeVars
<1>6. ASSUME PopTask
      PROVE  /\ batch' \in Seq(Tasks) /\ conn \in Conns
             /\ UNCHANGED <<object, loopPc, pending, peer, sent>>
  BY <1>6, PopIs, ConnType DEF PopTask, peerVars
<1>7. CASE RunAdd
  BY <1>6, <1>7 DEF RunAdd, writeVars
<1>8. CASE RunDeleted
  BY <1>6, <1>8 DEF RunDeleted, epollVars, writeVars
<1>9. CASE RunUnconnected
  BY <1>6, <1>9 DEF RunUnconnected, epollVars, writeVars
<1>10. CASE RunRead
  <2>1. PopTask
    BY <1>10 DEF RunRead, Callback
  <2>2. conn \in Conns /\ received[conn] \in Nat /\ sent[conn] \in Nat
        /\ received[conn] <= sent[conn]
    BY <1>6, <2>1
  <2>3. received[conn] \div 2 + 1 \in Nat /\ sent[conn] \div 2 \in Nat
        /\ 1 <= received[conn] \div 2 + 1
        /\ received[conn] \div 2 + 1 <= sent[conn] \div 2 + 1
    BY <2>2
  <2>4. Excute(received[conn] \div 2 + 1, sent[conn] \div 2)
    BY <1>10 DEF RunRead
  <2>5. PICK s \in Seq(Replies) : out' = [out EXCEPT ![conn] = @ \o s]
    BY <2>2, <2>3, <2>4, ExcuteIs
  <2>6. out[conn] \o s \in Seq(Replies)
    BY <2>2, ConcatProperties
  <2>7. out' \in [Conns -> Seq(Replies)]
    BY <2>5, <2>6
  <2>8. mask' \in [Conns -> SUBSET {"IN", "OUT"}] /\ registered' \in SUBSET Conns
    <3>1. ListenFor({"IN", "OUT"})
      BY <2>2, <2>3, <2>4, ExcuteIs
    <3> QED
      BY <2>2, <3>1 DEF ListenFor
  <2>9. /\ UNCHANGED <<process, state, full, shorts, wire>>
        /\ received' = [received EXCEPT ![conn] = sent[conn]]
    BY <1>10 DEF RunRead, writeVars
  <2>10. \A c \in Conns : received'[c] \in Nat /\ received'[c] <= sent[c]
    BY <2>2, <2>9
  <2>11. received' \in [Conns -> Nat]
    BY <2>2, <2>9
  <2> QED
    BY <1>6, <2>1, <2>7, <2>8, <2>9, <2>10, <2>11
<1>11. CASE RunReadEnd
  BY <1>6, <1>11 DEF RunReadEnd, Callback, Clear, writeVars
<1>12. CASE RunWrite
  <2>1. PopTask /\ Write /\ UNCHANGED <<process, state, received, out>>
    BY <1>12 DEF RunWrite, Callback
  <2>2. conn \in Conns /\ out[conn] \in Seq(Replies) /\ wire[conn] \in Seq(Replies)
    BY <1>6, <2>1
  <2>3. wire' \in [Conns -> Seq(Replies)]
    <3>1. CASE wire' = [wire EXCEPT ![conn] = @ \o out[conn]]
      <4>1. wire[conn] \o out[conn] \in Seq(Replies)
        BY <2>2, ConcatProperties
      <4> QED
        BY <3>1, <4>1
    <3>2. CASE ShortWrite(conn)
      <4>1. PICK n \in 0..Len(out[conn]) - 1 :
              wire' = [wire EXCEPT ![conn] = @ \o SubSeq(out[conn], 1, n) \o <<Torn>>]
        BY <3>2 DEF ShortWrite
      <4>2. n \in Int /\ \A i \in 1..n : out[conn][i] \in Replies
        BY <2>2, LenProperties, ElementOfSeq
      <4>3. SubSeq(out[conn], 1, n) \in Seq(Replies)
        BY <4>2, SubSeqProperties
      <4>4. <<Torn>> \in Seq(Replies)
        BY DEF Torn, Replies, Outcomes
      <4>5. wire[conn] \o SubSeq(out[conn], 1, n) \o <<Torn>> \in Seq(Replies)
        BY <2>2, <4>3, <4>4, ConcatProperties
      <4> QED
        BY <4>1, <4>5
    <3> QED
      BY <2>1, <3>1, <3>2 DEF Write
  <2>4. /\ mask' \in [Conns -> SUBSET {"IN", "OUT"}] /\ registered' \in SUBSET Conns
        /\ full' \in [Conns -> BOOLEAN] /\ shorts' \in [Conns -> 0..MaxShort]
    <3>1. CASE ListenFor({"IN"}) /\ UNCHANGED <<full, shorts>>
      BY <2>2, <3>1 DEF ListenFor
    <3>2. CASE shorts[conn] < MaxShort /\ shorts' = [shorts EXCEPT ![conn] = @ + 1]
               /\ full' = [full EXCEPT ![conn] = TRUE] /\ UNCHANGED epollVars
      <4>1. shorts[conn] + 1 \in 0..MaxShort
        BY <1>0, <2>2, <3>2
      <4> QED
        BY <3>2, <4>1 DEF epollVars
    <3> QED
      BY <2>1, <3>1, <3>2 DEF Write
  <2> QED
    BY <1>6, <2>1, <2>3, <2>4
<1>13. CASE RunWriteToNobody
  BY <1>6, <1>13 DEF RunWriteToNobody, Callback, epollVars, writeVars
<1>14. ASSUME NEW c \in Conns, PeerSends(c) PROVE TypeOK'
  <2>1. sent[c] + 1 <= 2 * MaxRequests[c] /\ received[c] <= sent[c] + 1 /\ sent[c] + 1 \in Nat
    BY <1>0, <1>14 DEF PeerSends
  <2> QED
    BY <1>14, <2>1 DEF PeerSends, objectVars, epollVars, loopVars, writeVars
<1>15. ASSUME NEW c \in Conns, PeerCloses(c) \/ PeerResets(c) \/ PeerReads(c) PROVE TypeOK'
  BY <1>15 DEF PeerCloses, PeerResets, PeerReads, objectVars, epollVars, loopVars, peerVars,
               writeVars
<1>16. CASE UNCHANGED vars
  BY <1>16 DEF vars, objectVars, epollVars, loopVars, peerVars, writeVars
<1> QED
  BY <1>1, <1>2, <1>3, <1>4, <1>5, <1>7, <1>8, <1>9, <1>10, <1>11, <1>12, <1>13, <1>14,
     <1>15, <1>16 DEF Next, LoopStep

-----------------------------------------------------------------------------
(* The invariant is kept.                                                  *)

RunTask ==
    RunAdd \/ RunDeleted \/ RunUnconnected \/ RunRead \/ RunReadEnd \/ RunWrite \/ RunWriteToNobody

\* What a task may do to m_state and to the epoll set: close its own connection, which
\* was connected and whose callback it is; register it; or neither.
Closes ==
    /\ Task.op = "IN"
    /\ state[conn] = "Connected"
    /\ state' = [state EXCEPT ![conn] = "Closed"]
    /\ registered' = registered \ {conn}

Registers ==
    /\ Task.op = "add" \/ state[conn] = "Connected"
    /\ state' = state
    /\ registered' = registered \cup {conn}

LEMMA RunIs ==
    ASSUME TypeOK, RunTask
    PROVE  /\ PopTask /\ conn \in Conns /\ UNCHANGED <<object, loopPc, pending>>
           /\ Closes \/ Registers \/ UNCHANGED <<state, registered>>
<1>1. PopTask
  BY DEF RunTask, RunAdd, RunDeleted, RunUnconnected, RunRead, RunReadEnd, RunWrite,
         RunWriteToNobody, Callback
<1>2. conn \in Conns /\ UNCHANGED <<object, loopPc, pending>>
  BY <1>1, ConnType DEF PopTask
<1> SUFFICES Closes \/ Registers \/ UNCHANGED <<state, registered>>
  BY <1>1, <1>2
<1>3. CASE RunAdd
  BY <1>3 DEF RunAdd, Registers
<1>4. CASE RunDeleted \/ RunUnconnected \/ RunWriteToNobody
  BY <1>4 DEF RunDeleted, RunUnconnected, RunWriteToNobody, epollVars
<1>5. CASE RunRead
  <2>1. ListenFor({"IN", "OUT"})
    BY <1>5 DEF RunRead, Excute
  <2> QED
    BY <1>5, <2>1 DEF RunRead, ListenFor, Registers
<1>6. CASE RunReadEnd
  BY <1>6 DEF RunReadEnd, Callback, Clear, Closes
<1>7. CASE RunWrite
  BY <1>7 DEF RunWrite, Write, ListenFor, epollVars, Registers
<1> QED
  BY <1>3, <1>4, <1>5, <1>6, <1>7 DEF RunTask

Quiet == \E c \in Conns : PeerSends(c) \/ PeerCloses(c) \/ PeerResets(c) \/ PeerReads(c)

LEMMA QuietIs ==
    ASSUME Quiet \/ UNCHANGED vars
    PROVE  UNCHANGED <<objectVars, epollVars, loopVars, received, out, wire>>
BY DEF Quiet, PeerSends, PeerCloses, PeerResets, PeerReads, vars, writeVars

LEMMA NextCases ==
    ASSUME [Next]_vars
    PROVE  \/ SwapTasks \/ EpollWait \/ RunTask \/ ClearClientTimer
           \/ \E c \in Conns : Accept(c) \/ Keep(c)
           \/ Quiet \/ UNCHANGED vars
BY DEF Next, LoopStep, RunTask, Quiet

LEMMA ObjectNext ==
    ASSUME TypeOK, ObjectInv, [Next]_vars
    PROVE  /\ ObjectInv'
           /\ \A c \in Conns : state[c] = "Closed" => state'[c] = "Closed"
<1> USE DEF ObjectInv
<1>1. CASE SwapTasks \/ EpollWait
  BY <1>1 DEF SwapTasks, EpollWait, objectVars
<1>2. CASE RunTask
  BY <1>2, RunIs DEF Closes, Registers, TypeOK
<1>3. CASE ClearClientTimer
  BY <1>3 DEF ClearClientTimer, TypeOK
<1>4. ASSUME NEW c \in Conns, Accept(c) \/ Keep(c)
      PROVE  /\ ObjectInv'
             /\ \A d \in Conns : state[d] = "Closed" => state'[d] = "Closed"
  BY <1>4, ZenonT(60) DEF Accept, Keep, TypeOK
<1>5. CASE Quiet \/ UNCHANGED vars
  BY <1>5, QuietIs DEF objectVars
<1> QED
  BY <1>1, <1>2, <1>3, <1>4, <1>5, NextCases

LEMMA LoopNext ==
    ASSUME TypeOK, LoopInv, [Next]_vars
    PROVE  LoopInv'
<1> USE DEF LoopInv
<1>1. CASE SwapTasks
  BY <1>1, EmptySeq DEF SwapTasks
<1>2. CASE EpollWait
  BY <1>2 DEF EpollWait
<1>3. CASE RunTask
  BY <1>3, RunIs DEF PopTask
<1>4. CASE ClearClientTimer
  BY <1>4 DEF ClearClientTimer, loopVars
<1>5. ASSUME NEW c \in Conns, Accept(c) PROVE LoopInv'
  <2> DEFINE t == [op |-> "add", conn |-> c]
  <2>1. t \in Tasks /\ pending \in Seq(Tasks) /\ pending' = Append(pending, t)
        /\ UNCHANGED <<loopPc, batch>>
    BY <1>5, TaskFields DEF Accept, TypeOK
  <2>2. t.op = "add"
    OBVIOUS
  <2> HIDE DEF t
  <2>3. /\ DOMAIN pending' = 1..(Len(pending) + 1) /\ DOMAIN pending = 1..Len(pending)
        /\ \A i \in 1..Len(pending) : pending'[i] = pending[i]
        /\ pending'[Len(pending) + 1] = t
        /\ Len(pending) \in Nat
    BY <2>1, AppendProperties, LenProperties
  <2>4. \A i \in DOMAIN pending' : i \in DOMAIN pending \/ i = Len(pending) + 1
    BY <2>3
  <2> QED
    BY <2>1, <2>2, <2>3, <2>4
<1>6. CASE \E c \in Conns : Keep(c)
  BY <1>6 DEF Keep, loopVars
<1>7. CASE Quiet \/ UNCHANGED vars
  BY <1>7, QuietIs DEF loopVars
<1> QED
  BY <1>1, <1>2, <1>3, <1>4, <1>5, <1>6, <1>7, NextCases

\* Tasks that are posted come behind the others.
LEMMA QueueGrows ==
    ASSUME TypeOK, NEW s \in Seq(Tasks), pending' = pending \o s, batch' = batch
    PROVE  /\ Len(Queue) \in Nat /\ Len(s) \in Nat
           /\ DOMAIN Queue = 1..Len(Queue) /\ DOMAIN s = 1..Len(s)
           /\ \A i \in DOMAIN Queue : i \in DOMAIN Queue' /\ Queue'[i] = Queue[i]
           /\ \A i \in DOMAIN Queue' :
                 \/ i \in DOMAIN Queue /\ Queue'[i] = Queue[i]
                 \/ /\ i \in Len(Queue) + 1..Len(Queue) + Len(s)
                    /\ Queue'[i] = s[i - Len(Queue)]
<1>1. Queue \in Seq(Tasks) /\ batch \in Seq(Tasks) /\ pending \in Seq(Tasks)
  BY QueueIs DEF TypeOK
<1>2. Len(Queue) \in Nat /\ Len(s) \in Nat /\ DOMAIN Queue = 1..Len(Queue) /\ DOMAIN s = 1..Len(s)
  BY <1>1, LenProperties
<1>3. Queue' = Queue \o s
  <2>1. batch \o (pending \o s) = (batch \o pending) \o s
    BY <1>1, ConcatAssociative, SMTT(60)
  <2> QED
    BY <2>1 DEF Queue
<1>4. /\ Queue' \in Seq(Tasks) /\ Len(Queue') = Len(Queue) + Len(s)
      /\ \A i \in 1..(Len(Queue) + Len(s)) :
            Queue'[i] = IF i <= Len(Queue) THEN Queue[i] ELSE s[i - Len(Queue)]
  BY <1>1, <1>3, ConcatProperties
<1>5. DOMAIN Queue' = 1..(Len(Queue) + Len(s))
  BY <1>4, LenProperties
<1>6. ASSUME NEW i \in DOMAIN Queue PROVE i \in DOMAIN Queue' /\ Queue'[i] = Queue[i]
  BY <1>2, <1>4, <1>5
<1>7. ASSUME NEW i \in DOMAIN Queue'
      PROVE  \/ i \in DOMAIN Queue /\ Queue'[i] = Queue[i]
             \/ /\ i \in Len(Queue) + 1..Len(Queue) + Len(s)
                /\ Queue'[i] = s[i - Len(Queue)]
  BY <1>2, <1>4, <1>5
<1> QED
  BY <1>2, <1>6, <1>7

\* The queue of the thread does not change when the batch is taken.
LEMMA SwapIs == ASSUME TypeOK, LoopInv, SwapTasks PROVE Queue' = Queue
<1>1. batch = <<>> /\ batch' = pending /\ pending' = <<>> /\ pending \in Seq(Tasks)
  BY DEF SwapTasks, LoopInv, TypeOK
<1>2. <<>> \o pending = pending /\ pending \o <<>> = pending
  BY <1>1, ConcatEmptySeq
<1> QED
  BY <1>1, <1>2 DEF Queue

\* epoll_wait queues callbacks of connections that are registered.
LEMMA EpollIs ==
    ASSUME TypeOK, EpollWait
    PROVE  \E s \in Seq(Tasks) :
               /\ pending' = pending \o s /\ UNCHANGED <<batch, object, state>>
               /\ registered' \subseteq registered
               /\ \A i \in 1..Len(s) : s[i].op # "add" /\ s[i].conn \in registered
<1>1. PICK s \in SetToSeqs(ReadyHandlers) : pending' = pending \o s
  BY DEF EpollWait, ReadyHandlers
<1>2. s \in Seq(Tasks) /\ \A i \in DOMAIN s : s[i] \in Handlers /\ s[i].conn \in registered
  BY HandlersType
<1>3. \A i \in 1..Len(s) : s[i].op # "add" /\ s[i].conn \in registered
  BY <1>2, TaskFields, LenProperties
<1> QED
  BY <1>1, <1>2, <1>3 DEF EpollWait, objectVars

LEMMA AcceptIs ==
    ASSUME TypeOK, NEW c \in Conns, Accept(c)
    PROVE  LET s == <<[op |-> "add", conn |-> c]>>
           IN  /\ s \in Seq(Tasks) /\ Len(s) = 1
               /\ s[1].op = "add" /\ s[1].conn = c
               /\ pending' = pending \o s
               /\ UNCHANGED <<batch, state, registered>>
               /\ object[c] = "none" /\ object' = [object EXCEPT ![c] = "made"]
<1> DEFINE t == [op |-> "add", conn |-> c]
<1>1. t \in Tasks /\ pending \in Seq(Tasks)
  BY TaskFields DEF TypeOK
<1>2. pending' = Append(pending, t)
  BY DEF Accept
<1>3. t.op = "add" /\ t.conn = c
  OBVIOUS
<1> HIDE DEF t
<1>4. pending' = pending \o <<t>>
  BY <1>1, <1>2, AppendIsConcat
<1>5. <<t>> \in Seq(Tasks) /\ Len(<<t>>) = 1 /\ <<t>>[1] = t
  BY <1>1
<1> QED
  BY <1>3, <1>4, <1>5 DEF Accept, t

LEMMA QueueNext ==
    ASSUME TypeOK, ObjectInv, LoopInv, QueueInv, [Next]_vars
    PROVE  QueueInv'
<1>0. \A i \in DOMAIN Queue : Queue[i] \in Tasks /\ Queue[i].conn \in Conns
  BY QueueIs, ElementOfSeq, LenProperties, TaskFields
<1>1. CASE SwapTasks
  <2>1. UNCHANGED <<object, state, registered>>
    BY <1>1 DEF SwapTasks, objectVars, epollVars
  <2> QED
    BY <1>1, <2>1, SwapIs DEF QueueInv
<1>2. CASE EpollWait
  <2>1. PICK s \in Seq(Tasks) :
          /\ pending' = pending \o s /\ UNCHANGED <<batch, object, state>>
          /\ registered' \subseteq registered
          /\ \A i \in 1..Len(s) : s[i].op # "add" /\ s[i].conn \in registered
    BY <1>2, EpollIs
  <2>2. ASSUME NEW i \in DOMAIN Queue', ~(i \in DOMAIN Queue /\ Queue'[i] = Queue[i])
        PROVE  Queue'[i].op # "add" /\ Queue'[i].conn \in registered
    <3>1. i \in Len(Queue) + 1..Len(Queue) + Len(s) /\ Queue'[i] = s[i - Len(Queue)]
      BY <2>1, <2>2, QueueGrows
    <3>2. i - Len(Queue) \in 1..Len(s)
      BY <2>1, <3>1, QueueGrows
    <3> QED
      BY <2>1, <3>1, <3>2
  <2> QED
    BY <2>1, <2>2 DEF QueueInv
<1>3. CASE RunTask
  BY <1>3, RunIs, PopKeepsQueue DEF Closes, Registers, TypeOK
<1>4. CASE ClearClientTimer
  BY <1>0, <1>4, SMTT(60) DEF ClearClientTimer, epollVars, loopVars, QueueInv, Queue, TypeOK
<1>5. ASSUME NEW c \in Conns, Accept(c) PROVE QueueInv'
  <2> DEFINE s == <<[op |-> "add", conn |-> c]>>
  <2>1. /\ s \in Seq(Tasks) /\ Len(s) = 1
        /\ s[1].op = "add" /\ s[1].conn = c
        /\ pending' = pending \o s
        /\ UNCHANGED <<batch, state, registered>>
        /\ object[c] = "none" /\ object' = [object EXCEPT ![c] = "made"]
    BY <1>5, AcceptIs
  <2> HIDE DEF s
  <2>2. c \notin registered /\ \A i \in DOMAIN Queue : Queue[i].conn # c
    BY <2>1 DEF QueueInv
  <2>3. state[c] = "NotConnected"
    BY <2>1 DEF ObjectInv
  <2>4. ASSUME NEW i \in DOMAIN Queue'
        PROVE  \/ i \in DOMAIN Queue /\ Queue'[i] = Queue[i]
               \/ i = Len(Queue) + 1 /\ Queue'[i].op = "add" /\ Queue'[i].conn = c
    <3>1. CASE i \in Len(Queue) + 1..Len(Queue) + Len(s) /\ Queue'[i] = s[i - Len(Queue)]
      <4>1. i = Len(Queue) + 1 /\ i - Len(Queue) = 1
        BY <2>1, <3>1, QueueGrows
      <4> QED
        BY <2>1, <3>1, <4>1
    <3> QED
      BY <2>1, <3>1, QueueGrows
  <2>5. \A d \in Conns : object[d] # "none" => object'[d] # "none"
    BY <2>1 DEF TypeOK
  <2>6. object'[c] # "none"
    BY <2>1 DEF TypeOK
  <2>7. \A d \in registered' : object'[d] # "none"
    BY <2>1, <2>5 DEF QueueInv, TypeOK
  <2> QED
    BY <1>0, <2>1, <2>2, <2>3, <2>4, <2>5, <2>6, <2>7 DEF QueueInv
<1>6. ASSUME NEW c \in Conns, Keep(c) PROVE QueueInv'
  <2>1. UNCHANGED <<registered, batch, pending>>
    BY <1>6 DEF Keep, epollVars, loopVars
  <2>2. \A d \in Conns : /\ object[d] # "none" => object'[d] # "none"
                         /\ state[d] # "Closed" => state'[d] # "Closed"
    BY <1>6 DEF Keep, TypeOK
  <2>3. registered \subseteq Conns
    BY DEF TypeOK
  <2> QED
    BY <1>0, <2>1, <2>2, <2>3 DEF QueueInv, Queue
<1>7. CASE Quiet \/ UNCHANGED vars
  BY <1>7, QuietIs DEF objectVars, epollVars, loopVars, QueueInv, Queue
<1> QED
  BY <1>1, <1>2, <1>3, <1>4, <1>5, <1>6, <1>7, NextCases

LEMMA ClosedNext ==
    ASSUME TypeOK, ObjectInv, LoopInv, QueueInv, ClosedInv, [Next]_vars
    PROVE  ClosedInv'
<1>1. CASE SwapTasks
  BY <1>1 DEF SwapTasks, objectVars, epollVars, ClosedInv
<1>2. CASE EpollWait
  <2>1. PICK s \in Seq(Tasks) :
          /\ pending' = pending \o s /\ UNCHANGED <<batch, object, state>>
          /\ registered' \subseteq registered
          /\ \A i \in 1..Len(s) : s[i].op # "add" /\ s[i].conn \in registered
    BY <1>2, EpollIs
  <2>2. /\ \A i \in 1..(Len(pending) + Len(s)) :
              pending'[i] = IF i <= Len(pending) THEN pending[i] ELSE s[i - Len(pending)]
        /\ DOMAIN pending' = 1..(Len(pending) + Len(s)) /\ DOMAIN pending = 1..Len(pending)
        /\ Len(pending) \in Nat /\ Len(s) \in Nat
    <3>1. pending \in Seq(Tasks)
      BY DEF TypeOK
    <3>2. /\ pending' \in Seq(Tasks)
          /\ Len(pending') = Len(pending) + Len(s)
          /\ \A i \in 1..(Len(pending) + Len(s)) :
              pending'[i] = IF i <= Len(pending) THEN pending[i] ELSE s[i - Len(pending)]
      BY <2>1, <3>1, ConcatProperties
    <3> QED
      BY <3>1, <3>2, LenProperties
  <2>3. ASSUME NEW i \in DOMAIN pending'
        PROVE  (i \in DOMAIN pending /\ pending'[i] = pending[i]) \/ pending'[i].conn \in registered
    <3>1. i \in 1..Len(pending) \/ (~(i <= Len(pending)) /\ i - Len(pending) \in 1..Len(s))
      BY <2>2
    <3> QED
      BY <2>1, <2>2, <3>1
  <2> QED
    BY <2>1, <2>3 DEF ClosedInv
<1>3. CASE RunTask
  <2>0. PopTask /\ conn \in Conns /\ UNCHANGED <<object, loopPc, pending>>
    BY <1>3, RunIs
  <2>1. Queue[1] = Task /\ 1 \in DOMAIN Queue
    BY <2>0, PopIs
  <2>2. CASE Closes
    <3>1. ASSUME NEW i \in DOMAIN pending PROVE pending[i].conn # conn
      <4>1. pending[i].op = "add"
        BY <2>0 DEF LoopInv, PopTask
      <4>2. Len(batch) + i \in DOMAIN Queue /\ Queue[Len(batch) + i] = pending[i]
        BY QueueIs
      <4>3. Len(batch) + i # 1
        BY <2>0, QueueIs, PopIs
      <4> QED
        BY <2>1, <4>1, <4>2, <4>3 DEF QueueInv, conn
    <3> QED
      BY <2>0, <2>2, <3>1 DEF ClosedInv, Closes, TypeOK
  <2>3. CASE Registers
    <3>1. state[conn] # "Closed"
      BY <2>1, <2>3 DEF Registers, QueueInv, conn
    <3> QED
      BY <2>0, <2>3, <3>1 DEF ClosedInv, Registers
  <2>4. CASE UNCHANGED <<state, registered>>
    BY <2>0, <2>4 DEF ClosedInv
  <2> QED
    BY <1>3, <2>2, <2>3, <2>4, RunIs
<1>4. CASE ClearClientTimer
  BY <1>4 DEF ClearClientTimer, epollVars, loopVars, ClosedInv
<1>5. ASSUME NEW c \in Conns, Accept(c) PROVE ClosedInv'
  <2>1. pending' = Append(pending, [op |-> "add", conn |-> c]) /\ UNCHANGED <<state, registered>>
    BY <1>5 DEF Accept
  <2>2. state[c] = "NotConnected"
    BY <1>5 DEF Accept, ObjectInv
  <2>3. ASSUME NEW i \in DOMAIN pending'
        PROVE  (i \in DOMAIN pending /\ pending'[i] = pending[i]) \/ pending'[i].conn = c
    <3> DEFINE t == [op |-> "add", conn |-> c]
    <3>1. t \in Tasks /\ t.conn = c /\ pending \in Seq(Tasks)
      BY TaskFields DEF TypeOK
    <3> HIDE DEF t
    <3>2. pending' = Append(pending, t)
      BY <2>1 DEF t
    <3>3. /\ DOMAIN pending' = 1..(Len(pending) + 1) /\ DOMAIN pending = 1..Len(pending)
          /\ \A j \in 1..Len(pending) : pending'[j] = pending[j]
          /\ pending'[Len(pending) + 1] = t
          /\ Len(pending) \in Nat
      BY <3>1, <3>2, AppendProperties, LenProperties
    <3>4. i \in DOMAIN pending \/ i = Len(pending) + 1
      BY <3>3
    <3> QED
      BY <3>1, <3>3, <3>4
  <2> QED
    BY <2>1, <2>2, <2>3 DEF ClosedInv
<1>6. ASSUME NEW c \in Conns, Keep(c) PROVE ClosedInv'
  BY <1>6 DEF Keep, epollVars, loopVars, ClosedInv, TypeOK
<1>7. CASE Quiet \/ UNCHANGED vars
  BY <1>7, QuietIs DEF objectVars, epollVars, loopVars, ClosedInv
<1> QED
  BY <1>1, <1>2, <1>3, <1>4, <1>5, <1>6, <1>7, NextCases

\* What is appended to a sequence leaves what it held where it was.
LEMMA ConcatKeeps ==
    ASSUME NEW S, NEW s \in Seq(S), NEW t \in Seq(S)
    PROVE  /\ s \o t \in Seq(S)
           /\ DOMAIN s = 1..Len(s) /\ Len(s) \in Nat /\ Len(t) \in Nat /\ DOMAIN t = 1..Len(t)
           /\ DOMAIN (s \o t) = 1..(Len(s) + Len(t))
           /\ \A i \in DOMAIN s : i \in DOMAIN (s \o t) /\ (s \o t)[i] = s[i]
           /\ \A i \in DOMAIN t :
                 Len(s) + i \in DOMAIN (s \o t) /\ (s \o t)[Len(s) + i] = t[i]
<1>1. /\ s \o t \in Seq(S) /\ Len(s \o t) = Len(s) + Len(t)
      /\ \A i \in 1..(Len(s) + Len(t)) :
            (s \o t)[i] = IF i <= Len(s) THEN s[i] ELSE t[i - Len(s)]
  BY ConcatProperties
<1>2. /\ DOMAIN s = 1..Len(s) /\ Len(s) \in Nat /\ Len(t) \in Nat /\ DOMAIN t = 1..Len(t)
      /\ DOMAIN (s \o t) = 1..(Len(s) + Len(t))
  BY <1>1, LenProperties
<1>3. \A i \in DOMAIN s : i \in DOMAIN (s \o t) /\ (s \o t)[i] = s[i]
  BY <1>1, <1>2
<1>4. ASSUME NEW i \in DOMAIN t
      PROVE  Len(s) + i \in DOMAIN (s \o t) /\ (s \o t)[Len(s) + i] = t[i]
  <2>1. Len(s) + i \in 1..(Len(s) + Len(t)) /\ ~(Len(s) + i <= Len(s)) /\ (Len(s) + i) - Len(s) = i
    BY <1>2
  <2> QED
    BY <1>1, <1>2, <2>1
<1> QED
  BY <1>1, <1>2, <1>3, <1>4

LEMMA ConcatHolds ==
    ASSUME NEW S, NEW s \in Seq(S), NEW t \in Seq(S)
    PROVE  /\ \A i \in DOMAIN s : \E j \in DOMAIN (s \o t) : (s \o t)[j] = s[i]
           /\ \A i \in DOMAIN t : \E j \in DOMAIN (s \o t) : (s \o t)[j] = t[i]
<1> DEFINE w == s \o t
<1>1. \A i \in DOMAIN s : i \in DOMAIN w /\ w[i] = s[i]
  BY ConcatKeeps
<1>2. \A i \in DOMAIN t : Len(s) + i \in DOMAIN w /\ w[Len(s) + i] = t[i]
  BY ConcatKeeps
<1> QED
  BY <1>1, <1>2

\* The requests of one more read are answered in what excute appends.
LEMMA ReadAnswers ==
    ASSUME TypeOK, ObjectInv, AnswerInv, RunRead
    PROVE  AnswerInv'
<1>1. PICK c \in Conns : c = conn /\ state[c] = "Connected"
  BY ConnType DEF RunRead, Callback
<1> DEFINE first == received[c] \div 2 + 1
           last == sent[c] \div 2
<1>2. received[c] \in Nat /\ sent[c] \in Nat /\ received[c] <= sent[c]
  BY <1>1 DEF TypeOK
<1>3. first \in Nat /\ last \in Nat /\ 1 <= first /\ first <= last + 1
  BY <1>2
<1>4. Excute(first, last)
  BY <1>1 DEF RunRead
<1> HIDE DEF first, last
<1>5. ListenFor({"IN", "OUT"})
  BY <1>1, <1>3, <1>4, ExcuteIs
<1>6. PICK s \in Seq(Replies) :
        /\ out' = [out EXCEPT ![conn] = @ \o s]
        /\ \A k \in first..last : \E i \in DOMAIN s : s[i].req = k
  BY <1>1, <1>3, <1>4, ExcuteIs
<1>7. state' = state /\ wire' = wire /\ received' = [received EXCEPT ![c] = sent[c]]
      /\ mask' = [mask EXCEPT ![c] = {"IN", "OUT"}]
  BY <1>1, <1>5 DEF RunRead, ListenFor, writeVars
<1>8. ASSUME NEW d \in Conns, d # c PROVE Answers(d)'
  <2>1. Answers(d)
    BY DEF AnswerInv
  <2>2. UNCHANGED <<state[d], mask[d], received[d], out[d], wire[d]>>
    BY <1>1, <1>6, <1>7, <1>8 DEF TypeOK
  <2> QED
    BY <2>1, <2>2 DEF Answers, IsTorn
<1>9. Answers(c)'
  <2> DEFINE w == out'[c]
  <2>1. state'[c] = "Connected" /\ "OUT" \in mask'[c] /\ received'[c] = sent[c]
        /\ w = out[c] \o s /\ out[c] \in Seq(Replies)
    BY <1>1, <1>6, <1>7 DEF TypeOK
  <2> DEFINE o == out[c]
  <2>2. /\ \A i \in DOMAIN o : \E j \in DOMAIN w : w[j] = o[i]
        /\ \A i \in DOMAIN s : \E j \in DOMAIN w : w[j] = s[i]
    <3>1. o \in Seq(Replies) /\ s \in Seq(Replies) /\ w = o \o s
      BY <2>1
    <3> HIDE DEF o, w
    <3>2. /\ \A i \in DOMAIN o : \E j \in DOMAIN (o \o s) : (o \o s)[j] = o[i]
          /\ \A i \in DOMAIN s : \E j \in DOMAIN (o \o s) : (o \o s)[j] = s[i]
      BY <3>1, ConcatHolds, SMTT(60)
    <3> QED
      BY <3>1, <3>2
  <2>3. ASSUME NEW k \in 1..sent[c] \div 2 PROVE \E i \in DOMAIN w : w[i].req = k
    <3> HIDE DEF w
    <3>1. CASE k < first
      <4>1. k \in 1..received[c] \div 2
        BY <1>2, <3>1 DEF first
      <4>2. PICK i \in DOMAIN out[c] : out[c][i].req = k
        BY <1>1, <4>1 DEF AnswerInv, Answers
      <4>3. \E j \in DOMAIN w : w[j] = out[c][i]
        BY <2>2, <4>2
      <4> QED
        BY <4>2, <4>3
    <3>2. CASE ~(k < first)
      <4>1. k \in first..last
        BY <1>2, <1>3, <3>2 DEF last
      <4>2. PICK i \in DOMAIN s : s[i].req = k
        BY <1>6, <4>1
      <4>3. \E j \in DOMAIN w : w[j] = s[i]
        BY <2>2, <4>2
      <4> QED
        BY <4>2, <4>3
    <3> QED
      BY <3>1, <3>2
  <2> QED
    BY <2>1, <2>3 DEF Answers
<1> QED
  BY <1>8, <1>9 DEF AnswerInv

\* A write that takes the whole buffer puts every reply on the wire; a short one tears it.
LEMMA WriteAnswers ==
    ASSUME TypeOK, ObjectInv, AnswerInv, RunWrite
    PROVE  AnswerInv'
<1>1. PICK c \in Conns : c = conn /\ state[c] = "Connected"
  BY ConnType DEF RunWrite, Callback
<1>2. /\ out[c] \in Seq(Replies) /\ wire[c] \in Seq(Replies)
      /\ UNCHANGED <<state, received, out>>
  BY DEF TypeOK, RunWrite
<1>3. CASE wire' = [wire EXCEPT ![c] = @ \o out[c]] /\ ListenFor({"IN"})
  <2>1. ASSUME NEW d \in Conns, d # c PROVE Answers(d)'
    <3>1. Answers(d)
      BY DEF AnswerInv
    <3>2. UNCHANGED <<state[d], mask[d], received[d], out[d], wire[d]>>
      BY <1>1, <1>2, <1>3, <2>1 DEF ListenFor, TypeOK
    <3> QED
      BY <3>1, <3>2 DEF Answers, IsTorn
  <2>2. Answers(c)'
    <3>1. wire'[c] = wire[c] \o out[c]
      BY <1>1, <1>3 DEF TypeOK
    <3>2. \A i \in DOMAIN out[c] : \E j \in DOMAIN wire'[c] : wire'[c][j] = out[c][i]
      <4> DEFINE o == out[c]
                 w == wire[c]
                 v == wire'[c]
      <4>1. o \in Seq(Replies) /\ w \in Seq(Replies) /\ v = w \o o
        BY <1>2, <3>1
      <4> HIDE DEF o, w, v
      <4>2. \A i \in DOMAIN o : \E j \in DOMAIN (w \o o) : (w \o o)[j] = o[i]
        BY <4>1, ConcatHolds
      <4> QED
        BY <4>1, <4>2 DEF o, v
    <3> QED
      BY <1>2, <3>2 DEF Answers, AnswerInv
  <2> QED
    BY <2>1, <2>2 DEF AnswerInv
<1>4. CASE ShortWrite(c) /\ UNCHANGED epollVars
  <2>1. PICK n \in 0..Len(out[c]) - 1 :
          wire' = [wire EXCEPT ![c] = @ \o SubSeq(out[c], 1, n) \o <<Torn>>]
    BY <1>4 DEF ShortWrite
  <2>2. ASSUME NEW d \in Conns, d # c PROVE Answers(d)'
    <3>1. Answers(d)
      BY DEF AnswerInv
    <3>2. UNCHANGED <<state[d], mask[d], received[d], out[d], wire[d]>>
      BY <1>2, <1>4, <2>1, <2>2 DEF epollVars, TypeOK
    <3> QED
      BY <3>1, <3>2 DEF Answers, IsTorn
  <2>3. Answers(c)'
    <3> DEFINE w == wire[c] \o SubSeq(out[c], 1, n)
               torn == <<Torn>>
    <3>1. wire'[c] = w \o torn
      BY <1>1, <2>1 DEF TypeOK
    <3>2. w \in Seq(Replies)
      <4>1. n \in Int /\ \A i \in 1..n : out[c][i] \in Replies
        BY <1>2, LenProperties, ElementOfSeq
      <4>2. SubSeq(out[c], 1, n) \in Seq(Replies)
        BY <4>1, SubSeqProperties
      <4> QED
        BY <1>2, <4>2, ConcatProperties
    <3>3. torn \in Seq(Replies) /\ 1 \in DOMAIN torn /\ torn[1] = Torn
      BY DEF Torn, Replies, Outcomes
    <3>4. IsTorn(c)'
      <4> HIDE DEF w, torn
      <4>1. \A i \in DOMAIN torn : \E j \in DOMAIN (w \o torn) : (w \o torn)[j] = torn[i]
        BY <3>2, <3>3, ConcatHolds
      <4> QED
        BY <3>1, <3>3, <4>1 DEF IsTorn
    <3> QED
      BY <1>2, <3>4 DEF Answers, AnswerInv
  <2> QED
    BY <2>2, <2>3 DEF AnswerInv
<1> QED
  BY <1>1, <1>3, <1>4 DEF RunWrite, Write

LEMMA AnswerNext ==
    ASSUME TypeOK, ObjectInv, AnswerInv, [Next]_vars
    PROVE  AnswerInv'
<1> USE DEF AnswerInv, Answers, IsTorn
<1>1. CASE SwapTasks \/ EpollWait
  BY <1>1 DEF SwapTasks, EpollWait, objectVars, epollVars, writeVars
<1>2. CASE RunAdd \/ RunDeleted \/ RunUnconnected \/ RunWriteToNobody
  BY <1>2 DEF RunAdd, RunDeleted, RunUnconnected, RunWriteToNobody, epollVars, writeVars
<1>3. CASE RunRead
  BY <1>3, ReadAnswers
<1>4. CASE RunReadEnd
  <2>1. conn \in Conns
    BY <1>4, ConnType DEF RunReadEnd, Callback
  <2>2. /\ state' = [state EXCEPT ![conn] = "Closed"] /\ mask' = [mask EXCEPT ![conn] = {}]
        /\ UNCHANGED <<received, out, wire>>
    BY <1>4 DEF RunReadEnd, Clear, writeVars
  <2>3. ASSUME NEW d \in Conns PROVE Answers(d)'
    <3>1. Answers(d)
      OBVIOUS
    <3>2. CASE d = conn
      BY <2>1, <2>2, <3>1, <3>2 DEF TypeOK
    <3>3. CASE d # conn
      <4>1. UNCHANGED <<state[d], mask[d]>>
        BY <2>2, <3>3 DEF TypeOK
      <4> QED
        BY <2>2, <3>1, <4>1
    <3> QED
      BY <3>2, <3>3
  <2> QED
    BY <2>3
<1>5. CASE RunWrite
  BY <1>5, WriteAnswers
<1>6. CASE ClearClientTimer
  BY <1>6 DEF ClearClientTimer, epollVars, writeVars
<1>7. ASSUME NEW c \in Conns, Accept(c) \/ Keep(c) PROVE AnswerInv'
  <2>1. state[c] = "NotConnected"
    BY <1>7 DEF Accept, Keep, ObjectInv
  <2>2. UNCHANGED <<received, out, wire>>
    BY <1>7 DEF Accept, Keep, writeVars
  <2>3. \A d \in Conns : d # c => UNCHANGED <<state[d], mask[d]>>
    BY <1>7 DEF Accept, Keep, epollVars, TypeOK
  <2>4. DOMAIN out[c] = {}
    BY <2>1
  <2>5. ASSUME NEW d \in Conns PROVE Answers(d)'
    <3>1. Answers(d)
      OBVIOUS
    <3>2. CASE d # c
      BY <2>2, <2>3, <3>1, <3>2
    <3>3. CASE d = c
      BY <2>1, <2>2, <2>4, <3>1, <3>3
    <3> QED
      BY <3>2, <3>3
  <2> QED
    BY <2>5
<1>8. CASE Quiet \/ UNCHANGED vars
  BY <1>8, QuietIs DEF objectVars, epollVars
<1> QED
  BY <1>1, <1>2, <1>3, <1>4, <1>5, <1>6, <1>7, <1>8, NextCases DEF RunTask

-----------------------------------------------------------------------------
(* The theorems.                                                           *)

LEMMA ServerInit == Init => ServerInv
<1> SUFFICES ASSUME Init PROVE ServerInv
  OBVIOUS
<1>1. TypeOK
  BY TypeInit
<1>2. ObjectInv
  BY DEF Init, ObjectInv
<1>3. LoopInv
  BY DEF Init, LoopInv
<1>4. DOMAIN Queue = {} /\ pending = <<>> /\ DOMAIN pending = {}
  <2>1. Queue = <<>>
    BY EmptySeq, ConcatEmptySeq DEF Init, Queue
  <2> QED
    BY <2>1 DEF Init
<1>5. QueueInv
  BY <1>4 DEF Init, QueueInv
<1>6. ClosedInv
  BY DEF Init, ClosedInv
<1>7. ASSUME NEW c \in Conns PROVE Answers(c)
  <2>1. received[c] = 0 /\ out[c] = <<>> /\ mask[c] = {} /\ state[c] = "NotConnected"
    BY DEF Init
  <2>2. 1..(received[c] \div 2) = {}
    BY <2>1
  <2> QED
    BY <2>1, <2>2 DEF Answers
<1> QED
  BY <1>1, <1>2, <1>3, <1>5, <1>6, <1>7 DEF ServerInv, AnswerInv

LEMMA ServerNext == ServerInv /\ [Next]_vars => ServerInv'
BY TypeNext, ObjectNext, LoopNext, QueueNext, ClosedNext, AnswerNext DEF ServerInv

LEMMA ServerInvariant == Spec => []ServerInv
BY ServerInit, ServerNext, PTL DEF Spec

\* Every variable of the server keeps its type; a connection has never been read further
\* than its peer has sent, nor has the peer sent more than it may.
THEOREM ServerTypeCorrect == Spec => []TypeOK
<1>1. ServerInv => TypeOK
  BY DEF ServerInv
<1> QED
  BY <1>1, ServerInvariant, PTL

\* When ClearClientTimerFunc erases a connection from m_client, and with that deletes it,
\* the epoll set and the pending tasks of its IO thread have forgotten it: the thread that
\* deletes never asks the thread that closed, and only a callback which that thread is
\* already running can meet the dangling pointer.
THEOREM DeletedStaysUnreachable == Spec => []DeletedIsUnreachable
<1>1. ServerInv => DeletedIsUnreachable
  BY DEF ServerInv, ObjectInv, ClosedInv, DeletedIsUnreachable
<1> QED
  BY <1>1, ServerInvariant, PTL

\* setState sets Connected whatever it is given, in a thread that has handed the
\* connection over before; it never brings back a connection that clear() has closed.
THEOREM ClosedIsForGood == Spec => ClosedForGood
<1>1. ServerInv /\ [Next]_vars => \A c \in Conns : state[c] = "Closed" => state'[c] = "Closed"
  BY ObjectNext DEF ServerInv
<1> QED
  BY <1>1, ServerInvariant, PTL DEF Spec, ClosedForGood

\* When onWrite has cancelled the OUT event, every request that onRead has decoded has a
\* reply on the wire, unless a short write has torn the stream: no encode can slip in
\* between the write and the change of the mask.
THEOREM IdleHasAnswered == Spec => []IdleMeansAnswered
<1>1. ASSUME ServerInv PROVE IdleMeansAnswered
  <2> SUFFICES ASSUME NEW c \in Conns, state[c] = "Connected", "OUT" \notin mask[c], ~IsTorn(c),
                      NEW k \in 1..received[c] \div 2
               PROVE  k \in Answered(c)
    BY DEF IdleMeansAnswered
  <2>1. PICK i \in DOMAIN out[c] : out[c][i].req = k
    BY <1>1 DEF ServerInv, AnswerInv, Answers
  <2>2. PICK j \in DOMAIN wire[c] : wire[c][j] = out[c][i]
    BY <1>1 DEF ServerInv, AnswerInv, Answers
  <2>3. j \in Whole(c)
    <3>1. DOMAIN wire[c] = 1..Len(wire[c]) /\ Len(wire[c]) \in Nat
      BY <1>1, LenProperties DEF ServerInv, TypeOK
    <3>2. \A m \in 1..j : m \in DOMAIN wire[c]
      BY <3>1
    <3> QED
      BY <3>2 DEF Whole, IsTorn
  <2> QED
    BY <2>1, <2>2, <2>3 DEF Answered
<1> QED
  BY <1>1, ServerInvariant, PTL
=============================================================================
