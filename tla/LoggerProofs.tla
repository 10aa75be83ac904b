------------------------------ MODULE LoggerProofs ------------------------------
(***************************************************************************)
(* Logger for any threads, file sizes and numbers of lines: its types, and *)
(* that every line which was pushed is in one place between the buffer and *)
(* the files, in its order until a signal interrupts, in bounded files.    *)
(***************************************************************************)
EXTENDS Logger, SequenceTheorems, WellFoundedInduction, TLAPS

(* Sequences.                                                              *)

\* A set of naturals that holds 0 and, with each number, the next one, holds all.
LEMMA SetInduction ==
    ASSUME NEW S \in SUBSET Nat, 0 \in S, \A n \in S : n + 1 \in S
    PROVE  S = Nat
<1> DEFINE T == Nat \ S
<1>1. SUFFICES ASSUME T # {} PROVE FALSE
  OBVIOUS
<1>2. PICK n \in T : \A m \in T : ~ (<<m, n>> \in OpToRel(<, Nat))
  BY <1>1, NatLessThanWellFounded, WFMin
<1>3. n - 1 \in T /\ n - 1 < n /\ n - 1 \in Nat /\ n \in Nat
  OBVIOUS
<1>4. <<n - 1, n>> \in OpToRel(<, Nat)
  BY <1>3 DEF OpToRel
<1> QED
  BY <1>2, <1>3, <1>4

\* The function by which FlattenSeq is defined exists, and its values are sequences.
LEMMA FlattenIsDefined ==
    ASSUME NEW S, NEW q \in Seq(Seq(S)), q # <<>>
    PROVE  \E f \in [1..Len(q) -> Seq(S)] :
               /\ \A i \in 1..Len(q) : f[i] = IF i = 1 THEN q[i] ELSE f[i - 1] \o q[i]
               /\ FlattenSeq(q) = f[Len(q)]
<1> DEFINE Step(f, i) == IF i = 1 THEN q[i] ELSE f[i - 1] \o q[i]
           Upto(f, n) == \A i \in 1..n : f[i] = Step(f, i)
           Done == {n \in Nat : n <= Len(q) => \E f : f \in [1..n -> Seq(S)] /\ Upto(f, n)}
<1>1. Len(q) \in Nat \ {0} /\ \A i \in 1..Len(q) : q[i] \in Seq(S)
  BY EmptySeq, LenProperties, ElementOfSeq
<1>2. 0 \in Done
  <2>1. [i \in 1..0 |-> q[i]] \in [1..0 -> Seq(S)] /\ Upto([i \in 1..0 |-> q[i]], 0)
    OBVIOUS
  <2> QED
    BY <2>1
<1>3. ASSUME NEW n \in Done, n + 1 <= Len(q)
      PROVE  \E f : f \in [1..(n + 1) -> Seq(S)] /\ Upto(f, n + 1)
  <2>0. n \in Nat /\ n <= Len(q)
    BY <1>1, <1>3
  <2>1. PICK f : f \in [1..n -> Seq(S)] /\ Upto(f, n)
    BY <2>0
  <2> DEFINE next == Step(f, n + 1)
             g == [i \in 1..(n + 1) |-> IF i <= n THEN f[i] ELSE next]
  <2>2. next \in Seq(S)
    <3>1. n + 1 = 1 \/ (n + 1 # 1 /\ (n + 1) - 1 = n /\ f[n] \in Seq(S))
      BY <2>0, <2>1
    <3>2. q[n + 1] \in Seq(S)
      BY <1>1, <1>3, <2>0
    <3> QED
      BY <3>1, <3>2, ConcatProperties
  <2>3. ASSUME NEW i \in 1..n PROVE g[i] = f[i] /\ f[i] = Step(f, i)
    <3>1. f[i] = Step(f, i)
      BY <2>1
    <3> HIDE DEF Step
    <3>2. g[i] = f[i]
      BY <2>0
    <3> QED
      BY <3>1, <3>2
  <2>4. g[n + 1] = Step(f, n + 1)
    BY <2>0
  <2> HIDE DEF next
  <2>5. g \in [1..(n + 1) -> Seq(S)]
    BY <2>0, <2>1, <2>2
  <2> HIDE DEF g
  <2>6. ASSUME NEW i \in 1..(n + 1) PROVE g[i] = Step(g, i)
    <3>1. i = 1 \/ (i # 1 /\ g[i - 1] = f[i - 1])
      BY <2>0, <2>3
    <3>2. g[i] = Step(f, i)
      BY <2>0, <2>3, <2>4
    <3> QED
      BY <3>1, <3>2
  <2> QED
    BY <2>5, <2>6
<1>4. \E f : f \in [1..Len(q) -> Seq(S)] /\ Upto(f, Len(q))
  <2> HIDE DEF Upto
  <2>1. \A n \in Done : n + 1 \in Done
    BY <1>3
  <2>2. Done = Nat
    <3> HIDE DEF Done
    <3>1. Done \in SUBSET Nat
      BY DEF Done
    <3> QED
      BY <1>2, <2>1, <3>1, SetInduction
  <2>3. Len(q) \in Done
    <3> HIDE DEF Done
    <3> QED
      BY <1>1, <2>2
  <2> QED
    BY <1>1, <2>3
<1>5. PICK f : f \in [1..Len(q) -> Seq(S)] /\ Upto(f, Len(q))
  BY <1>4
<1>6. f = [i \in 1..Len(q) |-> Step(f, i)]
  BY <1>5
<1> DEFINE g == CHOOSE h : h = [i \in 1..Len(q) |-> Step(h, i)]
<1>7. g = [i \in 1..Len(q) |-> Step(g, i)]
  BY <1>6
<1>8. FlattenSeq(q) = g[Len(q)]
  BY <1>1 DEF FlattenSeq
<1> HIDE DEF g
<1>9. Upto(g, Len(q))
  <2> SUFFICES ASSUME NEW i \in 1..Len(q) PROVE g[i] = Step(g, i)
    OBVIOUS
  <2> DEFINE rest == [j \in 1..Len(q) |-> Step(g, j)]
  <2>1. rest[i] = Step(g, i)
    OBVIOUS
  <2> HIDE DEF rest
  <2>2. g = rest
    BY <1>7 DEF rest
  <2> QED
    BY <2>1, <2>2
<1>10. g \in [1..Len(q) -> Seq(S)]
  <2> DEFINE Typed == {n \in Nat : n \in 1..Len(q) => g[n] \in Seq(S)}
  <2>1. 0 \in Typed
    OBVIOUS
  <2>2. ASSUME NEW n \in Typed PROVE n + 1 \in Typed
    <3> SUFFICES ASSUME n + 1 \in 1..Len(q) PROVE g[n + 1] \in Seq(S)
      OBVIOUS
    <3>1. g[n + 1] = Step(g, n + 1)
      BY <1>9
    <3>2. n + 1 = 1 \/ (n + 1 # 1 /\ (n + 1) - 1 = n /\ g[n] \in Seq(S))
      BY <1>1
    <3> QED
      BY <1>1, <3>1, <3>2, ConcatProperties
  <2>3. Typed = Nat
    <3> HIDE DEF Typed
    <3>1. Typed \in SUBSET Nat
      BY DEF Typed
    <3> QED
      BY <2>1, <2>2, <3>1, SetInduction
  <2> HIDE DEF Typed, Upto
  <2>4. \A n \in Typed : n \in 1..Len(q) => g[n] \in Seq(S)
    BY DEF Typed
  <2>5. \A n \in 1..Len(q) : g[n] \in Seq(S)
    BY <2>3, <2>4
  <2>6. DOMAIN g = 1..Len(q) /\ g = [i \in DOMAIN g |-> g[i]]
    BY <1>7
  <2> QED
    BY <2>5, <2>6
<1> QED
  BY <1>8, <1>9, <1>10

LEMMA FlattenType ==
    ASSUME NEW S, NEW q \in Seq(Seq(S))
    PROVE  FlattenSeq(q) \in Seq(S)
<1>1. CASE q = <<>>
  BY <1>1, EmptySeq DEF FlattenSeq
<1>2. CASE q # <<>>
  <2>1. PICK f \in [1..Len(q) -> Seq(S)] : FlattenSeq(q) = f[Len(q)]
    BY <1>2, FlattenIsDefined
  <2>2. Len(q) \in 1..Len(q)
    BY <1>2, EmptySeq, LenProperties
  <2> QED
    BY <2>1, <2>2
<1> QED
  BY <1>1, <1>2

\* (x \o y) \o z does not depend on its parentheses.
AreSeqs(S, x, y, z) == x \in Seq(S) /\ y \in Seq(S) /\ z \in Seq(S)

LEMMA Associative ==
    ASSUME NEW S, NEW x, NEW y, NEW z, AreSeqs(S, x, y, z)
    PROVE  (x \o y) \o z = x \o (y \o z)
<1>0. x \in Seq(S) /\ y \in Seq(S) /\ z \in Seq(S)
  BY DEF AreSeqs
<1> DEFINE p == x \o y
           q == y \o z
           l == p \o z
           r == x \o q
<1>1. Len(x) \in Nat /\ Len(y) \in Nat /\ Len(z) \in Nat
  BY <1>0, LenProperties
<1>2. /\ p \in Seq(S) /\ Len(p) = Len(x) + Len(y)
      /\ \A i \in 1..Len(x) + Len(y) : p[i] = IF i <= Len(x) THEN x[i] ELSE y[i - Len(x)]
  BY <1>0, ConcatProperties
<1>3. /\ q \in Seq(S) /\ Len(q) = Len(y) + Len(z)
      /\ \A i \in 1..Len(y) + Len(z) : q[i] = IF i <= Len(y) THEN y[i] ELSE z[i - Len(y)]
  BY <1>0, ConcatProperties
<1>A. p \in Seq(S) /\ q \in Seq(S)
  BY <1>0, ConcatProperties
<1> HIDE DEF p, q
<1>4. /\ l \in Seq(S) /\ Len(l) = Len(p) + Len(z)
      /\ \A i \in 1..Len(p) + Len(z) : l[i] = IF i <= Len(p) THEN p[i] ELSE z[i - Len(p)]
  BY <1>0, <1>A, ConcatProperties
<1>5. /\ r \in Seq(S) /\ Len(r) = Len(x) + Len(q)
      /\ \A i \in 1..Len(x) + Len(q) : r[i] = IF i <= Len(x) THEN x[i] ELSE q[i - Len(x)]
  BY <1>0, <1>A, ConcatProperties
<1> HIDE DEF l, r
<1>6. Len(l) = Len(r) /\ Len(l) = Len(x) + Len(y) + Len(z)
  BY <1>1, <1>2, <1>3, <1>4, <1>5
<1>7. ASSUME NEW i \in 1..Len(l) PROVE l[i] = r[i]
  <2>1. i \in 1..Len(p) + Len(z) /\ i \in 1..Len(x) + Len(q)
    BY <1>1, <1>2, <1>3, <1>6
  <2>2. CASE i <= Len(x)
    BY <1>1, <1>2, <1>4, <1>5, <2>1, <2>2
  <2>3. CASE ~(i <= Len(x)) /\ i <= Len(x) + Len(y)
    <3>1. l[i] = y[i - Len(x)]
      BY <1>1, <1>2, <1>4, <2>1, <2>3
    <3>2. i - Len(x) \in 1..Len(y) + Len(z) /\ i - Len(x) <= Len(y)
      BY <1>1, <1>6, <2>3
    <3>3. r[i] = y[i - Len(x)]
      BY <1>3, <1>5, <2>1, <2>3, <3>2
    <3> QED
      BY <3>1, <3>3
  <2>4. CASE ~(i <= Len(x) + Len(y))
    <3>1. l[i] = z[i - (Len(x) + Len(y))]
      BY <1>1, <1>2, <1>4, <2>1, <2>4
    <3>2. /\ ~(i <= Len(x)) /\ i - Len(x) \in 1..Len(y) + Len(z) /\ ~(i - Len(x) <= Len(y))
          /\ (i - Len(x)) - Len(y) = i - (Len(x) + Len(y))
      BY <1>1, <1>6, <2>4
    <3>3. r[i] = z[i - (Len(x) + Len(y))]
      BY <1>3, <1>5, <2>1, <3>2
    <3> QED
      BY <3>1, <3>3
  <2> QED
    BY <2>2, <2>3, <2>4
<1>8. l = r
  BY <1>4, <1>5, <1>6, <1>7, SeqEqual
<1> QED
  BY <1>8 DEF l, r, p, q

LEMMA FlattenEmpty == FlattenSeq(<<>>) = <<>>
BY DEF FlattenSeq

LEMMA FlattenAppend ==
    ASSUME NEW S, NEW q \in Seq(Seq(S)), NEW s \in Seq(S)
    PROVE  FlattenSeq(Append(q, s)) = FlattenSeq(q) \o s
<1> DEFINE p == Append(q, s)
<1>1. p \in Seq(Seq(S)) /\ p # <<>> /\ Len(p) = Len(q) + 1 /\ Len(q) \in Nat
      /\ p[Len(q) + 1] = s /\ \A i \in 1..Len(q) : p[i] = q[i]
  BY AppendProperties, LenProperties
<1> HIDE DEF p
<1>2. PICK g \in [1..Len(p) -> Seq(S)] :
          /\ \A i \in 1..Len(p) : g[i] = IF i = 1 THEN p[i] ELSE g[i - 1] \o p[i]
          /\ FlattenSeq(p) = g[Len(p)]
  BY <1>1, FlattenIsDefined
<1>3. CASE q = <<>>
  <2>1. Len(q) = 0 /\ Len(p) = 1
    BY <1>1, <1>3, EmptySeq
  <2>2. g[1] = p[1] /\ p[1] = s
    BY <1>1, <1>2, <2>1
  <2>3. FlattenSeq(p) = s /\ FlattenSeq(q) = <<>>
    BY <1>2, <1>3, <2>1, <2>2, FlattenEmpty
  <2> QED
    BY <2>3, ConcatEmptySeq DEF p
<1>4. CASE q # <<>>
  <2>1. PICK f \in [1..Len(q) -> Seq(S)] :
            /\ \A i \in 1..Len(q) : f[i] = IF i = 1 THEN q[i] ELSE f[i - 1] \o q[i]
            /\ FlattenSeq(q) = f[Len(q)]
    BY <1>4, FlattenIsDefined
  <2> DEFINE Same == {n \in Nat : n \in 1..Len(q) => f[n] = g[n]}
  <2>2. 0 \in Same
    OBVIOUS
  <2>3. ASSUME NEW n \in Same PROVE n + 1 \in Same
    <3>0. n \in Nat /\ (n \in 1..Len(q) => f[n] = g[n])
      OBVIOUS
    <3> HIDE DEF Same
    <3> SUFFICES ASSUME n + 1 \in 1..Len(q) PROVE f[n + 1] = g[n + 1]
      BY <3>0 DEF Same
    <3>1. f[n + 1] = IF n + 1 = 1 THEN q[n + 1] ELSE f[(n + 1) - 1] \o q[n + 1]
      BY <2>1
    <3>2. n + 1 \in 1..Len(p)
      BY <1>1
    <3>3. g[n + 1] = IF n + 1 = 1 THEN p[n + 1] ELSE g[(n + 1) - 1] \o p[n + 1]
      BY <1>2, <3>2
    <3>4. (n + 1) - 1 = n /\ (n + 1 # 1 => n \in 1..Len(q)) /\ p[n + 1] = q[n + 1]
      BY <3>0, <1>1, SMTT(60)
    <3> QED
      BY <3>0, <3>1, <3>3, <3>4
  <2>4. Same = Nat
    <3> HIDE DEF Same
    <3>1. Same \in SUBSET Nat
      BY DEF Same
    <3> QED
      BY <2>2, <2>3, <3>1, SetInduction
  <2>5. Len(q) \in 1..Len(q) /\ Len(q) \in Nat
    BY <1>1, <1>4, EmptySeq
  <2>6. f[Len(q)] = g[Len(q)]
    <3> HIDE DEF Same
    <3>1. Len(q) \in Same
      BY <2>4, <2>5
    <3> QED
      BY <2>5, <3>1 DEF Same
  <2>7. g[Len(p)] = g[Len(q)] \o s
    <3>1. Len(p) \in 1..Len(p) /\ Len(p) # 1 /\ Len(p) - 1 = Len(q) /\ p[Len(p)] = s
      BY <1>1, <2>5
    <3> QED
      BY <1>2, <3>1
  <2> QED
    BY <1>2, <2>1, <2>6, <2>7 DEF p
<1> QED
  BY <1>3, <1>4

LEMMA FlattenTail ==
    ASSUME NEW S, NEW q \in Seq(Seq(S)), q # <<>>
    PROVE  FlattenSeq(q) = Head(q) \o FlattenSeq(Tail(q))
<1> DEFINE h == Head(q)
           t == Tail(q)
<1>1. h \in Seq(S) /\ t \in Seq(Seq(S)) /\ Len(t) + 1 = Len(q) /\ Len(t) \in Nat
      /\ Len(q) \in Nat \ {0} /\ h = q[1] /\ \A i \in 1..Len(t) : t[i] = q[i + 1]
  <2>1. Len(q) \in Nat \ {0}
    BY EmptySeq
  <2> QED
    BY <2>1, HeadTailProperties
<1> HIDE DEF h, t
<1>2. PICK g \in [1..Len(q) -> Seq(S)] :
          /\ \A i \in 1..Len(q) : g[i] = IF i = 1 THEN q[i] ELSE g[i - 1] \o q[i]
          /\ FlattenSeq(q) = g[Len(q)]
  BY FlattenIsDefined
<1>3. g[1] = h
  <2>1. 1 \in 1..Len(q)
    BY <1>1
  <2>2. g[1] = q[1]
    BY <1>2, <2>1
  <2> QED
    BY <1>1, <2>2
<1>4. CASE t = <<>>
  <2>1. Len(q) = 1
    BY <1>1, <1>4, EmptySeq
  <2>2. FlattenSeq(q) = h /\ FlattenSeq(t) = <<>>
    BY <1>2, <1>3, <1>4, <2>1, FlattenEmpty
  <2> QED
    BY <1>1, <2>2, ConcatEmptySeq DEF h, t
<1>5. CASE t # <<>>
  <2>1. PICK f \in [1..Len(t) -> Seq(S)] :
            /\ \A i \in 1..Len(t) : f[i] = IF i = 1 THEN t[i] ELSE f[i - 1] \o t[i]
            /\ FlattenSeq(t) = f[Len(t)]
    BY <1>1, <1>5, FlattenIsDefined
  <2> DEFINE Same == {n \in Nat : n \in 1..Len(t) => g[n + 1] = h \o f[n]}
  <2>2. 0 \in Same
    OBVIOUS
  <2>3. ASSUME NEW n \in Same PROVE n + 1 \in Same
    <3>0. n \in Nat /\ (n \in 1..Len(t) => g[n + 1] = h \o f[n])
      OBVIOUS
    <3> HIDE DEF Same
    <3> SUFFICES ASSUME n + 1 \in 1..Len(t) PROVE g[(n + 1) + 1] = h \o f[n + 1]
      BY <3>0 DEF Same
    <3>1. f[n + 1] = IF n + 1 = 1 THEN t[n + 1] ELSE f[(n + 1) - 1] \o t[n + 1]
      BY <2>1
    <3>2. (n + 1) + 1 \in 1..Len(q) /\ (n + 1) + 1 # 1 /\ ((n + 1) + 1) - 1 = n + 1
      BY <1>1, <3>0
    <3>3. g[(n + 1) + 1] = g[n + 1] \o q[(n + 1) + 1]
      BY <1>2, <3>2
    <3>4. q[(n + 1) + 1] = t[n + 1] /\ t[n + 1] \in Seq(S)
      BY <1>1, ElementOfSeq
    <3>5. CASE n = 0
      <4>1. n + 1 = 1
        BY <3>5
      <4>2. g[(n + 1) + 1] = h \o t[n + 1]
        BY <1>3, <3>3, <3>4, <4>1
      <4> QED
        BY <3>1, <4>1, <4>2
    <3>6. CASE n # 0
      <4>1. n \in 1..Len(t) /\ n + 1 # 1 /\ (n + 1) - 1 = n
        BY <1>1, <3>0, <3>6
      <4>2. f[n] \in Seq(S)
        BY <2>1, <4>1
      <4>3. g[(n + 1) + 1] = (h \o f[n]) \o t[n + 1]
        BY <3>0, <3>3, <3>4, <4>1
      <4>4. f[n + 1] = f[n] \o t[n + 1]
        BY <3>1, <4>1
      <4>5. (h \o f[n]) \o t[n + 1] = h \o (f[n] \o t[n + 1])
        <5> DEFINE u == f[n]
                   v == t[n + 1]
        <5>1. AreSeqs(S, h, u, v)
          BY <1>1, <3>4, <4>2 DEF AreSeqs
        <5> HIDE DEF u, v
        <5>2. (h \o u) \o v = h \o (u \o v)
          BY <5>1, Associative
        <5> QED
          BY <5>2 DEF u, v
      <4> QED
        BY <4>3, <4>4, <4>5
    <3> QED
      BY <3>5, <3>6
  <2>4. Same = Nat
    <3> HIDE DEF Same
    <3>1. Same \in SUBSET Nat
      BY DEF Same
    <3> QED
      BY <2>2, <2>3, <3>1, SetInduction
  <2>5. Len(t) \in 1..Len(t) /\ Len(t) \in Nat
    BY <1>1, <1>5, EmptySeq
  <2>6. g[Len(t) + 1] = h \o f[Len(t)]
    <3> HIDE DEF Same
    <3>1. Len(t) \in Same
      BY <2>4, <2>5
    <3> QED
      BY <2>5, <3>1 DEF Same
  <2> QED
    BY <1>1, <1>2, <2>1, <2>6 DEF h, t
<1> QED
  BY <1>4, <1>5

-----------------------------------------------------------------------------
(* Batches, and the lines in them.                                         *)

Batch == [name : Names, lines : Lines]

\* The lines of all batches but the last k.
Without(batches, k) == Len(LinesOf(SubSeq(batches, 1, Len(batches) - k)))

LEMMA LinesType ==
    ASSUME NEW w \in Seq(Batch)
    PROVE  LinesOf(w) \in Lines
<1> DEFINE parts == [i \in DOMAIN w |-> w[i].lines]
<1>1. DOMAIN w = 1..Len(w) /\ Len(w) \in Nat /\ \A i \in 1..Len(w) : w[i] \in Batch
  BY LenProperties, ElementOfSeq
<1>2. parts \in Seq(Lines)
  BY <1>1 DEF Batch
<1> HIDE DEF parts
<1>3. FlattenSeq(parts) \in Lines
  BY <1>2, FlattenType DEF Lines
<1> QED
  BY <1>3 DEF LinesOf, parts

LEMMA LinesAppend ==
    ASSUME NEW w \in Seq(Batch), NEW b \in Batch
    PROVE  LinesOf(Append(w, b)) = LinesOf(w) \o b.lines
<1> DEFINE v == Append(w, b)
           parts == [i \in DOMAIN w |-> w[i].lines]
           more == [i \in DOMAIN v |-> v[i].lines]
           lines == b.lines
<1>1. /\ DOMAIN w = 1..Len(w) /\ Len(w) \in Nat /\ \A i \in 1..Len(w) : w[i] \in Batch
      /\ DOMAIN v = 1..(Len(w) + 1) /\ v[Len(w) + 1] = b /\ \A i \in 1..Len(w) : v[i] = w[i]
  BY AppendProperties, LenProperties, ElementOfSeq
<1> HIDE DEF v
<1>2. lines \in Lines
  BY DEF Batch
<1>3. parts \in Seq(Lines) /\ Len(parts) = Len(w) /\ \A i \in 1..Len(w) : parts[i] = w[i].lines
  BY <1>1 DEF Batch
<1>4. more \in Seq(Lines) /\ Len(more) = Len(w) + 1
      /\ \A i \in 1..(Len(w) + 1) : more[i] = v[i].lines
  <2>1. \A i \in 1..(Len(w) + 1) : v[i] \in Batch
    BY <1>1
  <2> QED
    BY <1>1, <2>1 DEF Batch
<1> HIDE DEF parts, more, lines
<1>5. more = Append(parts, lines)
  <2>1. /\ Append(parts, lines) \in Seq(Lines) /\ Len(Append(parts, lines)) = Len(w) + 1
        /\ \A i \in 1..Len(w) : Append(parts, lines)[i] = parts[i]
        /\ Append(parts, lines)[Len(w) + 1] = lines
    BY <1>2, <1>3, AppendProperties
  <2>2. \A i \in 1..(Len(w) + 1) : more[i] = Append(parts, lines)[i]
    <3> SUFFICES ASSUME NEW i \in 1..(Len(w) + 1)
                 PROVE  more[i] = Append(parts, lines)[i]
      OBVIOUS
    <3>1. i \in 1..Len(w) \/ i = Len(w) + 1
      BY <1>1
    <3>2. CASE i \in 1..Len(w)
      BY <1>1, <1>3, <1>4, <2>1, <3>2
    <3>3. CASE i = Len(w) + 1
      BY <1>1, <1>4, <2>1, <3>3 DEF lines
    <3> QED
      BY <3>1, <3>2, <3>3
  <2> QED
    BY <1>4, <2>1, <2>2, SeqEqual
<1>6. FlattenSeq(more) = FlattenSeq(parts) \o lines
  BY <1>2, <1>3, <1>5, FlattenAppend DEF Lines
<1> QED
  BY <1>6 DEF LinesOf, parts, more, lines, v

LEMMA LinesOfNone == LinesOf(<<>>) = <<>>
<1>1. [i \in DOMAIN <<>> |-> <<>>[i].lines] = <<>>
  OBVIOUS
<1> QED
  BY <1>1, FlattenEmpty DEF LinesOf

LEMMA BatchesType ==
    ASSUME NEW w \in Seq(Batch), NEW name
    PROVE  BatchesIn(w, name) \in Seq(Batch)
<1> DEFINE parts == [i \in DOMAIN w |-> IF w[i].name = name THEN <<w[i]>> ELSE <<>>]
<1>1. DOMAIN w = 1..Len(w) /\ Len(w) \in Nat /\ \A i \in 1..Len(w) : w[i] \in Batch
  BY LenProperties, ElementOfSeq
<1>2. \A i \in 1..Len(w) : parts[i] \in Seq(Batch)
  BY <1>1
<1>3. parts \in Seq(Seq(Batch))
  BY <1>1, <1>2
<1> HIDE DEF parts
<1>4. FlattenSeq(parts) \in Seq(Batch)
  BY <1>3, FlattenType
<1> QED
  BY <1>4 DEF BatchesIn, parts

LEMMA BatchesInNone ==
    ASSUME NEW name
    PROVE  BatchesIn(<<>>, name) = <<>>
<1>1. [i \in DOMAIN <<>> |-> IF <<>>[i].name = name THEN <<<<>>[i]>> ELSE <<>>] = <<>>
  OBVIOUS
<1> QED
  BY <1>1, FlattenEmpty DEF BatchesIn

LEMMA BatchesAppend ==
    ASSUME NEW w \in Seq(Batch), NEW b \in Batch, NEW name
    PROVE  BatchesIn(Append(w, b), name)
             = IF b.name = name THEN Append(BatchesIn(w, name), b) ELSE BatchesIn(w, name)
<1> DEFINE v == Append(w, b)
           parts == [i \in DOMAIN w |-> IF w[i].name = name THEN <<w[i]>> ELSE <<>>]
           more == [i \in DOMAIN v |-> IF v[i].name = name THEN <<v[i]>> ELSE <<>>]
           last == IF b.name = name THEN <<b>> ELSE <<>>
           flat == FlattenSeq(parts)
<1>1. /\ DOMAIN w = 1..Len(w) /\ Len(w) \in Nat /\ \A i \in 1..Len(w) : w[i] \in Batch
      /\ DOMAIN v = 1..(Len(w) + 1) /\ v[Len(w) + 1] = b /\ \A i \in 1..Len(w) : v[i] = w[i]
  BY AppendProperties, LenProperties, ElementOfSeq
<1> HIDE DEF v
<1>2. last \in Seq(Batch)
  OBVIOUS
<1>3. /\ parts \in Seq(Seq(Batch)) /\ Len(parts) = Len(w)
      /\ \A i \in 1..Len(w) : parts[i] = IF w[i].name = name THEN <<w[i]>> ELSE <<>>
  <2>1. \A i \in 1..Len(w) : parts[i] \in Seq(Batch)
    BY <1>1
  <2> QED
    BY <1>1, <2>1
<1>4. /\ more \in Seq(Seq(Batch)) /\ Len(more) = Len(w) + 1
      /\ \A i \in 1..(Len(w) + 1) : more[i] = IF v[i].name = name THEN <<v[i]>> ELSE <<>>
  <2>1. \A i \in 1..(Len(w) + 1) : v[i] \in Batch
    BY <1>1
  <2>2. \A i \in 1..(Len(w) + 1) : more[i] \in Seq(Batch)
    BY <1>1, <2>1
  <2> QED
    BY <1>1, <2>2
<1> HIDE DEF parts, more, last
<1>5. more = Append(parts, last)
  <2>1. /\ Append(parts, last) \in Seq(Seq(Batch)) /\ Len(Append(parts, last)) = Len(w) + 1
        /\ \A i \in 1..Len(w) : Append(parts, last)[i] = parts[i]
        /\ Append(parts, last)[Len(w) + 1] = last
    BY <1>2, <1>3, AppendProperties
  <2>2. \A i \in 1..(Len(w) + 1) : more[i] = Append(parts, last)[i]
    <3> SUFFICES ASSUME NEW i \in 1..(Len(w) + 1)
                 PROVE  more[i] = Append(parts, last)[i]
      OBVIOUS
    <3>1. i \in 1..Len(w) \/ i = Len(w) + 1
      BY <1>1
    <3>2. CASE i \in 1..Len(w)
      BY <1>1, <1>3, <1>4, <2>1, <3>2
    <3>3. CASE i = Len(w) + 1
      BY <1>1, <1>4, <2>1, <3>3 DEF last
    <3> QED
      BY <3>1, <3>2, <3>3
  <2> QED
    BY <1>4, <2>1, <2>2, SeqEqual
<1>6. FlattenSeq(more) = flat \o last /\ flat \in Seq(Batch)
  BY <1>2, <1>3, <1>5, FlattenAppend, FlattenType
<1> HIDE DEF flat
<1>7. flat \o last = IF b.name = name THEN Append(flat, b) ELSE flat
  <2>1. Append(flat, b) = flat \o <<b>> /\ flat \o <<>> = flat
    BY <1>6, AppendIsConcat, ConcatEmptySeq
  <2> QED
    BY <2>1 DEF last
<1> QED
  BY <1>6, <1>7 DEF BatchesIn, parts, more, v, flat

LEMMA WithoutType ==
    ASSUME NEW w \in Seq(Batch), NEW k \in Nat
    PROVE  /\ SubSeq(w, 1, Len(w) - k) \in Seq(Batch)
           /\ Without(w, k) \in Nat
           /\ Len(LinesOf(w)) \in Nat
<1>1. SubSeq(w, 1, Len(w) - k) \in Seq(Batch)
  <2>1. Len(w) - k \in Int /\ \A i \in 1..(Len(w) - k) : w[i] \in Batch
    BY LenProperties, ElementOfSeq
  <2> QED
    BY <2>1, SubSeqProperties
<1>2. LinesOf(w) \in Lines /\ LinesOf(SubSeq(w, 1, Len(w) - k)) \in Lines
  BY <1>1, LinesType
<1> QED
  BY <1>1, <1>2, LenProperties DEF Without, Lines

LEMMA WithoutNone ==
    ASSUME NEW w \in Seq(Batch)
    PROVE  Without(w, 0) = Len(LinesOf(w))
<1>1. Len(w) - 0 = Len(w) /\ SubSeq(w, 1, Len(w)) = w
  BY LenProperties, SubSeqFull
<1> QED
  BY <1>1 DEF Without

LEMMA WithoutAll == \A k \in Nat : Without(<<>>, k) = 0
<1> SUFFICES ASSUME NEW k \in Nat PROVE Without(<<>>, k) = 0
  OBVIOUS
<1>1. SubSeq(<<>>, 1, Len(<<>>) - k) = <<>>
  BY EmptySeq, SubSeqEmpty
<1> QED
  BY <1>1, LinesOfNone, EmptySeq DEF Without

LEMMA WithoutLess ==
    ASSUME NEW w \in Seq(Batch), NEW k \in Nat
    PROVE  Without(w, k + 1) <= Without(w, k)
<1> DEFINE m == Len(w) - k
<1>1. m \in Int /\ Len(w) - (k + 1) = m - 1 /\ m <= Len(w) /\ Len(w) \in Nat
  BY LenProperties
<1>2. Without(w, k) \in Nat /\ SubSeq(w, 1, m - 1) \in Seq(Batch)
  <2>1. k + 1 \in Nat
    OBVIOUS
  <2> QED
    BY <1>1, <2>1, WithoutType
<1>3. CASE m < 1
  <2>1. SubSeq(w, 1, m - 1) = <<>>
    BY <1>1, <1>3, SubSeqEmpty
  <2>2. Without(w, k + 1) = 0
    BY <1>1, <2>1, LinesOfNone, EmptySeq DEF Without
  <2> QED
    BY <1>2, <2>2
<1>4. CASE m >= 1
  <2> DEFINE v == SubSeq(w, 1, m - 1)
             b == w[m]
  <2>1. m \in 1..Len(w)
    BY <1>1, <1>4
  <2>2. b \in Batch
    BY <2>1, ElementOfSeq
  <2>3. SubSeq(w, 1, m) = v \o <<b>>
    <3>1. 1 \in 1..Len(w)
      BY <2>1
    <3> HIDE DEF m
    <3> QED
      BY <2>1, <3>1, SubSeqRecursiveSecond
  <2>4. Without(w, k) = Len(LinesOf(SubSeq(w, 1, m)))
    BY DEF Without
  <2>5. Without(w, k + 1) = Len(LinesOf(v))
    BY <1>1 DEF Without
  <2>6. v \in Seq(Batch)
    BY <1>2
  <2> HIDE DEF v, b, m
  <2>7. SubSeq(w, 1, m) = Append(v, b)
    BY <2>2, <2>3, <2>6, AppendIsConcat
  <2>8. LinesOf(SubSeq(w, 1, m)) = LinesOf(v) \o b.lines
    BY <2>2, <2>6, <2>7, LinesAppend
  <2>9. LinesOf(v) \in Seq(Nat) /\ b.lines \in Seq(Nat)
    BY <2>2, <2>6, LinesType DEF Lines, Batch
  <2>10. Len(LinesOf(SubSeq(w, 1, m))) = Len(LinesOf(v)) + Len(b.lines)
         /\ Len(LinesOf(v)) \in Nat /\ Len(b.lines) \in Nat
    BY <2>8, <2>9, ConcatProperties, LenProperties
  <2> QED
    BY <2>4, <2>5, <2>10
<1> QED
  BY <1>1, <1>3, <1>4

LEMMA WithoutAppend ==
    ASSUME NEW w \in Seq(Batch), NEW b \in Batch, NEW k \in Nat
    PROVE  Without(Append(w, b), k + 1) = Without(w, k)
<1> DEFINE v == Append(w, b)
           m == Len(w) - k
<1>1. /\ v \in Seq(Batch) /\ Len(v) = Len(w) + 1 /\ Len(w) \in Nat /\ m \in Int /\ m <= Len(w)
      /\ \A i \in 1..Len(w) : v[i] = w[i]
  BY AppendProperties, LenProperties
<1>2. Len(v) - (k + 1) = m
  BY <1>1
<1>3. SubSeq(v, 1, m) = SubSeq(w, 1, m)
  <2>1. \A i \in 1..m : i \in 1..Len(w) /\ v[i] = w[i] /\ w[i] \in Batch
    BY <1>1, ElementOfSeq
  <2> HIDE DEF v, m
  <2>2. /\ SubSeq(v, 1, m) \in Seq(Batch) /\ SubSeq(w, 1, m) \in Seq(Batch)
        /\ Len(SubSeq(v, 1, m)) = IF 1 <= m THEN m - 1 + 1 ELSE 0
        /\ Len(SubSeq(w, 1, m)) = IF 1 <= m THEN m - 1 + 1 ELSE 0
        /\ \A i \in 1..m - 1 + 1 : SubSeq(v, 1, m)[i] = v[1 + i - 1]
        /\ \A i \in 1..m - 1 + 1 : SubSeq(w, 1, m)[i] = w[1 + i - 1]
    BY <1>1, <2>1, SubSeqProperties
  <2>3. \A i \in 1..Len(SubSeq(v, 1, m)) : SubSeq(v, 1, m)[i] = SubSeq(w, 1, m)[i]
    <3> SUFFICES ASSUME NEW i \in 1..Len(SubSeq(v, 1, m))
                 PROVE  SubSeq(v, 1, m)[i] = SubSeq(w, 1, m)[i]
      OBVIOUS
    <3>1. i \in 1..m /\ i \in 1..m - 1 + 1 /\ 1 + i - 1 = i
      BY <1>1, <2>2
    <3> QED
      BY <2>1, <2>2, <3>1
  <2> QED
    BY <2>2, <2>3, SeqEqual
<1> QED
  BY <1>2, <1>3 DEF Without

-----------------------------------------------------------------------------
(* The types, and where the threads are.                                   *)

\* syncLoop pushes no empty batch, and the handler runs only on top of a thread.
PcInv ==
    /\ \A x \in Contexts, l \in Logs : pc[x] = <<"push", l>> => held[x] # <<>>
    /\ interrupted = "nobody" => pc["handler"] = <<"off", "rpc">>

\* A writing thread has a batch in its hands only before it writes it.
WriterInv == \A l \in Logs : writer[l] # "write" => tmp[l] = <<>>

LEMMA AfterIsNoPush ==
    ASSUME NEW x \in Contexts, NEW l \in Logs
    PROVE  After(x, l) \in {"swap", "stop"} \X Logs
BY DEF After, Contexts, Logs

LEMMA NextFileType ==
    ASSUME TypeOK, NEW l \in Logs
    PROVE  NextFile(l) \in [open : Names, no : Nat, date : 0..MaxDays]
<1>1. file[l] \in [open : Names, no : Nat, date : 0..MaxDays] /\ today \in 0..MaxDays
  BY LoggerAssumption DEF TypeOK
<1>2. Number(l) \in Nat
  BY <1>1 DEF Number
<1>3. Current(l) \in Names
  BY <1>1, <1>2 DEF Current, Names
<1>4. <<today, Number(l)>> \in Names
  BY <1>1, <1>2 DEF Names
<1> HIDE DEF Names
<1> QED
  BY <1>1, <1>2, <1>3, <1>4 DEF NextFile

LEMMA PlacesInit == Init => TypeOK /\ PcInv /\ WriterInv
<1> SUFFICES ASSUME Init PROVE TypeOK /\ PcInv /\ WriterInv
  OBVIOUS
<1> USE LoggerAssumption
<1>1. \A S : <<>> \in Seq(S)
  BY EmptySeq
<1>2. NoFile \in Names
  BY DEF NoFile, Names
<1>3. TypeOK
  <2>1. /\ buffer \in [Logs -> Lines] /\ held \in [Contexts -> Lines] /\ tmp \in [Logs -> Lines]
        /\ queue \in [Logs -> Seq(Lines \ {<<>>})]
        /\ written \in [Logs -> Seq([name : Names, lines : Lines])]
    <3>1. <<>> \in Lines /\ <<>> \in Seq(Lines \ {<<>>})
          /\ <<>> \in Seq([name : Names, lines : Lines])
      BY <1>1 DEF Lines
    <3> QED
      BY <3>1 DEF Init
  <2>2. pc \in [Contexts -> {"off", "log", "swap", "push", "stop", "flush", "join"} \X Logs]
    <3>1. "rpc" \in Logs
      BY DEF Logs
    <3> QED
      BY <3>1 DEF Init
  <2>3. file \in [Logs -> [open : Names, no : Nat, date : 0..MaxDays]]
    <3>1. [open |-> NoFile, no |-> 0, date |-> 0] \in [open : Names, no : Nat, date : 0..MaxDays]
      BY <1>2
    <3> QED
      BY <3>1 DEF Init
  <2>4. logged \in [Logs -> Nat] /\ stopFlag \in [Logs -> BOOLEAN] /\ today \in 1..MaxDays
        /\ writer \in [Logs -> {"wait", "write", "check", "ended"}]
    BY DEF Init
  <2> QED
    BY <2>1, <2>2, <2>3, <2>4 DEF Init, TypeOK
<1>4. PcInv /\ WriterInv
  BY DEF Init, PcInv, WriterInv, Contexts, Logs
<1> QED
  BY <1>3, <1>4

LEMMA AppendLineTypes ==
    ASSUME TypeOK, NEW l \in Logs, AppendLine(l)
    PROVE  logged' \in [Logs -> Nat] /\ buffer' \in [Logs -> Lines]
<1>1. logged \in [Logs -> Nat] /\ buffer \in [Logs -> Lines]
  BY DEF TypeOK
<1>2. logged' \in [Logs -> Nat]
  BY <1>1 DEF AppendLine
<1>3. Append(buffer[l], logged'[l]) \in Lines
  BY <1>1, <1>2, AppendProperties DEF Lines
<1> QED
  BY <1>1, <1>2, <1>3 DEF AppendLine

LEMMA PushLogPlaces ==
    ASSUME TypeOK, PcInv, WriterInv, NEW t \in Threads, NEW l \in Logs, PushLog(t, l)
    PROVE  TypeOK' /\ PcInv' /\ WriterInv'
<1>1. AppendLine(l) /\ UNCHANGED <<process, syncVars, queue, stopFlag, writerVars, today, signalVars>>
  BY DEF PushLog
<1>2. logged' \in [Logs -> Nat] /\ buffer' \in [Logs -> Lines]
  BY <1>1, AppendLineTypes
<1>3. TypeOK'
  BY <1>1, <1>2 DEF TypeOK, syncVars, writerVars, signalVars
<1> QED
  BY <1>1, <1>3 DEF PcInv, WriterInv, syncVars, writerVars, signalVars

LEMMA SwapBufferPlaces ==
    ASSUME TypeOK, PcInv, WriterInv, NEW x \in Contexts, NEW l \in Logs, SwapBuffer(x, l)
    PROVE  TypeOK' /\ PcInv' /\ WriterInv'
<1>1. /\ pc[x] = <<"swap", l>>
      /\ held' = [held EXCEPT ![x] = buffer[l]]
      /\ buffer' = [buffer EXCEPT ![l] = <<>>]
      /\ pc' = [pc EXCEPT ![x] = IF buffer[l] = <<>> THEN After(x, l) ELSE <<"push", l>>]
      /\ UNCHANGED <<process, logged, queue, stopFlag, writerVars, today, signalVars>>
  BY DEF SwapBuffer
<1>2. After(x, l) \in {"swap", "stop"} \X Logs
  BY AfterIsNoPush
<1>3. held' \in [Contexts -> Lines] /\ buffer' \in [Logs -> Lines]
  BY <1>1, EmptySeq DEF TypeOK, Lines
<1>4. pc' \in [Contexts -> {"off", "log", "swap", "push", "stop", "flush", "join"} \X Logs]
  BY <1>1, <1>2 DEF TypeOK
<1>5. TypeOK'
  BY <1>1, <1>3, <1>4 DEF TypeOK, writerVars, signalVars
<1>6. interrupted' = "nobody" => pc'["handler"] = <<"off", "rpc">>
  <2> SUFFICES ASSUME interrupted' = "nobody" PROVE pc'["handler"] = <<"off", "rpc">>
    OBVIOUS
  <2>1. pc["handler"] = <<"off", "rpc">>
    BY <1>1 DEF PcInv, signalVars
  <2>2. x # "handler"
    BY <1>1, <2>1
  <2> QED
    BY <1>1, <2>1, <2>2 DEF TypeOK, Contexts
<1>7. ASSUME NEW y \in Contexts, NEW k \in Logs, pc'[y] = <<"push", k>> PROVE held'[y] # <<>>
  <2>1. CASE y = x
    <3>1. pc'[x] = IF buffer[l] = <<>> THEN After(x, l) ELSE <<"push", l>>
      BY <1>1 DEF TypeOK
    <3>2. buffer[l] # <<>>
      BY <1>2, <1>7, <2>1, <3>1
    <3> QED
      BY <1>1, <2>1, <3>2 DEF TypeOK
  <2>2. CASE y # x
    BY <1>1, <1>7, <2>2 DEF TypeOK, PcInv
  <2> QED
    BY <2>1, <2>2
<1> QED
  BY <1>1, <1>5, <1>6, <1>7 DEF PcInv, WriterInv, writerVars

LEMMA PushLogBufferPlaces ==
    ASSUME TypeOK, PcInv, WriterInv, NEW x \in Contexts, NEW l \in Logs, PushLogBuffer(x, l)
    PROVE  TypeOK' /\ PcInv' /\ WriterInv'
<1>1. /\ pc[x] = <<"push", l>>
      /\ queue' = [queue EXCEPT ![l] = Append(@, held[x])]
      /\ held' = [held EXCEPT ![x] = <<>>]
      /\ pc' = [pc EXCEPT ![x] = After(x, l)]
      /\ UNCHANGED <<process, loggerVars, stopFlag, writerVars, today, signalVars>>
  BY DEF PushLogBuffer
<1>2. After(x, l) \in {"swap", "stop"} \X Logs
  BY AfterIsNoPush
<1>3. held' \in [Contexts -> Lines]
  BY <1>1, EmptySeq DEF TypeOK, Lines
<1>4. pc' \in [Contexts -> {"off", "log", "swap", "push", "stop", "flush", "join"} \X Logs]
  BY <1>1, <1>2 DEF TypeOK
<1>5. queue' \in [Logs -> Seq(Lines \ {<<>>})]
  <2>1. held[x] \in Lines \ {<<>>} /\ queue[l] \in Seq(Lines \ {<<>>})
    BY <1>1 DEF TypeOK, PcInv
  <2>2. Append(queue[l], held[x]) \in Seq(Lines \ {<<>>})
    BY <2>1, AppendProperties
  <2> QED
    BY <1>1, <2>2 DEF TypeOK
<1>6. TypeOK'
  BY <1>1, <1>3, <1>4, <1>5 DEF TypeOK, loggerVars, writerVars, signalVars
<1>7. interrupted' = "nobody" => pc'["handler"] = <<"off", "rpc">>
  <2> SUFFICES ASSUME interrupted' = "nobody" PROVE pc'["handler"] = <<"off", "rpc">>
    OBVIOUS
  <2>1. pc["handler"] = <<"off", "rpc">>
    BY <1>1 DEF PcInv, signalVars
  <2>2. x # "handler"
    BY <1>1, <2>1
  <2> QED
    BY <1>1, <2>1, <2>2 DEF TypeOK, Contexts
<1>8. ASSUME NEW y \in Contexts, NEW k \in Logs, pc'[y] = <<"push", k>> PROVE held'[y] # <<>>
  <2>1. y # x
    <3>1. pc'[x] = After(x, l)
      BY <1>1 DEF TypeOK
    <3> QED
      BY <1>2, <1>8, <3>1
  <2> QED
    BY <1>1, <1>8, <2>1 DEF TypeOK, PcInv
<1> QED
  BY <1>1, <1>6, <1>7, <1>8 DEF PcInv, WriterInv, writerVars

LEMMA TakeBatchPlaces ==
    ASSUME TypeOK, PcInv, WriterInv, NEW l \in Logs, TakeBatch(l)
    PROVE  TypeOK' /\ PcInv' /\ WriterInv'
<1>1. /\ queue[l] # <<>>
      /\ tmp' = [tmp EXCEPT ![l] = Head(queue[l])]
      /\ queue' = [queue EXCEPT ![l] = Tail(@)]
      /\ writer' = [writer EXCEPT ![l] = "write"]
      /\ UNCHANGED <<process, loggerVars, syncVars, stopFlag, file, written, today, signalVars>>
  BY DEF TakeBatch
<1>2. Head(queue[l]) \in Lines /\ Tail(queue[l]) \in Seq(Lines \ {<<>>})
  <2>1. queue[l] \in Seq(Lines \ {<<>>})
    BY DEF TypeOK
  <2> QED
    BY <1>1, <2>1, HeadTailProperties
<1>3. tmp' \in [Logs -> Lines] /\ queue' \in [Logs -> Seq(Lines \ {<<>>})]
  BY <1>1, <1>2 DEF TypeOK
<1>4. TypeOK'
  BY <1>1, <1>3 DEF TypeOK, loggerVars, syncVars, signalVars
<1>5. WriterInv'
  BY <1>1 DEF TypeOK, WriterInv
<1> QED
  BY <1>1, <1>4, <1>5 DEF PcInv, syncVars, signalVars

LEMMA WriteBatchPlaces ==
    ASSUME TypeOK, PcInv, WriterInv, NEW l \in Logs, WriteBatch(l)
    PROVE  TypeOK' /\ PcInv' /\ WriterInv'
<1>1. /\ file' = [file EXCEPT ![l] = NextFile(l)]
      /\ written' = [written EXCEPT ![l] = Append(@, [name |-> file'[l].open, lines |-> tmp[l]])]
      /\ tmp' = [tmp EXCEPT ![l] = <<>>]
      /\ writer' = [writer EXCEPT ![l] = "check"]
      /\ UNCHANGED <<process, loggerVars, syncVars, queue, stopFlag, today, signalVars>>
  BY DEF WriteBatch
<1>2. file' \in [Logs -> [open : Names, no : Nat, date : 0..MaxDays]]
  BY <1>1, NextFileType DEF TypeOK
<1>3. tmp' \in [Logs -> Lines]
  BY <1>1, EmptySeq DEF TypeOK, Lines
<1>4. written' \in [Logs -> Seq([name : Names, lines : Lines])]
  <2>1. [name |-> file'[l].open, lines |-> tmp[l]] \in [name : Names, lines : Lines]
    BY <1>2 DEF TypeOK
  <2>2. Append(written[l], [name |-> file'[l].open, lines |-> tmp[l]])
          \in Seq([name : Names, lines : Lines])
    BY <2>1, AppendProperties DEF TypeOK
  <2> QED
    BY <1>1, <2>2 DEF TypeOK
<1>5. TypeOK'
  BY <1>1, <1>2, <1>3, <1>4 DEF TypeOK, loggerVars, syncVars, signalVars
<1>6. WriterInv'
  BY <1>1 DEF TypeOK, WriterInv
<1> QED
  BY <1>1, <1>5, <1>6 DEF PcInv, syncVars, signalVars

LEMMA CheckStopPlaces ==
    ASSUME TypeOK, PcInv, WriterInv, NEW l \in Logs, CheckStop(l)
    PROVE  TypeOK' /\ PcInv' /\ WriterInv'
<1>1. /\ writer[l] = "check"
      /\ writer' = [writer EXCEPT ![l] = IF stopFlag[l] THEN "ended" ELSE "wait"]
      /\ UNCHANGED <<process, loggerVars, syncVars, queue, stopFlag, tmp, file, written, today,
                     signalVars>>
  BY DEF CheckStop
<1>2. TypeOK'
  BY <1>1 DEF TypeOK, loggerVars, syncVars, signalVars
<1>3. WriterInv'
  BY <1>1 DEF TypeOK, WriterInv
<1> QED
  BY <1>1, <1>2, <1>3 DEF PcInv, syncVars, signalVars

LEMMA SignalPlaces ==
    ASSUME TypeOK, PcInv, WriterInv, NEW t \in Threads \cup Logs, Signal(t)
    PROVE  TypeOK' /\ PcInv' /\ WriterInv'
<1>1. /\ interrupted' = t
      /\ locked' \in MayHold(t)
      /\ pc' = [pc EXCEPT !["handler"] = <<"log", "rpc">>]
      /\ UNCHANGED <<process, loggerVars, held, queue, stopFlag, writerVars, today>>
  BY DEF Signal
<1>2. locked' \in Mutexes \cup {NoMutex}
  BY <1>1 DEF MayHold, Mutexes
<1>3. pc' \in [Contexts -> {"off", "log", "swap", "push", "stop", "flush", "join"} \X Logs]
  BY <1>1 DEF TypeOK, Logs
<1>4. interrupted' \in Threads \cup Logs \cup {"nobody"}
  BY <1>1
<1>5. TypeOK'
  BY <1>1, <1>2, <1>3, <1>4 DEF TypeOK, loggerVars, writerVars
<1>6. interrupted' # "nobody"
  BY <1>1, LoggerAssumption DEF Logs
<1>7. \A x \in Contexts, l \in Logs : pc'[x] = <<"push", l>> => held'[x] # <<>>
  BY <1>1 DEF TypeOK, PcInv
<1> QED
  BY <1>1, <1>5, <1>6, <1>7 DEF PcInv, WriterInv, writerVars

\* What the steps of the handler that leave the batches alone have in common.
LEMMA HandlerPlaces ==
    ASSUME TypeOK, PcInv, WriterInv,
           NEW to \in {"swap", "stop", "flush", "join"} \X Logs,
           HandlerGoes(to),
           pc["handler"] # <<"off", "rpc">>,
           UNCHANGED <<held, queue, writerVars, today, signalVars>>,
           process' \in {"up", "dead", "dangling"},
           logged' \in [Logs -> Nat],
           buffer' \in [Logs -> Lines],
           stopFlag' \in [Logs -> BOOLEAN]
    PROVE  TypeOK' /\ PcInv' /\ WriterInv'
<1>1. pc' = [pc EXCEPT !["handler"] = to]
  BY DEF HandlerGoes
<1>2. pc' \in [Contexts -> {"off", "log", "swap", "push", "stop", "flush", "join"} \X Logs]
  BY <1>1 DEF TypeOK
<1>3. TypeOK'
  BY <1>2 DEF TypeOK, writerVars, signalVars
<1>4. interrupted' # "nobody"
  BY DEF PcInv, signalVars
<1>5. ASSUME NEW x \in Contexts, NEW l \in Logs, pc'[x] = <<"push", l>>
      PROVE  held'[x] # <<>>
  <2>1. CASE x = "handler"
    <3>1. pc'[x] = to
      BY <1>1, <2>1 DEF TypeOK
    <3>2. to # <<"push", l>>
      OBVIOUS
    <3> QED
      BY <1>5, <3>1, <3>2
  <2>2. CASE x # "handler"
    BY <1>1, <1>5, <2>2 DEF TypeOK, PcInv
  <2> QED
    BY <2>1, <2>2
<1> QED
  BY <1>3, <1>4, <1>5 DEF PcInv, WriterInv, writerVars

LEMMA HandlerLogPlaces ==
    ASSUME TypeOK, PcInv, WriterInv, HandlerLog
    PROVE  TypeOK' /\ PcInv' /\ WriterInv'
<1>1. /\ pc["handler"] # <<"off", "rpc">>
      /\ AppendLine("rpc")
      /\ HandlerGoes(<<"swap", "rpc">>)
      /\ UNCHANGED <<process, held, queue, stopFlag, writerVars, today, signalVars>>
  BY DEF HandlerLog
<1>2. <<"swap", "rpc">> \in {"swap", "stop", "flush", "join"} \X Logs /\ "rpc" \in Logs
  BY DEF Logs
<1>3. logged' \in [Logs -> Nat] /\ buffer' \in [Logs -> Lines]
  BY <1>1, <1>2, AppendLineTypes
<1>4. process' \in {"up", "dead", "dangling"} /\ stopFlag' \in [Logs -> BOOLEAN]
  BY <1>1 DEF TypeOK
<1> QED
  BY <1>1, <1>2, <1>3, <1>4, HandlerPlaces

LEMMA HandlerStopPlaces ==
    ASSUME TypeOK, PcInv, WriterInv, NEW l \in Logs, HandlerStop(l)
    PROVE  TypeOK' /\ PcInv' /\ WriterInv'
<1>1. /\ pc["handler"] # <<"off", "rpc">>
      /\ stopFlag' = [stopFlag EXCEPT ![l] = TRUE]
      /\ HandlerGoes(<<"flush", l>>)
      /\ UNCHANGED <<process, loggerVars, held, queue, writerVars, today, signalVars>>
  BY DEF HandlerStop
<1>2. <<"flush", l>> \in {"swap", "stop", "flush", "join"} \X Logs
  OBVIOUS
<1>3. /\ process' \in {"up", "dead", "dangling"} /\ stopFlag' \in [Logs -> BOOLEAN]
      /\ logged' \in [Logs -> Nat] /\ buffer' \in [Logs -> Lines]
  BY <1>1 DEF TypeOK, loggerVars
<1> QED
  BY <1>1, <1>2, <1>3, HandlerPlaces

LEMMA HandlerFlushPlaces ==
    ASSUME TypeOK, PcInv, WriterInv, NEW l \in Logs, HandlerFlush(l)
    PROVE  TypeOK' /\ PcInv' /\ WriterInv'
<1> DEFINE to == IF l = "rpc" THEN <<"stop", "app">> ELSE <<"join", "rpc">>
<1>1. /\ pc["handler"] # <<"off", "rpc">>
      /\ process' \in {"up", "dangling"}
      /\ HandlerGoes(to)
      /\ UNCHANGED <<loggerVars, held, queue, stopFlag, writerVars, today, signalVars>>
  BY DEF HandlerFlush
<1>2. to \in {"swap", "stop", "flush", "join"} \X Logs
  BY DEF Logs
<1> HIDE DEF to
<1>3. /\ process' \in {"up", "dead", "dangling"} /\ stopFlag' \in [Logs -> BOOLEAN]
      /\ logged' \in [Logs -> Nat] /\ buffer' \in [Logs -> Lines]
  BY <1>1 DEF TypeOK, loggerVars
<1> QED
  BY <1>1, <1>2, <1>3, HandlerPlaces

LEMMA HandlerJoinPlaces ==
    ASSUME TypeOK, PcInv, WriterInv, NEW l \in Logs, HandlerJoin(l)
    PROVE  TypeOK' /\ PcInv' /\ WriterInv'
<1>1. /\ pc["handler"] # <<"off", "rpc">>
      /\ IF l = "rpc" THEN HandlerGoes(<<"join", "app">>) /\ UNCHANGED process
                      ELSE process' = "dead" /\ UNCHANGED pc
      /\ UNCHANGED <<loggerVars, held, queue, stopFlag, writerVars, today, signalVars>>
  BY DEF HandlerJoin
<1>2. CASE l = "rpc"
  <2>1. <<"join", "app">> \in {"swap", "stop", "flush", "join"} \X Logs
    BY DEF Logs
  <2>2. /\ process' \in {"up", "dead", "dangling"} /\ stopFlag' \in [Logs -> BOOLEAN]
        /\ logged' \in [Logs -> Nat] /\ buffer' \in [Logs -> Lines]
    BY <1>1, <1>2 DEF TypeOK, loggerVars
  <2> QED
    BY <1>1, <1>2, <2>1, <2>2, HandlerPlaces
<1>3. CASE l # "rpc"
  <2>1. process' = "dead" /\ UNCHANGED pc
    BY <1>1, <1>3
  <2>2. TypeOK'
    BY <1>1, <2>1 DEF TypeOK, loggerVars, writerVars, signalVars
  <2> QED
    BY <1>1, <2>1, <2>2 DEF PcInv, WriterInv, writerVars, signalVars
<1> QED
  BY <1>2, <1>3

LEMMA NewDayPlaces ==
    ASSUME TypeOK, PcInv, WriterInv, NewDay
    PROVE  TypeOK' /\ PcInv' /\ WriterInv'
<1>1. /\ today < MaxDays /\ today' = today + 1
      /\ UNCHANGED <<process, loggerVars, syncVars, queue, stopFlag, writerVars, signalVars>>
  BY DEF NewDay
<1>2. today' \in 1..MaxDays
  BY <1>1, LoggerAssumption DEF TypeOK
<1>3. TypeOK'
  BY <1>1, <1>2 DEF TypeOK, loggerVars, syncVars, writerVars, signalVars
<1> QED
  BY <1>1, <1>3 DEF PcInv, WriterInv, syncVars, writerVars, signalVars

\* The steps of the system, each with the context or the thread that takes it.
LEMMA NextSteps ==
    ASSUME Next
    PROVE  \/ \E t \in Threads, l \in Logs : PushLog(t, l)
           \/ \E x \in Contexts, l \in Logs : SwapBuffer(x, l) \/ PushLogBuffer(x, l)
           \/ \E l \in Logs : TakeBatch(l) \/ WriteBatch(l) \/ CheckStop(l)
           \/ \E t \in Threads \cup Logs : Signal(t)
           \/ HandlerLog
           \/ \E l \in Logs : HandlerStop(l) \/ HandlerFlush(l) \/ HandlerJoin(l)
           \/ NewDay
<1>1. "timer" \in Contexts /\ "handler" \in Contexts
  BY DEF Contexts
<1> QED
  BY <1>1 DEF Next, SyncTimer, SyncStep, WriterStep, HandlerStep

LEMMA PlacesNext ==
    ASSUME TypeOK, PcInv, WriterInv, [Next]_vars
    PROVE  TypeOK' /\ PcInv' /\ WriterInv'
<1>1. CASE UNCHANGED vars
  BY <1>1 DEF vars, loggerVars, syncVars, writerVars, signalVars, TypeOK, PcInv, WriterInv
<1>2. CASE Next
  BY <1>2, NextSteps, PushLogPlaces, SwapBufferPlaces, PushLogBufferPlaces, TakeBatchPlaces,
     WriteBatchPlaces, CheckStopPlaces, SignalPlaces, HandlerLogPlaces, HandlerStopPlaces,
     HandlerFlushPlaces, HandlerJoinPlaces, NewDayPlaces
<1> QED
  BY <1>1, <1>2

\* A log's lines are numbers, batches are never empty, and a context or a thread is
\* where the code has a statement for it (log.cc:44-123 and 185-305).
THEOREM LoggerTypeCorrect == Spec => []TypeOK
<1>1. Init => TypeOK /\ PcInv /\ WriterInv
  BY PlacesInit
<1>2. TypeOK /\ PcInv /\ WriterInv /\ [Next]_vars => (TypeOK /\ PcInv /\ WriterInv)'
  BY PlacesNext
<1> QED
  BY <1>1, <1>2, PTL DEF Spec

-----------------------------------------------------------------------------
(* The files. A full file is noticed before the next batch, and the first full one  *)
(* of a day is opened once more: a second batch goes into it, but no third.         *)

\* The file of the number m_no is m_no - 1, or 0 until the first one of the day is full.
\* Names are used up in the order of their dates and numbers.
Filed(f, w, day) ==
    /\ f.date <= day
    /\ IF f.date = 0 THEN f.open = NoFile /\ f.no = 0
                     ELSE f.open = <<f.date, IF f.no = 0 THEN 0 ELSE f.no - 1>>
    /\ \A n \in Names : BatchesIn(w, n) # <<>> =>
           n[1] \in 1..f.date /\ (n[1] = f.date => n[2] <= f.open[2])
    /\ \A n \in Names : Without(BatchesIn(w, n), 2) <= MaxFileSize
    /\ f.no = 0 => Without(BatchesIn(w, f.open), 1) <= MaxFileSize

FileInv == \A l \in Logs : Filed(file[l], written[l], today)

LEMMA FiledInit == \A day \in Nat : Filed([open |-> NoFile, no |-> 0, date |-> 0], <<>>, day)
<1> SUFFICES ASSUME NEW day \in Nat
             PROVE  Filed([open |-> NoFile, no |-> 0, date |-> 0], <<>>, day)
  OBVIOUS
<1>1. \A n : BatchesIn(<<>>, n) = <<>>
  BY BatchesInNone
<1>2. \A n : Without(BatchesIn(<<>>, n), 2) = 0 /\ Without(BatchesIn(<<>>, n), 1) = 0
  BY <1>1, WithoutAll
<1>3. MaxFileSize \in Nat
  BY LoggerAssumption
<1> QED
  BY <1>1, <1>2, <1>3 DEF Filed

\* What the thread finds before it looks at the size: the file which it would go on with.
LEMMA CurrentIsFiled ==
    ASSUME TypeOK, NEW l \in Logs, Filed(file[l], written[l], today)
    PROVE  /\ Current(l) = <<today, IF Number(l) = 0 THEN 0 ELSE Number(l) - 1>>
           /\ \A n \in Names : BatchesIn(written[l], n) # <<>> =>
                  n[1] \in 1..today /\ (n[1] = today => n[2] <= Current(l)[2])
           /\ Number(l) = 0 => Without(BatchesIn(written[l], Current(l)), 1) <= MaxFileSize
<1>1. /\ file[l] \in [open : Names, no : Nat, date : 0..MaxDays] /\ today \in 1..MaxDays
      /\ MaxDays \in Nat /\ MaxFileSize \in Nat /\ written[l] \in Seq(Batch)
  BY LoggerAssumption DEF TypeOK, Batch
<1> DEFINE f == file[l]
           w == written[l]
<1>2. f.date \in Nat /\ f.date <= today /\ f.no \in Nat /\ f.open \in Names
  BY <1>1 DEF Filed
<1>3. IF f.date = 0 THEN f.open = NoFile /\ f.no = 0
                    ELSE f.open = <<f.date, IF f.no = 0 THEN 0 ELSE f.no - 1>>
  BY DEF Filed
<1>4. \A n \in Names : BatchesIn(w, n) # <<>> =>
          n[1] \in 1..f.date /\ (n[1] = f.date => n[2] <= f.open[2])
  BY DEF Filed
<1>5. f.no = 0 => Without(BatchesIn(w, f.open), 1) <= MaxFileSize
  BY DEF Filed
<1>6. CASE today # f.date
  <2>1. Number(l) = 0 /\ Current(l) = <<today, 0>>
    BY <1>6 DEF Number, Current, Reopened
  <2>2. ASSUME NEW n \in Names, BatchesIn(w, n) # <<>> PROVE n[1] \in 1..today /\ n[1] # today
    <3>1. n[1] \in 1..f.date
      BY <1>4, <2>2
    <3> QED
      BY <1>1, <1>2, <1>6, <3>1
  <2>3. BatchesIn(w, <<today, 0>>) = <<>>
    <3>1. <<today, 0>> \in Names
      BY <1>1 DEF Names
    <3> QED
      BY <2>2, <3>1
  <2>4. Without(BatchesIn(w, <<today, 0>>), 1) = 0
    BY <2>3, WithoutAll
  <2> QED
    BY <1>1, <2>1, <2>2, <2>4
<1>7. CASE today = f.date
  <2>1. f.date # 0
    BY <1>1, <1>7
  <2>2. f.open = <<today, IF f.no = 0 THEN 0 ELSE f.no - 1>>
    BY <1>3, <1>7, <2>1
  <2>3. f.open # NoFile
    BY <2>1, <2>2, <1>7 DEF NoFile
  <2>4. Number(l) = f.no /\ Current(l) = f.open
    BY <1>7, <2>3 DEF Number, Current, Reopened
  <2> HIDE DEF f
  <2> QED
    BY <1>4, <1>5, <1>7, <2>2, <2>4
<1> QED
  BY <1>6, <1>7

LEMMA FiledStep ==
    ASSUME NEW w \in Seq(Batch), NEW lines \in Lines, NEW day \in 1..MaxDays, NEW no \in Nat,
           NEW current, NEW full \in BOOLEAN, NEW f,
           current = <<day, IF no = 0 THEN 0 ELSE no - 1>>,
           \A n \in Names : BatchesIn(w, n) # <<>> =>
               n[1] \in 1..day /\ (n[1] = day => n[2] <= current[2]),
           \A n \in Names : Without(BatchesIn(w, n), 2) <= MaxFileSize,
           no = 0 => Without(BatchesIn(w, current), 1) <= MaxFileSize,
           full <=> Len(LinesOf(BatchesIn(w, current))) > MaxFileSize,
           f = [open |-> IF full THEN <<day, no>> ELSE current,
                no |-> IF full THEN no + 1 ELSE no,
                date |-> day]
    PROVE  Filed(f, Append(w, [name |-> f.open, lines |-> lines]), day)
<1> DEFINE b == [name |-> f.open, lines |-> lines]
           v == Append(w, b)
           B(n) == BatchesIn(w, n)
<1>1. MaxDays \in Nat /\ MaxFileSize \in Nat /\ day \in Nat \ {0}
  BY LoggerAssumption
<1>2. current \in Names /\ <<day, no>> \in Names /\ current[1] = day /\ current[2] \in Nat
  BY <1>1 DEF Names
<1>3. /\ f.open = IF full THEN <<day, no>> ELSE current
      /\ f.no = IF full THEN no + 1 ELSE no
      /\ f.date = day
      /\ f.open \in Names
  BY <1>2
<1>4. b \in Batch /\ b.name = f.open
  BY <1>3 DEF Batch
<1>5. \A n : B(n) \in Seq(Batch)
  BY BatchesType
<1>6. \A n : BatchesIn(v, n) = IF f.open = n THEN Append(B(n), b) ELSE B(n)
  <2> SUFFICES ASSUME NEW n
               PROVE  BatchesIn(v, n) = IF f.open = n THEN Append(B(n), b) ELSE B(n)
    OBVIOUS
  <2> HIDE DEF b
  <2>1. BatchesIn(v, n) = IF b.name = n THEN Append(B(n), b) ELSE B(n)
    BY <1>4, BatchesAppend
  <2> QED
    BY <1>4, <2>1
<1> HIDE DEF b, v
<1>7. f.open = <<day, IF f.no = 0 THEN 0 ELSE f.no - 1>>
  <2>1. CASE full
    BY <1>3, <2>1
  <2>2. CASE ~full
    BY <1>3, <2>2
  <2> QED
    BY <2>1, <2>2
<1>8. f.open[1] = day /\ f.open[2] \in Nat /\ current[2] <= f.open[2]
  <2>1. CASE full
    BY <1>2, <1>3, <2>1
  <2>2. CASE ~full
    BY <1>2, <1>3, <2>2
  <2> QED
    BY <2>1, <2>2
<1>9. ASSUME NEW n \in Names, BatchesIn(v, n) # <<>>
      PROVE  n[1] \in 1..day /\ (n[1] = day => n[2] <= f.open[2])
  <2>1. CASE n = f.open
    BY <1>1, <1>8, <2>1
  <2>2. CASE n # f.open
    <3>1. n[1] \in 1..day /\ (n[1] = day => n[2] <= current[2])
      BY <1>6, <1>9, <2>2
    <3>2. n[2] \in Nat
      BY DEF Names
    <3> QED
      BY <1>2, <1>8, <3>1, <3>2
  <2> QED
    BY <2>1, <2>2
<1>10. Without(B(f.open), 1) <= MaxFileSize
  <2>1. CASE ~full
    <3>1. f.open = current
      BY <1>3, <2>1
    <3>2. Without(B(current), 0) <= MaxFileSize
      <4>1. Without(B(current), 0) = Len(LinesOf(B(current))) /\ Without(B(current), 0) \in Nat
        BY <1>5, WithoutNone, WithoutType
      <4> QED
        BY <1>1, <2>1, <4>1
    <3>3. Without(B(current), 0 + 1) <= Without(B(current), 0)
      BY <1>5, WithoutLess
    <3>4. Without(B(current), 0) \in Nat /\ Without(B(current), 1) \in Nat
      BY <1>5, WithoutType
    <3> QED
      BY <1>1, <3>1, <3>2, <3>3, <3>4
  <2>2. CASE full /\ no = 0
    <3>1. f.open = current
      BY <1>3, <2>2
    <3> QED
      BY <2>2, <3>1
  <2>3. CASE full /\ no # 0
    <3>1. f.open = <<day, no>> /\ current[2] = no - 1
      BY <1>3, <2>3
    <3>2. B(<<day, no>>) = <<>>
      <4>1. <<day, no>>[1] = day /\ ~ (<<day, no>>[2] <= current[2])
        BY <3>1
      <4> QED
        BY <1>2, <4>1
    <3>3. Without(B(f.open), 1) = 0
      BY <3>1, <3>2, WithoutAll
    <3> QED
      BY <1>1, <3>3
  <2> QED
    BY <2>1, <2>2, <2>3
<1>11. ASSUME NEW n \in Names PROVE Without(BatchesIn(v, n), 2) <= MaxFileSize
  <2>1. CASE n = f.open
    <3>1. BatchesIn(v, n) = Append(B(f.open), b)
      BY <1>6, <2>1
    <3>2. Without(Append(B(f.open), b), 1 + 1) = Without(B(f.open), 1)
      BY <1>4, <1>5, WithoutAppend
    <3> QED
      BY <1>10, <3>1, <3>2
  <2>2. CASE n # f.open
    BY <1>6, <2>2
  <2> QED
    BY <2>1, <2>2
<1>12. ASSUME f.no = 0 PROVE Without(BatchesIn(v, f.open), 1) <= MaxFileSize
  <2>1. ~full
    BY <1>3, <1>12
  <2>2. f.open = current
    BY <1>3, <2>1
  <2>3. BatchesIn(v, f.open) = Append(B(current), b)
    BY <1>6, <2>2
  <2>4. Without(Append(B(current), b), 0 + 1) = Without(B(current), 0)
    BY <1>4, <1>5, WithoutAppend
  <2>5. Without(B(current), 0) <= MaxFileSize
    <3>1. Without(B(current), 0) = Len(LinesOf(B(current))) /\ Without(B(current), 0) \in Nat
      BY <1>5, WithoutNone, WithoutType
    <3> QED
      BY <1>1, <2>1, <3>1
  <2>6. 0 + 1 = 1
    OBVIOUS
  <2> HIDE DEF B
  <2> QED
    BY <2>3, <2>4, <2>5, <2>6
<1>13. Filed(f, v, day)
  BY <1>1, <1>3, <1>7, <1>9, <1>11, <1>12 DEF Filed
<1> QED
  BY <1>13 DEF v, b

LEMMA FileNext ==
    ASSUME TypeOK, FileInv, [Next]_vars
    PROVE  FileInv'
<1>1. ASSUME UNCHANGED <<file, written, today>> PROVE FileInv'
  BY <1>1 DEF FileInv
<1>2. CASE UNCHANGED vars
  BY <1>1, <1>2 DEF vars, writerVars
<1>3. ASSUME NEW t \in Threads, NEW l \in Logs, PushLog(t, l) PROVE FileInv'
  BY <1>1, <1>3 DEF PushLog, writerVars
<1>4. ASSUME NEW x \in Contexts, NEW l \in Logs, SwapBuffer(x, l) \/ PushLogBuffer(x, l)
      PROVE  FileInv'
  BY <1>1, <1>4 DEF SwapBuffer, PushLogBuffer, writerVars
<1>5. ASSUME NEW l \in Logs, TakeBatch(l) \/ CheckStop(l) PROVE FileInv'
  BY <1>1, <1>5 DEF TakeBatch, CheckStop
<1>6. ASSUME NEW l \in Logs, WriteBatch(l) PROVE FileInv'
  <2> DEFINE f == NextFile(l)
             w == written[l]
             v == Append(w, [name |-> f.open, lines |-> tmp[l]])
  <2>1. /\ w \in Seq(Batch) /\ tmp[l] \in Lines /\ today \in 1..MaxDays
        /\ file \in [Logs -> [open : Names, no : Nat, date : 0..MaxDays]] /\ written \in [Logs -> Seq(Batch)]
    BY DEF TypeOK, Batch
  <2>2. file' = [file EXCEPT ![l] = f] /\ today' = today
    BY <1>6 DEF WriteBatch
  <2>3. file'[l] = f
    BY <2>1, <2>2
  <2>4. written' = [written EXCEPT ![l] = v]
    BY <1>6, <2>3 DEF WriteBatch
  <2>5. Filed(file[l], w, today)
    BY DEF FileInv
  <2>6. Number(l) \in Nat
    BY <2>1 DEF Number
  <2>7. /\ IsFull(l) \in BOOLEAN
        /\ IsFull(l) <=> Len(LinesOf(BatchesIn(w, Current(l)))) > MaxFileSize
    BY DEF IsFull, FileSize
  <2>8. \A n \in Names : Without(BatchesIn(w, n), 2) <= MaxFileSize
    BY <2>5 DEF Filed
  <2>9. f = [open |-> IF IsFull(l) THEN <<today, Number(l)>> ELSE Current(l),
             no |-> IF IsFull(l) THEN Number(l) + 1 ELSE Number(l),
             date |-> today]
    BY DEF NextFile
  <2> HIDE DEF f
  <2>10. /\ Current(l) = <<today, IF Number(l) = 0 THEN 0 ELSE Number(l) - 1>>
         /\ \A n \in Names : BatchesIn(w, n) # <<>> =>
                n[1] \in 1..today /\ (n[1] = today => n[2] <= Current(l)[2])
         /\ Number(l) = 0 => Without(BatchesIn(w, Current(l)), 1) <= MaxFileSize
    BY <2>5, CurrentIsFiled
  <2>11. Filed(f, v, today)
    <3> DEFINE no == Number(l)
               current == Current(l)
               full == IsFull(l)
               lines == tmp[l]
    <3>1. no \in Nat /\ full \in BOOLEAN /\ lines \in Lines
      BY <2>1, <2>6, <2>7
    <3>2. /\ current = <<today, IF no = 0 THEN 0 ELSE no - 1>>
          /\ no = 0 => Without(BatchesIn(w, current), 1) <= MaxFileSize
          /\ full <=> Len(LinesOf(BatchesIn(w, current))) > MaxFileSize
          /\ f = [open |-> IF full THEN <<today, no>> ELSE current,
                  no |-> IF full THEN no + 1 ELSE no,
                  date |-> today]
      BY <2>7, <2>9, <2>10
    <3>3. \A n \in Names : BatchesIn(w, n) # <<>> =>
              n[1] \in 1..today /\ (n[1] = today => n[2] <= current[2])
      BY <2>10
    <3> HIDE DEF no, current, full, lines, w
    <3>4. Filed(f, Append(w, [name |-> f.open, lines |-> lines]), today)
      BY <2>1, <2>8, <3>1, <3>2, <3>3, FiledStep
    <3> QED
      BY <3>4 DEF lines, w
  <2> HIDE DEF v
  <2>12. ASSUME NEW k \in Logs PROVE Filed(file'[k], written'[k], today')
    <3>1. CASE k = l
      <4>1. written'[k] = v /\ file'[k] = f
        BY <2>1, <2>2, <2>4, <3>1
      <4> QED
        BY <2>2, <2>11, <4>1
    <3>2. CASE k # l
      <4>1. written'[k] = written[k] /\ file'[k] = file[k]
        BY <2>1, <2>2, <2>4, <3>2
      <4> QED
        BY <2>2, <4>1 DEF FileInv
    <3> QED
      BY <3>1, <3>2
  <2> QED
    BY <2>12 DEF FileInv
<1>7. ASSUME NEW t \in Threads \cup Logs, Signal(t) PROVE FileInv'
  BY <1>1, <1>7 DEF Signal, writerVars
<1>8. ASSUME HandlerLog PROVE FileInv'
  BY <1>1, <1>8 DEF HandlerLog, writerVars
<1>9. ASSUME NEW l \in Logs, HandlerStop(l) \/ HandlerFlush(l) \/ HandlerJoin(l) PROVE FileInv'
  BY <1>1, <1>9 DEF HandlerStop, HandlerFlush, HandlerJoin, writerVars
<1>10. ASSUME NewDay PROVE FileInv'
  <2>1. file' = file /\ written' = written /\ today' = today + 1 /\ today \in Nat
    BY <1>10 DEF NewDay, writerVars, TypeOK
  <2>2. ASSUME NEW l \in Logs PROVE Filed(file[l], written[l], today + 1)
    <3>1. Filed(file[l], written[l], today) /\ file[l].date \in Nat
      BY LoggerAssumption DEF FileInv, TypeOK
    <3>2. file[l].date <= today + 1
      BY <2>1, <3>1 DEF Filed
    <3> QED
      BY <3>1, <3>2 DEF Filed
  <2> QED
    BY <2>1, <2>2 DEF FileInv
<1>11. CASE Next
  BY <1>3, <1>4, <1>5, <1>6, <1>7, <1>8, <1>9, <1>10, <1>11, NextSteps
<1> QED
  BY <1>2, <1>11

-----------------------------------------------------------------------------
(* The lines of a log, in the six places where they may be.                *)

Chain(w, t, q, a, h, b) == w \o t \o q \o a \o h \o b

\* c holds the lines 1 to n, each in one place, and in their order if it is to.
Placed(c, n, ordered) ==
    /\ Len(c) = n
    /\ ToSet(c) = 1..n
    /\ ordered => c = [i \in 1..n |-> i]

PlaceInv == \A l \in Logs : Placed(Trail(l), logged[l], interrupted = "nobody")

AllLines(w, t, q, a, h, b) ==
    w \in Lines /\ t \in Lines /\ q \in Lines /\ a \in Lines /\ h \in Lines /\ b \in Lines

LEMMA SetOfConcat ==
    ASSUME NEW s \in Lines, NEW r \in Lines
    PROVE  /\ s \o r \in Lines
           /\ Len(s \o r) = Len(s) + Len(r)
           /\ ToSet(s \o r) = ToSet(s) \cup ToSet(r)
<1>1. /\ s \o r \in Lines /\ Len(s \o r) = Len(s) + Len(r)
      /\ \A i \in 1..Len(s) + Len(r) : (s \o r)[i] = IF i <= Len(s) THEN s[i] ELSE r[i - Len(s)]
      /\ DOMAIN (s \o r) = 1..(Len(s) + Len(r))
      /\ DOMAIN s = 1..Len(s) /\ DOMAIN r = 1..Len(r) /\ Len(s) \in Nat /\ Len(r) \in Nat
  BY ConcatProperties, LenProperties DEF Lines
<1> DEFINE c == s \o r
<1>2. ASSUME NEW e \in ToSet(c) PROVE e \in ToSet(s) \cup ToSet(r)
  <2>1. PICK i \in 1..(Len(s) + Len(r)) : e = c[i]
    BY <1>1, <1>2 DEF ToSet
  <2>2. CASE i <= Len(s)
    <3>1. i \in DOMAIN s /\ e = s[i]
      BY <1>1, <2>1, <2>2
    <3> QED
      BY <3>1 DEF ToSet
  <2>3. CASE ~(i <= Len(s))
    <3>1. i - Len(s) \in DOMAIN r /\ e = r[i - Len(s)]
      BY <1>1, <2>1, <2>3
    <3> QED
      BY <3>1 DEF ToSet
  <2> QED
    BY <2>2, <2>3
<1>3. ASSUME NEW e \in ToSet(s) PROVE e \in ToSet(c)
  <2>1. PICK i \in 1..Len(s) : e = s[i]
    BY <1>1, <1>3 DEF ToSet
  <2>2. i \in DOMAIN c /\ c[i] = e
    BY <1>1, <2>1
  <2> QED
    BY <2>2 DEF ToSet
<1>4. ASSUME NEW e \in ToSet(r) PROVE e \in ToSet(c)
  <2>1. PICK i \in 1..Len(r) : e = r[i]
    BY <1>1, <1>4 DEF ToSet
  <2>2. i + Len(s) \in 1..(Len(s) + Len(r)) /\ ~(i + Len(s) <= Len(s)) /\ (i + Len(s)) - Len(s) = i
    BY <1>1, <2>1
  <2>3. i + Len(s) \in DOMAIN c /\ c[i + Len(s)] = e
    BY <1>1, <2>1, <2>2
  <2> QED
    BY <2>3 DEF ToSet
<1> HIDE DEF c
<1>5. ToSet(c) = ToSet(s) \cup ToSet(r)
  BY <1>2, <1>3, <1>4
<1> QED
  BY <1>1, <1>5 DEF c

LEMMA SetOfEmpty == <<>> \in Lines /\ Len(<<>>) = 0 /\ ToSet(<<>>) = {}
BY EmptySeq DEF Lines, ToSet

LEMMA ChainCount ==
    ASSUME NEW w, NEW t, NEW q, NEW a, NEW h, NEW b, AllLines(w, t, q, a, h, b)
    PROVE  /\ Chain(w, t, q, a, h, b) \in Lines
           /\ Len(Chain(w, t, q, a, h, b)) = Len(w) + Len(t) + Len(q) + Len(a) + Len(h) + Len(b)
           /\ ToSet(Chain(w, t, q, a, h, b)) =
                  ToSet(w) \cup ToSet(t) \cup ToSet(q) \cup ToSet(a) \cup ToSet(h) \cup ToSet(b)
<1>0. w \in Lines /\ t \in Lines /\ q \in Lines /\ a \in Lines /\ h \in Lines /\ b \in Lines
  BY DEF AllLines
<1> DEFINE s == w \o t
           r == s \o q
           u == r \o a
           v == u \o h
           c == v \o b
<1>1. s \in Lines /\ Len(s) = Len(w) + Len(t) /\ ToSet(s) = ToSet(w) \cup ToSet(t)
  BY <1>0, SetOfConcat
<1> HIDE DEF s
<1>2. r \in Lines /\ Len(r) = Len(s) + Len(q) /\ ToSet(r) = ToSet(s) \cup ToSet(q)
  BY <1>0, <1>1, SetOfConcat
<1> HIDE DEF r
<1>3. u \in Lines /\ Len(u) = Len(r) + Len(a) /\ ToSet(u) = ToSet(r) \cup ToSet(a)
  BY <1>0, <1>2, SetOfConcat
<1> HIDE DEF u
<1>4. v \in Lines /\ Len(v) = Len(u) + Len(h) /\ ToSet(v) = ToSet(u) \cup ToSet(h)
  BY <1>0, <1>3, SetOfConcat
<1> HIDE DEF v
<1>5. c \in Lines /\ Len(c) = Len(v) + Len(b) /\ ToSet(c) = ToSet(v) \cup ToSet(b)
  BY <1>0, <1>4, SetOfConcat
<1> HIDE DEF c
<1>6. c = Chain(w, t, q, a, h, b)
  BY DEF Chain, s, r, u, v, c
<1>7. Len(c) = Len(w) + Len(t) + Len(q) + Len(a) + Len(h) + Len(b)
  BY <1>0, <1>1, <1>2, <1>3, <1>4, <1>5
<1>8. ToSet(c) = ToSet(w) \cup ToSet(t) \cup ToSet(q) \cup ToSet(a) \cup ToSet(h) \cup ToSet(b)
  BY <1>0, <1>1, <1>2, <1>3, <1>4, <1>5
<1> QED
  BY <1>5, <1>6, <1>7, <1>8

\* The moves that keep the order: a line that enters the buffer, a buffer that the timer
\* swaps and pushes, a batch that is taken and written.
LEMMA ChainMoves ==
    ASSUME NEW w, NEW t, NEW q, NEW a, NEW h, NEW b, AllLines(w, t, q, a, h, b)
    PROVE  /\ Chain(w, t, q, b, <<>>, <<>>) = Chain(w, t, q, <<>>, <<>>, b)
           /\ Chain(w, t, q \o a, <<>>, h, b) = Chain(w, t, q, a, h, b)
           /\ Chain(w, <<>>, t \o q, a, h, b) = Chain(w, t, q, a, h, b)
           /\ Chain(w \o t, <<>>, q, a, h, b) = Chain(w, t, q, a, h, b)
<1>0. w \in Lines /\ t \in Lines /\ q \in Lines /\ a \in Lines /\ h \in Lines /\ b \in Lines
  BY DEF AllLines
<1>2. \A x \in Seq(Nat) : x \o <<>> = x
  BY ConcatEmptySeq
<1>3. \A x, y \in Seq(Nat) : x \o y \in Seq(Nat)
  BY ConcatProperties
<1>4. w \in Seq(Nat) /\ t \in Seq(Nat) /\ q \in Seq(Nat) /\ a \in Seq(Nat) /\ b \in Seq(Nat)
  BY <1>0 DEF Lines
<1> DEFINE s == w \o t
           r == s \o q
<1>5. s \in Seq(Nat)
  BY <1>3, <1>4
<1>6. s \o q = w \o (t \o q)
  <2>1. AreSeqs(Nat, w, t, q)
    BY <1>4 DEF AreSeqs
  <2> QED
    BY <2>1, Associative
<1> HIDE DEF s
<1>7. r \in Seq(Nat)
  BY <1>3, <1>4, <1>5
<1>8. s \o (q \o a) = r \o a
  <2>1. AreSeqs(Nat, s, q, a)
    BY <1>4, <1>5 DEF AreSeqs
  <2> QED
    BY <2>1, Associative
<1>9. s \o <<>> = s /\ w \o <<>> = w
  BY <1>2, <1>4, <1>5
<1> HIDE DEF r
<1>10. r \o a \in Seq(Nat) /\ r \o b \in Seq(Nat)
  BY <1>3, <1>4, <1>7
<1>11. (r \o a) \o <<>> = r \o a /\ (r \o b) \o <<>> = r \o b /\ r \o <<>> = r
  BY <1>2, <1>7, <1>10
<1>12. Chain(w, t, q, b, <<>>, <<>>) = Chain(w, t, q, <<>>, <<>>, b)
  BY <1>11 DEF Chain, r, s
<1>13. Chain(w, t, q \o a, <<>>, h, b) = Chain(w, t, q, a, h, b)
  BY <1>8, <1>11 DEF Chain, r, s
<1>14. Chain(w, <<>>, t \o q, a, h, b) = Chain(w, t, q, a, h, b)
  BY <1>6, <1>9 DEF Chain, r, s
<1>15. Chain(w \o t, <<>>, q, a, h, b) = Chain(w, t, q, a, h, b)
  BY <1>9 DEF Chain, r, s
<1> QED
  BY <1>12, <1>13, <1>14, <1>15

\* The moves of the handler, and of a timer with a handler on top of it, keep the lines
\* and not their order.
SameLines(c, d) == Len(c) = Len(d) /\ ToSet(c) = ToSet(d)

LEMMA ChainRecounts ==
    ASSUME NEW w, NEW t, NEW q, NEW a, NEW h, NEW b, AllLines(w, t, q, a, h, b)
    PROVE  /\ SameLines(Chain(w, t, q, b, h, <<>>), Chain(w, t, q, <<>>, h, b))
           /\ SameLines(Chain(w, t, q, a, b, <<>>), Chain(w, t, q, a, <<>>, b))
           /\ SameLines(Chain(w, t, q \o h, a, <<>>, b), Chain(w, t, q, a, h, b))
<1>0. w \in Lines /\ t \in Lines /\ q \in Lines /\ a \in Lines /\ h \in Lines /\ b \in Lines
  BY DEF AllLines
<1>1. PICK e \in Lines : e = <<>> /\ Len(e) = 0 /\ ToSet(e) = {}
  BY SetOfEmpty
<1>2. PICK r \in Lines : r = q \o h /\ Len(r) = Len(q) + Len(h) /\ ToSet(r) = ToSet(q) \cup ToSet(h)
  BY <1>0, SetOfConcat
<1>3. /\ Len(w) \in Nat /\ Len(t) \in Nat /\ Len(q) \in Nat /\ Len(a) \in Nat /\ Len(h) \in Nat
      /\ Len(b) \in Nat
  BY <1>0, LenProperties DEF Lines
<1>4. SameLines(Chain(w, t, q, b, h, e), Chain(w, t, q, e, h, b))
  <2>1. /\ Len(Chain(w, t, q, b, h, e)) = Len(w) + Len(t) + Len(q) + Len(b) + Len(h) + Len(e)
        /\ ToSet(Chain(w, t, q, b, h, e)) =
               ToSet(w) \cup ToSet(t) \cup ToSet(q) \cup ToSet(b) \cup ToSet(h) \cup ToSet(e)
    <3>1. AllLines(w, t, q, b, h, e)
      BY <1>0, <1>1, <1>2 DEF AllLines
    <3> QED
      BY <3>1, ChainCount
  <2>2. /\ Len(Chain(w, t, q, e, h, b)) = Len(w) + Len(t) + Len(q) + Len(e) + Len(h) + Len(b)
        /\ ToSet(Chain(w, t, q, e, h, b)) =
               ToSet(w) \cup ToSet(t) \cup ToSet(q) \cup ToSet(e) \cup ToSet(h) \cup ToSet(b)
    <3>1. AllLines(w, t, q, e, h, b)
      BY <1>0, <1>1, <1>2 DEF AllLines
    <3> QED
      BY <3>1, ChainCount
  <2>3. Len(Chain(w, t, q, b, h, e)) = Len(Chain(w, t, q, e, h, b))
    BY <1>1, <1>2, <1>3, <2>1, <2>2
  <2>4. ToSet(Chain(w, t, q, b, h, e)) = ToSet(Chain(w, t, q, e, h, b))
    BY <1>1, <1>2, <2>1, <2>2
  <2> QED
    BY <2>3, <2>4 DEF SameLines
<1>5. SameLines(Chain(w, t, q, a, b, e), Chain(w, t, q, a, e, b))
  <2>1. /\ Len(Chain(w, t, q, a, b, e)) = Len(w) + Len(t) + Len(q) + Len(a) + Len(b) + Len(e)
        /\ ToSet(Chain(w, t, q, a, b, e)) =
               ToSet(w) \cup ToSet(t) \cup ToSet(q) \cup ToSet(a) \cup ToSet(b) \cup ToSet(e)
    <3>1. AllLines(w, t, q, a, b, e)
      BY <1>0, <1>1, <1>2 DEF AllLines
    <3> QED
      BY <3>1, ChainCount
  <2>2. /\ Len(Chain(w, t, q, a, e, b)) = Len(w) + Len(t) + Len(q) + Len(a) + Len(e) + Len(b)
        /\ ToSet(Chain(w, t, q, a, e, b)) =
               ToSet(w) \cup ToSet(t) \cup ToSet(q) \cup ToSet(a) \cup ToSet(e) \cup ToSet(b)
    <3>1. AllLines(w, t, q, a, e, b)
      BY <1>0, <1>1, <1>2 DEF AllLines
    <3> QED
      BY <3>1, ChainCount
  <2>3. Len(Chain(w, t, q, a, b, e)) = Len(Chain(w, t, q, a, e, b))
    BY <1>1, <1>2, <1>3, <2>1, <2>2
  <2>4. ToSet(Chain(w, t, q, a, b, e)) = ToSet(Chain(w, t, q, a, e, b))
    BY <1>1, <1>2, <2>1, <2>2
  <2> QED
    BY <2>3, <2>4 DEF SameLines
<1>6. SameLines(Chain(w, t, r, a, e, b), Chain(w, t, q, a, h, b))
  <2>1. /\ Len(Chain(w, t, r, a, e, b)) = Len(w) + Len(t) + Len(r) + Len(a) + Len(e) + Len(b)
        /\ ToSet(Chain(w, t, r, a, e, b)) =
               ToSet(w) \cup ToSet(t) \cup ToSet(r) \cup ToSet(a) \cup ToSet(e) \cup ToSet(b)
    <3>1. AllLines(w, t, r, a, e, b)
      BY <1>0, <1>1, <1>2 DEF AllLines
    <3> QED
      BY <3>1, ChainCount
  <2>2. /\ Len(Chain(w, t, q, a, h, b)) = Len(w) + Len(t) + Len(q) + Len(a) + Len(h) + Len(b)
        /\ ToSet(Chain(w, t, q, a, h, b)) =
               ToSet(w) \cup ToSet(t) \cup ToSet(q) \cup ToSet(a) \cup ToSet(h) \cup ToSet(b)
    <3>1. AllLines(w, t, q, a, h, b)
      BY <1>0, <1>1, <1>2 DEF AllLines
    <3> QED
      BY <3>1, ChainCount
  <2>3. Len(Chain(w, t, r, a, e, b)) = Len(Chain(w, t, q, a, h, b))
    BY <1>1, <1>2, <1>3, <2>1, <2>2
  <2>4. ToSet(Chain(w, t, r, a, e, b)) = ToSet(Chain(w, t, q, a, h, b))
    BY <1>1, <1>2, <2>1, <2>2
  <2> QED
    BY <2>3, <2>4 DEF SameLines
<1> QED
  BY <1>1, <1>2, <1>4, <1>5, <1>6

LEMMA ConcatAppend ==
    ASSUME NEW v \in Lines, NEW b \in Lines, NEW n \in Nat
    PROVE  v \o Append(b, n) = Append(v \o b, n)
<1>1. v \in Seq(Nat) /\ b \in Seq(Nat) /\ <<n>> \in Seq(Nat)
  BY DEF Lines
<1>2. v \o b \in Seq(Nat)
  BY <1>1, ConcatProperties
<1>3. Append(b, n) = b \o <<n>> /\ Append(v \o b, n) = (v \o b) \o <<n>>
  BY <1>1, <1>2, AppendIsConcat
<1>4. (v \o b) \o <<n>> = v \o (b \o <<n>>)
  <2>1. AreSeqs(Nat, v, b, <<n>>)
    BY <1>1 DEF AreSeqs
  <2> QED
    BY <2>1, Associative
<1> QED
  BY <1>3, <1>4

LEMMA PlacedAppend ==
    ASSUME NEW c \in Lines, NEW n \in Nat, NEW ordered, Placed(c, n, ordered)
    PROVE  Placed(Append(c, n + 1), n + 1, ordered)
<1> DEFINE d == Append(c, n + 1)
<1>1. d \in Lines /\ Len(d) = n + 1 /\ d[n + 1] = n + 1 /\ (\A i \in 1..n : d[i] = c[i])
      /\ DOMAIN d = 1..(n + 1) /\ DOMAIN c = 1..n
  BY AppendProperties, LenProperties DEF Placed, Lines
<1> HIDE DEF d
<1>2. ToSet(c) = 1..n
  BY DEF Placed
<1>3. ToSet(d) = 1..(n + 1)
  <2>1. ASSUME NEW e \in ToSet(d) PROVE e \in 1..(n + 1)
    <3>1. PICK i \in 1..(n + 1) : e = d[i]
      BY <1>1, <2>1 DEF ToSet
    <3>2. CASE i = n + 1
      BY <1>1, <3>1, <3>2
    <3>3. CASE i # n + 1
      <4>1. i \in 1..n /\ e = c[i]
        BY <1>1, <3>1, <3>3
      <4>2. e \in ToSet(c)
        BY <1>1, <4>1 DEF ToSet
      <4> QED
        BY <1>2, <4>2
    <3> QED
      BY <3>2, <3>3
  <2>2. ASSUME NEW e \in 1..(n + 1) PROVE e \in ToSet(d)
    <3>1. CASE e = n + 1
      BY <1>1, <3>1 DEF ToSet
    <3>2. CASE e # n + 1
      <4>1. e \in ToSet(c)
        BY <1>2, <2>2, <3>2
      <4>2. PICK i \in 1..n : c[i] = e
        BY <1>1, <4>1 DEF ToSet
      <4>3. i \in DOMAIN d /\ d[i] = e
        BY <1>1, <4>2
      <4> QED
        BY <4>3 DEF ToSet
    <3> QED
      BY <3>1, <3>2
  <2> QED
    BY <2>1, <2>2
<1>4. ASSUME ordered PROVE d = [i \in 1..(n + 1) |-> i]
  <2>1. c = [i \in 1..n |-> i]
    BY <1>4 DEF Placed
  <2>2. \A i \in 1..n : c[i] = i
    BY <2>1
  <2>3. \A i \in 1..(n + 1) : d[i] = i
    <3> SUFFICES ASSUME NEW i \in 1..(n + 1) PROVE d[i] = i
      OBVIOUS
    <3>1. i \in 1..n \/ i = n + 1
      OBVIOUS
    <3> QED
      BY <1>1, <2>2, <3>1
  <2>4. d = [i \in DOMAIN d |-> d[i]]
    BY <1>1 DEF Lines
  <2> QED
    BY <1>1, <2>3, <2>4
<1> QED
  BY <1>1, <1>3, <1>4 DEF Placed, d

LEMMA PieceTypes ==
    ASSUME TypeOK, NEW k \in Logs
    PROVE  /\ LinesOf(written[k]) \in Lines /\ tmp[k] \in Lines /\ FlattenSeq(queue[k]) \in Lines
           /\ Held("timer", k) \in Lines /\ Held("handler", k) \in Lines /\ buffer[k] \in Lines
           /\ queue[k] \in Seq(Seq(Nat)) /\ written[k] \in Seq(Batch) /\ logged[k] \in Nat
<1>1. written[k] \in Seq(Batch) /\ tmp[k] \in Lines /\ buffer[k] \in Lines /\ logged[k] \in Nat
  BY DEF TypeOK, Batch
<1>2. LinesOf(written[k]) \in Lines
  BY <1>1, LinesType
<1>3. queue[k] \in Seq(Lines \ {<<>>})
  BY DEF TypeOK
<1>4. queue[k] \in Seq(Seq(Nat))
  <2>1. Lines \ {<<>>} \subseteq Seq(Nat)
    BY DEF Lines
  <2> QED
    BY <1>3, <2>1, SeqMonotonic
<1>5. FlattenSeq(queue[k]) \in Lines
  BY <1>4, FlattenType DEF Lines
<1>6. \A x \in Contexts : Held(x, k) \in Lines
  BY SetOfEmpty DEF TypeOK, Held
<1>7. "timer" \in Contexts /\ "handler" \in Contexts
  BY DEF Contexts
<1> QED
  BY <1>1, <1>2, <1>4, <1>5, <1>6, <1>7

\* The steps that move no line.
LEMMA Steady ==
    ASSUME TypeOK, PlaceInv,
           UNCHANGED <<logged, buffer, queue, tmp, written>>,
           \A k \in Logs : Held("timer", k)' = Held("timer", k)
                           /\ Held("handler", k)' = Held("handler", k),
           interrupted' = "nobody" => interrupted = "nobody"
    PROVE  PlaceInv'
<1> SUFFICES ASSUME NEW k \in Logs
             PROVE  Placed(Trail(k), logged[k], interrupted = "nobody")'
  BY DEF PlaceInv
<1>1. Trail(k)' = Trail(k)
  BY DEF Trail, LinesOf
<1>2. Placed(Trail(k), logged[k], interrupted = "nobody")
  BY DEF PlaceInv
<1> QED
  BY <1>1, <1>2 DEF Placed

\* What the two contexts carry when one of them changes its place.
LEMMA HeldStays ==
    ASSUME UNCHANGED <<pc, held>>, NEW k \in Logs
    PROVE  Held("timer", k)' = Held("timer", k) /\ Held("handler", k)' = Held("handler", k)
BY DEF Held

LEMMA HandlerHeld ==
    ASSUME TypeOK, NEW from, from # "push", NEW of, pc["handler"] = <<from, of>>,
           NEW step, step # "push", NEW about, pc' = [pc EXCEPT !["handler"] = <<step, about>>],
           UNCHANGED held, NEW k \in Logs
    PROVE  Held("timer", k)' = Held("timer", k) /\ Held("handler", k)' = Held("handler", k)
<1>1. pc'["handler"] = <<step, about>> /\ pc'["timer"] = pc["timer"]
  BY DEF TypeOK, Contexts
<1>2. <<step, about>> # <<"push", k>> /\ <<from, of>> # <<"push", k>>
  OBVIOUS
<1> QED
  BY <1>1, <1>2 DEF Held

\* A line that enters a buffer, below a context that stays.
LEMMA AppendLinePlaced ==
    ASSUME TypeOK, PlaceInv, NEW l \in Logs, AppendLine(l),
           UNCHANGED <<queue, tmp, written, interrupted>>,
           \A k \in Logs : Held("timer", k)' = Held("timer", k)
                           /\ Held("handler", k)' = Held("handler", k)
    PROVE  PlaceInv'
<1> SUFFICES ASSUME NEW k \in Logs
             PROVE  Placed(Trail(k), logged[k], interrupted = "nobody")'
  BY DEF PlaceInv
<1> DEFINE w == LinesOf(written[k])
           t == tmp[k]
           q == FlattenSeq(queue[k])
           a == Held("timer", k)
           h == Held("handler", k)
           b == buffer[k]
           n == logged[k]
           c == Trail(k)
<1>1. AllLines(w, t, q, a, h, b) /\ n \in Nat
  BY PieceTypes DEF AllLines
<1>2. c = Chain(w, t, q, a, h, b)
  BY DEF Trail, Chain
<1>3. Placed(c, n, interrupted = "nobody")
  BY DEF PlaceInv
<1>4. Trail(k)' = Chain(w, t, q, a, h, buffer'[k])
  BY DEF Trail, Chain, LinesOf
<1>5. c \in Lines
  <2> HIDE DEF w, t, q, a, h, b, n, c
  <2> QED
    BY <1>1, <1>2, ChainCount
<1>6. CASE k = l
  <2>1. logged'[k] = n + 1 /\ buffer'[k] = Append(b, n + 1)
    BY <1>6 DEF AppendLine, TypeOK
  <2>2. n + 1 \in Nat
    BY <1>1
  <2>3. Trail(k)' = Append(c, n + 1)
    <3> DEFINE v == w \o t \o q \o a \o h
    <3>1. v \in Lines
      BY <1>1, SetOfConcat DEF AllLines
    <3>2. c = v \o b /\ Trail(k)' = v \o Append(b, n + 1)
      BY <1>2, <1>4, <2>1 DEF Chain
    <3> HIDE DEF w, t, q, a, h, b, n, c, v
    <3>3. v \o Append(b, n + 1) = Append(v \o b, n + 1)
      BY <1>1, <2>2, <3>1, ConcatAppend DEF AllLines
    <3> QED
      BY <3>2, <3>3
  <2>4. Placed(Append(c, n + 1), n + 1, interrupted = "nobody")
    <3> HIDE DEF n, c
    <3> QED
      BY <1>1, <1>3, <1>5, PlacedAppend
  <2> QED
    BY <2>1, <2>3, <2>4 DEF Placed
<1>7. CASE k # l
  <2>1. logged'[k] = logged[k] /\ buffer'[k] = b
    BY <1>7 DEF AppendLine, TypeOK
  <2>2. Trail(k)' = c
    BY <1>2, <1>4, <2>1
  <2> QED
    BY <1>3, <2>1, <2>2 DEF Placed
<1> QED
  BY <1>6, <1>7

LEMMA SwapHeld ==
    ASSUME TypeOK, NEW x \in Contexts, NEW l \in Logs, SwapBuffer(x, l), NEW k \in Logs
    PROVE  /\ Held(x, k) = <<>>
           /\ Held(x, k)' = IF k = l THEN buffer[l] ELSE <<>>
           /\ \A y \in Contexts \ {x} : Held(y, k)' = Held(y, k)
<1>1. /\ pc[x] = <<"swap", l>>
      /\ held' = [held EXCEPT ![x] = buffer[l]]
      /\ pc' = [pc EXCEPT ![x] = IF buffer[l] = <<>> THEN After(x, l) ELSE <<"push", l>>]
  BY DEF SwapBuffer
<1>2. After(x, l) \in {"swap", "stop"} \X Logs
  BY AfterIsNoPush
<1>3. held'[x] = buffer[l] /\ pc'[x] = IF buffer[l] = <<>> THEN After(x, l) ELSE <<"push", l>>
  BY <1>1 DEF TypeOK
<1>4. Held(x, k) = <<>>
  BY <1>1 DEF Held
<1>5. Held(x, k)' = IF k = l THEN buffer[l] ELSE <<>>
  <2>1. CASE buffer[l] = <<>>
    <3>1. pc'[x] # <<"push", k>>
      BY <1>2, <1>3, <2>1
    <3> QED
      BY <2>1, <3>1 DEF Held
  <2>2. CASE buffer[l] # <<>>
    BY <1>3, <2>2 DEF Held
  <2> QED
    BY <2>1, <2>2
<1>6. ASSUME NEW y \in Contexts \ {x} PROVE Held(y, k)' = Held(y, k)
  BY <1>1 DEF Held, TypeOK
<1> QED
  BY <1>4, <1>5, <1>6

LEMMA PushHeld ==
    ASSUME TypeOK, NEW x \in Contexts, NEW l \in Logs, PushLogBuffer(x, l), NEW k \in Logs
    PROVE  /\ Held(x, k) = IF k = l THEN held[x] ELSE <<>>
           /\ Held(x, k)' = <<>>
           /\ \A y \in Contexts \ {x} : Held(y, k)' = Held(y, k)
<1>1. /\ pc[x] = <<"push", l>>
      /\ held' = [held EXCEPT ![x] = <<>>]
      /\ pc' = [pc EXCEPT ![x] = After(x, l)]
  BY DEF PushLogBuffer
<1>2. After(x, l) \in {"swap", "stop"} \X Logs
  BY AfterIsNoPush
<1>3. pc'[x] # <<"push", k>>
  BY <1>1, <1>2 DEF TypeOK
<1>4. Held(x, k) = IF k = l THEN held[x] ELSE <<>>
  BY <1>1 DEF Held
<1>5. Held(x, k)' = <<>>
  BY <1>3 DEF Held
<1>6. ASSUME NEW y \in Contexts \ {x} PROVE Held(y, k)' = Held(y, k)
  BY <1>1 DEF Held, TypeOK
<1> QED
  BY <1>4, <1>5, <1>6

LEMMA SwapBufferPlaced ==
    ASSUME TypeOK, PcInv, PlaceInv, NEW x \in Contexts, NEW l \in Logs, SwapBuffer(x, l)
    PROVE  PlaceInv'
<1> SUFFICES ASSUME NEW k \in Logs
             PROVE  Placed(Trail(k), logged[k], interrupted = "nobody")'
  BY DEF PlaceInv
<1> DEFINE w == LinesOf(written[k])
           t == tmp[k]
           q == FlattenSeq(queue[k])
           a == Held("timer", k)
           h == Held("handler", k)
           b == buffer[k]
           c == Trail(k)
<1>1. AllLines(w, t, q, a, h, b)
  BY PieceTypes DEF AllLines
<1>2. c = Chain(w, t, q, a, h, b)
  BY DEF Trail, Chain
<1>3. Placed(c, logged[k], interrupted = "nobody")
  BY DEF PlaceInv
<1>4. /\ pc[x] = <<"swap", l>>
      /\ buffer' = [buffer EXCEPT ![l] = <<>>]
      /\ UNCHANGED <<logged, queue, tmp, written, interrupted>>
  BY DEF SwapBuffer, writerVars, signalVars
<1>5. Trail(k)' = Chain(w, t, q, Held("timer", k)', Held("handler", k)', buffer'[k])
  BY <1>4 DEF Trail, Chain, LinesOf
<1>6. /\ Held(x, k) = <<>>
      /\ Held(x, k)' = IF k = l THEN buffer[l] ELSE <<>>
      /\ \A y \in Contexts \ {x} : Held(y, k)' = Held(y, k)
  BY SwapHeld
<1>7. x \in {"timer", "handler"} /\ "timer" \in Contexts /\ "handler" \in Contexts
  BY DEF Contexts
<1>8. CASE k # l
  <2>1. buffer'[k] = b
    BY <1>4, <1>8 DEF TypeOK
  <2>2. Held("timer", k)' = a /\ Held("handler", k)' = h
    BY <1>6, <1>7, <1>8
  <2>3. Trail(k)' = c
    BY <1>2, <1>5, <2>1, <2>2
  <2> QED
    BY <1>3, <1>4, <2>3 DEF Placed
<1>9. CASE k = l
  <2>1. buffer'[k] = <<>>
    BY <1>4, <1>9 DEF TypeOK
  <2>2. CASE x = "timer"
    <3>1. a = <<>> /\ Held("timer", k)' = b /\ Held("handler", k)' = h
      BY <1>6, <1>7, <1>9, <2>2
    <3>2. c = Chain(w, t, q, <<>>, h, b) /\ Trail(k)' = Chain(w, t, q, b, h, <<>>)
      BY <1>2, <1>5, <2>1, <3>1
    <3>3. interrupted = "nobody" => h = <<>>
      BY DEF PcInv, Held
    <3> HIDE DEF w, t, q, a, h, b, c
    <3>4. h = <<>> => Chain(w, t, q, b, h, <<>>) = Chain(w, t, q, <<>>, h, b)
      BY <1>1, ChainMoves
    <3>5. SameLines(Trail(k)', c)
      BY <1>1, <3>2, ChainRecounts
    <3> QED
      BY <1>3, <1>4, <3>2, <3>3, <3>4, <3>5 DEF Placed, SameLines
  <2>3. CASE x = "handler"
    <3>1. h = <<>> /\ Held("handler", k)' = b /\ Held("timer", k)' = a
      BY <1>6, <1>7, <1>9, <2>3
    <3>2. c = Chain(w, t, q, a, <<>>, b) /\ Trail(k)' = Chain(w, t, q, a, b, <<>>)
      BY <1>2, <1>5, <2>1, <3>1
    <3>3. interrupted # "nobody"
      BY <1>4, <2>3 DEF PcInv
    <3> HIDE DEF w, t, q, a, h, b, c
    <3>5. SameLines(Trail(k)', c)
      BY <1>1, <3>2, ChainRecounts
    <3> QED
      BY <1>3, <1>4, <3>3, <3>5 DEF Placed, SameLines
  <2> QED
    BY <1>7, <2>2, <2>3
<1> QED
  BY <1>8, <1>9

LEMMA PushLogBufferPlaced ==
    ASSUME TypeOK, PcInv, PlaceInv, NEW x \in Contexts, NEW l \in Logs, PushLogBuffer(x, l)
    PROVE  PlaceInv'
<1> SUFFICES ASSUME NEW k \in Logs
             PROVE  Placed(Trail(k), logged[k], interrupted = "nobody")'
  BY DEF PlaceInv
<1> DEFINE w == LinesOf(written[k])
           t == tmp[k]
           q == FlattenSeq(queue[k])
           a == Held("timer", k)
           h == Held("handler", k)
           b == buffer[k]
           c == Trail(k)
<1>1. AllLines(w, t, q, a, h, b)
  BY PieceTypes DEF AllLines
<1>2. c = Chain(w, t, q, a, h, b)
  BY DEF Trail, Chain
<1>3. Placed(c, logged[k], interrupted = "nobody")
  BY DEF PlaceInv
<1>4. /\ pc[x] = <<"push", l>>
      /\ queue' = [queue EXCEPT ![l] = Append(@, held[x])]
      /\ UNCHANGED <<logged, buffer, tmp, written, interrupted>>
  BY DEF PushLogBuffer, loggerVars, writerVars, signalVars
<1>5. Trail(k)' = Chain(w, t, FlattenSeq(queue'[k]), Held("timer", k)', Held("handler", k)', b)
  BY <1>4 DEF Trail, Chain, LinesOf
<1>6. /\ Held(x, k) = IF k = l THEN held[x] ELSE <<>>
      /\ Held(x, k)' = <<>>
      /\ \A y \in Contexts \ {x} : Held(y, k)' = Held(y, k)
  BY PushHeld
<1>7. x \in {"timer", "handler"} /\ "timer" \in Contexts /\ "handler" \in Contexts
  BY DEF Contexts
<1>8. CASE k # l
  <2>1. queue'[k] = queue[k]
    BY <1>4, <1>8 DEF TypeOK
  <2>2. Held("timer", k)' = a /\ Held("handler", k)' = h
    BY <1>6, <1>7, <1>8
  <2>3. Trail(k)' = c
    BY <1>2, <1>5, <2>1, <2>2
  <2> QED
    BY <1>3, <1>4, <2>3 DEF Placed
<1>9. CASE k = l
  <2>1. FlattenSeq(queue'[k]) = q \o Held(x, k)
    <3>1. queue'[k] = Append(queue[k], held[x]) /\ Held(x, k) = held[x]
      BY <1>4, <1>6, <1>9 DEF TypeOK
    <3>2. queue[k] \in Seq(Seq(Nat)) /\ held[x] \in Seq(Nat)
      BY PieceTypes DEF TypeOK, Lines
    <3> QED
      BY <3>1, <3>2, FlattenAppend
  <2>2. CASE x = "timer"
    <3>1. Trail(k)' = Chain(w, t, q \o a, <<>>, h, b)
      BY <1>5, <1>6, <1>7, <2>1, <2>2
    <3> HIDE DEF w, t, q, a, h, b, c
    <3>2. Trail(k)' = c
      BY <1>1, <1>2, <3>1, ChainMoves
    <3> QED
      BY <1>3, <1>4, <3>2 DEF Placed
  <2>3. CASE x = "handler"
    <3>1. Trail(k)' = Chain(w, t, q \o h, a, <<>>, b)
      BY <1>5, <1>6, <1>7, <2>1, <2>3
    <3>2. interrupted # "nobody"
      BY <1>4, <2>3 DEF PcInv
    <3> HIDE DEF w, t, q, a, h, b, c
    <3>3. SameLines(Trail(k)', c)
      BY <1>1, <1>2, <3>1, ChainRecounts
    <3> QED
      BY <1>3, <1>4, <3>2, <3>3 DEF Placed, SameLines
  <2> QED
    BY <1>7, <2>2, <2>3
<1> QED
  BY <1>8, <1>9

LEMMA TakeBatchPlaced ==
    ASSUME TypeOK, WriterInv, PlaceInv, NEW l \in Logs, TakeBatch(l)
    PROVE  PlaceInv'
<1> SUFFICES ASSUME NEW k \in Logs
             PROVE  Placed(Trail(k), logged[k], interrupted = "nobody")'
  BY DEF PlaceInv
<1> DEFINE w == LinesOf(written[k])
           t == Head(queue[k])
           q == FlattenSeq(Tail(queue[k]))
           a == Held("timer", k)
           h == Held("handler", k)
           b == buffer[k]
           c == Trail(k)
<1>1. /\ w \in Lines /\ a \in Lines /\ h \in Lines /\ b \in Lines /\ queue[k] \in Seq(Seq(Nat))
  BY PieceTypes
<1>2. c = Chain(w, tmp[k], FlattenSeq(queue[k]), a, h, b)
  BY DEF Trail, Chain
<1>3. Placed(c, logged[k], interrupted = "nobody")
  BY DEF PlaceInv
<1>4. /\ writer[l] # "write" /\ queue[l] # <<>>
      /\ tmp' = [tmp EXCEPT ![l] = Head(queue[l])]
      /\ queue' = [queue EXCEPT ![l] = Tail(@)]
      /\ UNCHANGED <<logged, buffer, pc, held, written, interrupted>>
  BY DEF TakeBatch, loggerVars, syncVars, signalVars
<1>5. Trail(k)' = Chain(w, tmp'[k], FlattenSeq(queue'[k]), a, h, b)
  <2>1. Held("timer", k)' = a /\ Held("handler", k)' = h
    BY <1>4, HeldStays
  <2> QED
    BY <1>4, <2>1 DEF Trail, Chain, LinesOf
<1>6. CASE k # l
  <2>1. tmp'[k] = tmp[k] /\ queue'[k] = queue[k]
    BY <1>4, <1>6 DEF TypeOK
  <2>2. Trail(k)' = c
    BY <1>2, <1>5, <2>1
  <2> QED
    BY <1>3, <1>4, <2>2 DEF Placed
<1>7. CASE k = l
  <2>1. tmp[k] = <<>> /\ tmp'[k] = t /\ FlattenSeq(queue'[k]) = q
    BY <1>4, <1>7 DEF TypeOK, WriterInv
  <2>2. FlattenSeq(queue[k]) = t \o q
    BY <1>1, <1>4, <1>7, FlattenTail
  <2>3. AllLines(w, t, q, a, h, b)
    <3>1. t \in Lines /\ Tail(queue[k]) \in Seq(Seq(Nat))
      BY <1>1, <1>4, <1>7, HeadTailProperties DEF Lines
    <3>2. q \in Lines
      BY <3>1, FlattenType DEF Lines
    <3> QED
      BY <1>1, <3>1, <3>2 DEF AllLines
  <2>4. c = Chain(w, <<>>, t \o q, a, h, b) /\ Trail(k)' = Chain(w, t, q, a, h, b)
    BY <1>2, <1>5, <2>1, <2>2
  <2> HIDE DEF w, t, q, a, h, b, c
  <2>5. Trail(k)' = c
    BY <2>3, <2>4, ChainMoves
  <2> QED
    BY <1>3, <1>4, <2>5 DEF Placed
<1> QED
  BY <1>6, <1>7

LEMMA WriteBatchPlaced ==
    ASSUME TypeOK, PlaceInv, NEW l \in Logs, WriteBatch(l)
    PROVE  PlaceInv'
<1> SUFFICES ASSUME NEW k \in Logs
             PROVE  Placed(Trail(k), logged[k], interrupted = "nobody")'
  BY DEF PlaceInv
<1> DEFINE w == LinesOf(written[k])
           t == tmp[k]
           q == FlattenSeq(queue[k])
           a == Held("timer", k)
           h == Held("handler", k)
           b == buffer[k]
           c == Trail(k)
<1>1. AllLines(w, t, q, a, h, b)
  BY PieceTypes DEF AllLines
<1>2. c = Chain(w, t, q, a, h, b)
  BY DEF Trail, Chain
<1>3. Placed(c, logged[k], interrupted = "nobody")
  BY DEF PlaceInv
<1> DEFINE batch == [name |-> NextFile(l).open, lines |-> tmp[l]]
<1>4. /\ written' = [written EXCEPT ![l] = Append(@, batch)]
      /\ tmp' = [tmp EXCEPT ![l] = <<>>]
      /\ UNCHANGED <<logged, buffer, pc, held, queue, interrupted>>
  <2>1. file'[l] = NextFile(l)
    BY DEF WriteBatch, TypeOK
  <2> QED
    BY <2>1 DEF WriteBatch, loggerVars, syncVars, signalVars
<1>5. batch \in Batch
  BY NextFileType DEF Batch, TypeOK
<1>6. Trail(k)' = Chain(LinesOf(written'[k]), tmp'[k], q, a, h, b)
  <2>1. Held("timer", k)' = a /\ Held("handler", k)' = h
    BY <1>4, HeldStays
  <2> QED
    BY <1>4, <2>1 DEF Trail, Chain, LinesOf
<1>7. CASE k # l
  <2>1. tmp'[k] = t /\ written'[k] = written[k]
    BY <1>4, <1>7 DEF TypeOK
  <2>2. Trail(k)' = c
    BY <1>2, <1>6, <2>1
  <2> QED
    BY <1>3, <1>4, <2>2 DEF Placed
<1>8. CASE k = l
  <2>1. tmp'[k] = <<>> /\ written'[k] = Append(written[k], batch) /\ batch.lines = t
    BY <1>4, <1>8 DEF TypeOK
  <2>2. LinesOf(written'[k]) = w \o t
    <3> HIDE DEF batch
    <3> QED
      BY <1>5, <2>1, PieceTypes, LinesAppend
  <2>3. Trail(k)' = Chain(w \o t, <<>>, q, a, h, b)
    BY <1>6, <2>1, <2>2
  <2> HIDE DEF w, t, q, a, h, b, c
  <2>4. Trail(k)' = c
    BY <1>1, <1>2, <2>3, ChainMoves
  <2> QED
    BY <1>3, <1>4, <2>4 DEF Placed
<1> QED
  BY <1>7, <1>8

LEMMA PlaceInit ==
    ASSUME Init
    PROVE  PlaceInv
<1> SUFFICES ASSUME NEW l \in Logs PROVE Placed(Trail(l), logged[l], interrupted = "nobody")
  BY DEF PlaceInv
<1>1. /\ written[l] = <<>> /\ tmp[l] = <<>> /\ queue[l] = <<>> /\ buffer[l] = <<>> /\ logged[l] = 0
      /\ Held("timer", l) = <<>> /\ Held("handler", l) = <<>>
  BY DEF Init, Held, Contexts
<1>2. LinesOf(written[l]) = <<>> /\ FlattenSeq(queue[l]) = <<>>
  BY <1>1, LinesOfNone, FlattenEmpty
<1>3. <<>> \o <<>> = <<>>
  OBVIOUS
<1>4. Trail(l) = <<>>
  BY <1>1, <1>2, <1>3 DEF Trail
<1>5. <<>> = [i \in 1..0 |-> i]
  OBVIOUS
<1> QED
  BY <1>1, <1>4, <1>5, SetOfEmpty DEF Placed

LEMMA PlaceNext ==
    ASSUME TypeOK, PcInv, WriterInv, PlaceInv, [Next]_vars
    PROVE  PlaceInv'
<1>1. ASSUME UNCHANGED <<logged, buffer, queue, tmp, written, pc, held, interrupted>>
      PROVE  PlaceInv'
  <2>1. \A k \in Logs : Held("timer", k)' = Held("timer", k)
                        /\ Held("handler", k)' = Held("handler", k)
    BY <1>1, HeldStays
  <2> QED
    BY <1>1, <2>1, Steady
<1>2. CASE UNCHANGED vars
  BY <1>1, <1>2 DEF vars, loggerVars, syncVars, writerVars, signalVars
<1>3. ASSUME NEW t \in Threads, NEW l \in Logs, PushLog(t, l) PROVE PlaceInv'
  <2>1. AppendLine(l) /\ UNCHANGED <<queue, tmp, written, interrupted, pc, held>>
    BY <1>3 DEF PushLog, syncVars, writerVars, signalVars
  <2>2. \A k \in Logs : Held("timer", k)' = Held("timer", k)
                        /\ Held("handler", k)' = Held("handler", k)
    BY <2>1, HeldStays
  <2> QED
    BY <2>1, <2>2, AppendLinePlaced
<1>4. ASSUME NEW x \in Contexts, NEW l \in Logs, SwapBuffer(x, l) \/ PushLogBuffer(x, l)
      PROVE  PlaceInv'
  BY <1>4, SwapBufferPlaced, PushLogBufferPlaced
<1>5. ASSUME NEW l \in Logs, TakeBatch(l) \/ WriteBatch(l) \/ CheckStop(l) PROVE PlaceInv'
  <2>1. CASE CheckStop(l)
    BY <1>1, <2>1 DEF CheckStop, loggerVars, syncVars, signalVars
  <2> QED
    BY <1>5, <2>1, TakeBatchPlaced, WriteBatchPlaced
\* The steps of the handler that only move on.
<1>6. ASSUME NEW from, from # "push", NEW of, pc["handler"] = <<from, of>>,
             NEW step, step # "push", NEW about,
             pc' = [pc EXCEPT !["handler"] = <<step, about>>],
             UNCHANGED <<logged, buffer, queue, tmp, written, held>>,
             interrupted' = "nobody" => interrupted = "nobody"
      PROVE  PlaceInv'
  <2>1. \A k \in Logs : Held("timer", k)' = Held("timer", k)
                        /\ Held("handler", k)' = Held("handler", k)
    BY <1>6, HandlerHeld
  <2> QED
    BY <1>6, <2>1, Steady
<1>7. ASSUME NEW t \in Threads \cup Logs, Signal(t) PROVE PlaceInv'
  <2>1. PICK about : pc["handler"] = <<"off", about>>
    BY <1>7 DEF Signal, TypeOK, Contexts
  <2>2. interrupted' # "nobody"
    BY <1>7, LoggerAssumption DEF Signal, Logs
  <2>3. /\ pc' = [pc EXCEPT !["handler"] = <<"log", "rpc">>]
        /\ UNCHANGED <<logged, buffer, queue, tmp, written, held>>
    BY <1>7 DEF Signal, loggerVars, writerVars
  <2> QED
    BY <1>6, <2>1, <2>2, <2>3
<1>8. CASE HandlerLog
  <2>1. /\ AppendLine("rpc") /\ "rpc" \in Logs
        /\ pc["handler"] = <<"log", "rpc">> /\ pc' = [pc EXCEPT !["handler"] = <<"swap", "rpc">>]
        /\ UNCHANGED <<queue, tmp, written, interrupted, held>>
    BY <1>8 DEF HandlerLog, HandlerGoes, writerVars, signalVars, Logs
  <2>2. \A k \in Logs : Held("timer", k)' = Held("timer", k)
                        /\ Held("handler", k)' = Held("handler", k)
    BY <2>1, HandlerHeld
  <2> QED
    BY <2>1, <2>2, AppendLinePlaced
<1>9. ASSUME NEW l \in Logs, HandlerStop(l) \/ HandlerFlush(l) \/ HandlerJoin(l) PROVE PlaceInv'
  <2>1. UNCHANGED <<logged, buffer, queue, tmp, written, held, interrupted>>
    BY <1>9 DEF HandlerStop, HandlerFlush, HandlerJoin, loggerVars, writerVars, signalVars
  <2>2. CASE HandlerStop(l)
    <3>1. pc["handler"] = <<"stop", l>> /\ pc' = [pc EXCEPT !["handler"] = <<"flush", l>>]
      BY <2>2 DEF HandlerStop, HandlerGoes
    <3> QED
      BY <1>6, <2>1, <3>1
  <2>3. CASE HandlerFlush(l)
    <3>1. pc["handler"] = <<"flush", l>>
      BY <2>3 DEF HandlerFlush
    <3>2. CASE l = "rpc"
      <4>1. pc' = [pc EXCEPT !["handler"] = <<"stop", "app">>]
        BY <2>3, <3>2 DEF HandlerFlush, HandlerGoes
      <4> QED
        BY <1>6, <2>1, <3>1, <4>1
    <3>3. CASE l # "rpc"
      <4>1. pc' = [pc EXCEPT !["handler"] = <<"join", "rpc">>]
        BY <2>3, <3>3 DEF HandlerFlush, HandlerGoes
      <4> QED
        BY <1>6, <2>1, <3>1, <4>1
    <3> QED
      BY <3>2, <3>3
  <2>4. CASE HandlerJoin(l)
    <3>1. CASE l = "rpc"
      <4>1. pc["handler"] = <<"join", l>> /\ pc' = [pc EXCEPT !["handler"] = <<"join", "app">>]
        BY <2>4, <3>1 DEF HandlerJoin, HandlerGoes
      <4> QED
        BY <1>6, <2>1, <4>1
    <3>2. CASE l # "rpc"
      BY <1>1, <2>1, <2>4, <3>2 DEF HandlerJoin
    <3> QED
      BY <3>1, <3>2
  <2> QED
    BY <1>9, <2>2, <2>3, <2>4
<1>10. CASE NewDay
  BY <1>1, <1>10 DEF NewDay, loggerVars, syncVars, writerVars, signalVars
<1>11. CASE Next
  BY <1>3, <1>4, <1>5, <1>7, <1>8, <1>9, <1>10, <1>11, NextSteps
<1> QED
  BY <1>2, <1>11

-----------------------------------------------------------------------------

LoggerInv == TypeOK /\ PcInv /\ WriterInv /\ PlaceInv /\ FileInv

LEMMA LoggerInit == Init => LoggerInv
<1> SUFFICES ASSUME Init PROVE LoggerInv
  OBVIOUS
<1>1. TypeOK /\ PcInv /\ WriterInv
  BY PlacesInit
<1>2. FileInv
  <2> SUFFICES ASSUME NEW l \in Logs PROVE Filed(file[l], written[l], today)
    BY DEF FileInv
  <2>1. file[l] = [open |-> NoFile, no |-> 0, date |-> 0] /\ written[l] = <<>> /\ today \in Nat
    BY DEF Init
  <2> QED
    BY <2>1, FiledInit
<1> QED
  BY <1>1, <1>2, PlaceInit DEF LoggerInv

LEMMA LoggerNext == LoggerInv /\ [Next]_vars => LoggerInv'
BY PlacesNext, PlaceNext, FileNext DEF LoggerInv

LEMMA LoggerReaches == LoggerInv => LinesReachFiles
<1> SUFFICES ASSUME LoggerInv, NEW l \in Logs
             PROVE  InOnePlace(l) /\ (interrupted = "nobody" => InOrder(l)) /\ FilesBounded(l)
  BY DEF LinesReachFiles
<1>1. Placed(Trail(l), logged[l], interrupted = "nobody")
  BY DEF LoggerInv, PlaceInv
<1>2. InOnePlace(l) /\ (interrupted = "nobody" => InOrder(l))
  BY <1>1 DEF Placed, InOnePlace, InOrder
<1>3. \A n \in Names : Without(BatchesIn(written[l], n), 2) <= MaxFileSize
  BY DEF LoggerInv, FileInv, Filed
<1>4. ASSUME NEW b \in ToSet(written[l])
      PROVE  Without(BatchesIn(written[l], b.name), 2) <= MaxFileSize
  <2>1. written[l] \in Seq(Batch)
    BY DEF LoggerInv, TypeOK, Batch
  <2>2. b \in Batch
    BY <1>4, <2>1, LenProperties, ElementOfSeq DEF ToSet
  <2>3. b.name \in Names
    BY <2>2 DEF Batch
  <2> QED
    BY <1>3, <2>3
<1>5. FilesBounded(l)
  BY <1>4 DEF FilesBounded, Without
<1> QED
  BY <1>2, <1>5

\* Between pushLog, the timer's syncLoop and the thread of AsyncLogger::Loop no line is
\* lost or repeated, and until a signal comes none is overtaken; every file changes hands
\* at the second batch after it is full, however many lines and days there are (log.cc:73,
\* 195 and 258).
THEOREM LinesAreKept == Spec => []LinesReachFiles
<1>1. Init => LoggerInv
  BY LoggerInit
<1>2. LoggerInv /\ [Next]_vars => LoggerInv'
  BY LoggerNext
<1>3. LoggerInv => LinesReachFiles
  BY LoggerReaches
<1> QED
  BY <1>1, <1>2, <1>3, PTL DEF Spec
=============================================================================
