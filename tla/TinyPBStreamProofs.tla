-------------------------- MODULE TinyPBStreamProofs --------------------------
(***************************************************************************)
(* Proofs, for buffers and frames of every size and any number of          *)
(* messages: that the operations of TcpBuffer keep the indices within the  *)
(* array and the readable bytes in order; of the type invariant of         *)
(* TinyPBStream; of the order in which bytes pass the two buffers; and     *)
(* that what decode hands out is what encode has put in.                   *)
(***************************************************************************)
EXTENDS TinyPBStream, FiniteSetTheorems, SequenceTheorems, TLAPS

-----------------------------------------------------------------------------
(* TcpBuffer.                                                              *)

LEMMA BufferFields ==
    ASSUME NEW b, IsBuffer(b)
    PROVE  /\ b.size \in Nat
           /\ b.data \in [0..(b.size - 1) -> Bytes]
           /\ b.r \in Nat
           /\ b.w \in Nat
           /\ b.r <= b.w
           /\ b.w <= b.size
           /\ b = [size |-> b.size, data |-> b.data, r |-> b.r, w |-> b.w]
  BY DEF IsBuffer, Buffers

LEMMA SetIndices ==
    ASSUME NEW b, IsBuffer(b), NEW i
    PROVE  /\ [b EXCEPT !.r = i] = [size |-> b.size, data |-> b.data, r |-> i, w |-> b.w]
           /\ [b EXCEPT !.w = i] = [size |-> b.size, data |-> b.data, r |-> b.r, w |-> i]
           /\ [b EXCEPT !.data = i] = [size |-> b.size, data |-> i, r |-> b.r, w |-> b.w]
<1>1. PICK sz, d, r, w : b = [size |-> sz, data |-> d, r |-> r, w |-> w]
  BY BufferFields
<1> QED
  BY <1>1

LEMMA ContentsType ==
    ASSUME NEW b, IsBuffer(b)
    PROVE  /\ Contents(b) \in Seq(Bytes)
           /\ Len(Contents(b)) = b.w - b.r
           /\ \A k \in 1..(b.w - b.r) : Contents(b)[k] = b.data[b.r + k - 1]
<1>1. b.w - b.r \in Nat
  BY BufferFields
<1>2. \A k \in 1..(b.w - b.r) : b.r + k - 1 \in 0..(b.size - 1)
  BY BufferFields
<1>3. \A k \in 1..(b.w - b.r) : b.data[b.r + k - 1] \in Bytes
  BY <1>2, BufferFields
<1>4. Contents(b) \in [1..(b.w - b.r) -> Bytes]
  BY <1>3 DEF Contents, ReadAble
<1> QED
  BY <1>1, <1>4 DEF Contents, ReadAble

\* resizeBuffer to a size that holds what is readable keeps it.
LEMMA ResizeKeepsContents ==
    ASSUME NEW b, IsBuffer(b), NEW n \in Nat, b.w - b.r <= n
    PROVE  LET c == ResizeBuffer(b, n)
           IN  /\ IsBuffer(c)
               /\ c.size = n
               /\ c.r = 0
               /\ c.w = b.w - b.r
               /\ Contents(c) = Contents(b)
<1> DEFINE c == ResizeBuffer(b, n)
           d == [k \in 0..(n - 1) |-> IF k < b.w - b.r THEN b.data[b.r + k] ELSE 0]
<1> DEFINE count == IF n < ReadAble(b) THEN n ELSE ReadAble(b)
<1>1. c = [size |-> n, data |-> d, r |-> 0, w |-> b.w - b.r]
  <2>1. count = b.w - b.r
    BY BufferFields DEF ReadAble
  <2> HIDE DEF count
  <2>2. c = [size |-> n,
             data |-> [k \in 0..(n - 1) |-> IF k < count THEN b.data[b.r + k] ELSE 0],
             r |-> 0,
             w |-> count]
    BY DEF ResizeBuffer, count
  <2> QED
    BY <2>1, <2>2
<1>2. ASSUME NEW k \in 0..(n - 1) PROVE (IF k < b.w - b.r THEN b.data[b.r + k] ELSE 0) \in Bytes
  <2>1. CASE k < b.w - b.r
    <3>1. b.r + k \in 0..(b.size - 1)
      BY <2>1, BufferFields
    <3> QED
      BY <2>1, <3>1, BufferFields
  <2>2. CASE ~(k < b.w - b.r)
    BY <2>2 DEF Bytes
  <2> QED
    BY <2>1, <2>2
<1>3. d \in [0..(n - 1) -> Bytes]
  BY <1>2
<1>4. IsBuffer(c)
  BY <1>1, <1>3, BufferFields DEF IsBuffer, Buffers
<1>5. Contents(c) = Contents(b)
  <2>1. Len(Contents(c)) = Len(Contents(b))
    BY <1>1, <1>4, ContentsType, BufferFields
  <2>2. ASSUME NEW k \in 1..(b.w - b.r) PROVE Contents(c)[k] = Contents(b)[k]
    <3>1. k - 1 \in 0..(n - 1) /\ k - 1 < b.w - b.r
      BY BufferFields
    <3>2. d[k - 1] = b.data[b.r + k - 1]
      <4>1. d[k - 1] = b.data[b.r + (k - 1)]
        BY <3>1
      <4> QED
        BY <4>1, BufferFields
    <3>3. Contents(c)[k] = c.data[c.r + k - 1]
      BY <1>1, <1>4, ContentsType, BufferFields, SMTT(60)
    <3> QED
      BY <1>1, <3>2, <3>3, ContentsType
  <2> QED
    BY <1>4, <2>1, <2>2, ContentsType, SeqEqual
<1> QED
  BY <1>1, <1>4, <1>5

\* adjustBuffer, whether or not it moves the bytes, keeps them.
LEMMA AdjustKeepsContents ==
    ASSUME NEW b, IsBuffer(b)
    PROVE  LET c == AdjustBuffer(b)
           IN  /\ IsBuffer(c)
               /\ c.size = b.size
               /\ c.w <= b.w
               /\ Contents(c) = Contents(b)
<1>1. b.w - b.r <= b.size
  BY BufferFields
<1>2. CASE b.r < b.size \div 3
  BY <1>2, BufferFields DEF AdjustBuffer
<1>3. CASE ~(b.r < b.size \div 3)
  BY <1>1, <1>3, BufferFields, ResizeKeepsContents DEF AdjustBuffer
<1> QED
  BY <1>2, <1>3

\* moveReadIndex, back or forth, keeps the indices in order and in the array.
LEMMA MoveReadIsBuffer ==
    ASSUME NEW b, IsBuffer(b), NEW n \in Int, n <= b.w - b.r, b.w < b.size
    PROVE  LET c == MoveReadIndex(b, n)
           IN  IsBuffer(c) /\ c.size = b.size /\ c.w <= b.w
<1> DEFINE m == [b EXCEPT !.r = @ + n]
<1>1. CASE b.r + n \notin 0..(b.size - 1)
  BY <1>1, BufferFields DEF MoveReadIndex
<1>2. CASE b.r + n \in 0..(b.size - 1)
  <2>1. m = [size |-> b.size, data |-> b.data, r |-> b.r + n, w |-> b.w]
    BY SetIndices
  <2>2. b.r + n \in Nat /\ b.r + n <= b.w
    BY <1>2, BufferFields
  <2>3. IsBuffer(m)
    <3>1. b.r + n \in 0..b.size /\ b.w \in 0..b.size
      BY <2>2, BufferFields
    <3> QED
      BY <2>1, <2>2, <3>1, BufferFields DEF IsBuffer, Buffers
  <2>4. MoveReadIndex(b, n) = AdjustBuffer(m)
    BY <1>2 DEF MoveReadIndex
  <2> HIDE DEF m
  <2> QED
    BY <2>1, <2>3, <2>4, AdjustKeepsContents
<1> QED
  BY <1>1, <1>2

\* moveReadIndex over bytes that are readable takes them off the front.
THEOREM MoveReadTakesPrefix ==
    ASSUME NEW b, IsBuffer(b), NEW n \in 0..(b.w - b.r), b.w < b.size
    PROVE  LET c == MoveReadIndex(b, n)
           IN  /\ IsBuffer(c)
               /\ c.size = b.size
               /\ c.w <= b.w
               /\ Contents(c) = SubSeq(Contents(b), n + 1, Len(Contents(b)))
<1> DEFINE m == [b EXCEPT !.r = @ + n]
           rest == SubSeq(Contents(b), n + 1, Len(Contents(b)))
<1>1. b.r + n < b.size /\ n \in Nat
  BY BufferFields
<1>2. m = [size |-> b.size, data |-> b.data, r |-> b.r + n, w |-> b.w]
  BY SetIndices
<1>3. IsBuffer(m)
  BY <1>1, <1>2, BufferFields DEF IsBuffer, Buffers
<1>4. Contents(m) = rest
  <2>1. Len(Contents(m)) = b.w - b.r - n
    BY <1>1, <1>2, <1>3, ContentsType, BufferFields
  <2>2. /\ rest \in Seq(Bytes)
        /\ Len(rest) = b.w - b.r - n
        /\ \A k \in 1..(b.w - b.r - n) : rest[k] = Contents(b)[n + k]
    <3> DEFINE c == Contents(b)
    <3>1. c \in Seq(Bytes) /\ Len(c) = b.w - b.r /\ b.w - b.r \in Nat
      BY ContentsType, LenProperties
    <3> HIDE DEF c
    <3>2. \A k \in (n + 1)..Len(c) : c[k] \in Bytes
      BY <1>1, <3>1, ElementOfSeq
    <3> QED
      BY <1>1, <3>1, <3>2, SubSeqProperties DEF c
  <2>3. ASSUME NEW k \in 1..(b.w - b.r - n) PROVE Contents(m)[k] = rest[k]
    <3>1. n + k \in 1..(b.w - b.r) /\ k \in 1..(m.w - m.r)
      BY <1>1, <1>2, BufferFields
    <3>2. Contents(m)[k] = b.data[b.r + n + k - 1]
      BY <1>2, <1>3, <3>1, ContentsType
    <3>3. Contents(b)[n + k] = b.data[b.r + (n + k) - 1]
      BY <3>1, ContentsType
    <3>4. b.r + n + k - 1 = b.r + (n + k) - 1
      BY <1>1, BufferFields
    <3> QED
      BY <2>2, <3>2, <3>3, <3>4
  <2> QED
    BY <1>3, <2>1, <2>2, <2>3, ContentsType, SeqEqual
<1>5. MoveReadIndex(b, n) = AdjustBuffer(m)
  BY <1>1, BufferFields DEF MoveReadIndex
<1> HIDE DEF m, rest
<1> QED
  BY <1>2, <1>3, <1>4, <1>5, AdjustKeepsContents DEF rest

\* Bytes put behind the readable ones and taken into the write index are
\* appended to them.
LEMMA PutAppends ==
    ASSUME NEW b, IsBuffer(b), NEW s \in Seq(Bytes), b.w + Len(s) <= b.size
    PROVE  LET c == [Put(b, b.w, s) EXCEPT !.w = @ + Len(s)]
           IN  /\ IsBuffer(c)
               /\ c.size = b.size
               /\ c.w = b.w + Len(s)
               /\ Contents(c) = Contents(b) \o s
<1> DEFINE len == Len(s)
           put == Put(b, b.w, s)
           c == [put EXCEPT !.w = @ + len]
           d == [k \in 0..(b.size - 1) |-> IF k \in b.w..(b.w + len - 1)
                                            THEN s[k - b.w + 1]
                                            ELSE b.data[k]]
<1>1. len \in Nat /\ s \in [1..len -> Bytes]
  BY LenProperties
<1>2. put = [size |-> b.size, data |-> d, r |-> b.r, w |-> b.w]
  <2>1. DOMAIN b.data = 0..(b.size - 1)
    BY BufferFields
  <2>2. [b EXCEPT !.data = d] = [size |-> b.size, data |-> d, r |-> b.r, w |-> b.w]
    BY SetIndices
  <2>3. put = [b EXCEPT !.data = d]
    BY <2>1, BufferFields DEF Put
  <2> QED
    BY <2>2, <2>3
<1>3. c = [size |-> b.size, data |-> d, r |-> b.r, w |-> b.w + len]
  <2> HIDE DEF put, d
  <2> QED
    BY <1>2
<1>4. d \in [0..(b.size - 1) -> Bytes]
  <2>1. ASSUME NEW k \in 0..(b.size - 1)
        PROVE  (IF k \in b.w..(b.w + len - 1) THEN s[k - b.w + 1] ELSE b.data[k]) \in Bytes
    <3>1. CASE k \in b.w..(b.w + len - 1)
      <4>1. k - b.w + 1 \in 1..len
        BY <1>1, <3>1, BufferFields
      <4> QED
        BY <1>1, <3>1, <4>1
    <3>2. CASE k \notin b.w..(b.w + len - 1)
      BY <3>2, BufferFields
    <3> QED
      BY <3>1, <3>2
  <2> QED
    BY <2>1
<1> HIDE DEF put, c, d
<1>5. IsBuffer(c)
  BY <1>1, <1>3, <1>4, BufferFields DEF IsBuffer, Buffers
<1>6. Contents(c) = Contents(b) \o s
  <2> DEFINE both == Contents(b) \o s
  <2>1. /\ both \in Seq(Bytes)
        /\ Len(both) = b.w - b.r + len
        /\ \A k \in 1..(b.w - b.r + len) :
              both[k] = IF k <= b.w - b.r THEN Contents(b)[k] ELSE s[k - (b.w - b.r)]
    <3>1. Contents(b) \in Seq(Bytes) /\ Len(Contents(b)) = b.w - b.r
      BY ContentsType
    <3>2. /\ both \in Seq(Bytes)
          /\ Len(both) = Len(Contents(b)) + len
          /\ \A k \in 1..(Len(Contents(b)) + len) :
                both[k] = IF k <= Len(Contents(b))
                            THEN Contents(b)[k]
                            ELSE s[k - Len(Contents(b))]
      BY <3>1, ConcatProperties
    <3> HIDE DEF both
    <3> QED
      BY <3>1, <3>2
  <2>2. /\ Contents(c) \in Seq(Bytes)
        /\ Len(Contents(c)) = b.w - b.r + len
    BY <1>1, <1>3, <1>5, ContentsType, BufferFields
  <2>3. ASSUME NEW k \in 1..(b.w - b.r + len) PROVE Contents(c)[k] = both[k]
    <3>1. /\ k \in 1..(c.w - c.r)
          /\ b.r + k - 1 \in 0..(b.size - 1)
      BY <1>1, <1>3, BufferFields
    <3>2. Contents(c)[k] = d[b.r + k - 1]
      BY <1>3, <1>5, <3>1, ContentsType
    <3>3. CASE k <= b.w - b.r
      <4>1. b.r + k - 1 \notin b.w..(b.w + len - 1) /\ k \in 1..(b.w - b.r)
        BY <1>1, <3>3, BufferFields
      <4>2. d[b.r + k - 1] = b.data[b.r + k - 1]
        BY <3>1, <4>1 DEF d
      <4> QED
        BY <2>1, <3>2, <3>3, <4>1, <4>2, ContentsType
    <3>4. CASE ~(k <= b.w - b.r)
      <4>1. /\ b.r + k - 1 \in b.w..(b.w + len - 1)
            /\ (b.r + k - 1) - b.w + 1 = k - (b.w - b.r)
        BY <1>1, <3>4, BufferFields
      <4>2. d[b.r + k - 1] = s[(b.r + k - 1) - b.w + 1]
        BY <3>1, <4>1 DEF d
      <4> QED
        BY <2>1, <3>2, <3>4, <4>1, <4>2
    <3> QED
      BY <3>3, <3>4
  <2> QED
    BY <2>1, <2>2, <2>3, SeqEqual
<1> QED
  BY <1>3, <1>5, <1>6 DEF c, put

LEMMA PutIsBuffer ==
    ASSUME NEW b, IsBuffer(b), NEW s \in Seq(Bytes), b.w + Len(s) <= b.size
    PROVE  LET c == Put(b, b.w, s)
           IN  IsBuffer(c) /\ c.size = b.size /\ c.r = b.r /\ c.w = b.w
<1> DEFINE d == [k \in DOMAIN b.data |-> IF k \in b.w..(b.w + Len(s) - 1)
                                         THEN s[k - b.w + 1]
                                         ELSE b.data[k]]
           c == [size |-> b.size, data |-> d, r |-> b.r, w |-> b.w]
           moved == [c EXCEPT !.w = b.w + Len(s)]
<1>1. Put(b, b.w, s) = c
  BY SetIndices DEF Put
<1> HIDE DEF d
<1>2. IsBuffer(moved)
  BY <1>1, PutAppends
<1>3. d \in [0..(b.size - 1) -> Bytes]
  BY <1>2, BufferFields
<1>4. IsBuffer(c)
  BY <1>3, BufferFields DEF IsBuffer, Buffers
<1> QED
  BY <1>1, <1>4

\* Bytes that leave the array one short of full at least, put behind the readable
\* ones and accepted by moveWriteIndex (tcp_buffer.cc:97-105), are appended.
THEOREM MoveWriteAppends ==
    ASSUME NEW b, IsBuffer(b), NEW s \in Seq(Bytes), b.w + Len(s) < b.size
    PROVE  LET c == MoveWriteIndex(Put(b, b.w, s), Len(s))
           IN  /\ IsBuffer(c)
               /\ c.size = b.size
               /\ c.w < c.size
               /\ Contents(c) = Contents(b) \o s
<1> DEFINE put == Put(b, b.w, s)
           m == [put EXCEPT !.w = @ + Len(s)]
<1>1. Len(s) \in Nat
  BY LenProperties
<1>2. b.w + Len(s) <= b.size
  BY <1>1, BufferFields
<1>3. /\ IsBuffer(m)
      /\ m.size = b.size
      /\ m.w = b.w + Len(s)
      /\ Contents(m) = Contents(b) \o s
  BY <1>2, PutAppends
<1>4. put.size = b.size /\ put.w = b.w
  BY <1>2, PutIsBuffer
<1>5. MoveWriteIndex(put, Len(s)) = AdjustBuffer(m)
  <2> HIDE DEF put
  <2> QED
    BY <1>1, <1>4, BufferFields DEF MoveWriteIndex
<1> HIDE DEF m, put
<1>6. /\ IsBuffer(AdjustBuffer(m))
      /\ AdjustBuffer(m).size = m.size
      /\ AdjustBuffer(m).w <= m.w
      /\ Contents(AdjustBuffer(m)) = Contents(m)
  BY <1>3, AdjustKeepsContents
<1>7. AdjustBuffer(m).w < b.size
  BY <1>1, <1>3, <1>6, BufferFields
<1> QED
  BY <1>3, <1>5, <1>6, <1>7 DEF put

\* moveWriteIndex refuses bytes that fill the array to its end: what was readable
\* is all that is readable.
THEOREM FullReadIsLost ==
    ASSUME NEW b, IsBuffer(b), NEW s \in Seq(Bytes), b.w + Len(s) = b.size
    PROVE  LET c == MoveWriteIndex(Put(b, b.w, s), Len(s))
           IN  IsBuffer(c) /\ c.size = b.size /\ c.r = b.r /\ c.w = b.w
<1> DEFINE put == Put(b, b.w, s)
<1>1. IsBuffer(put) /\ put.size = b.size /\ put.r = b.r /\ put.w = b.w
  BY BufferFields, PutIsBuffer
<1> HIDE DEF put
<1>2. MoveWriteIndex(put, Len(s)) = put
  BY <1>1, BufferFields DEF MoveWriteIndex
<1> QED
  BY <1>1, <1>2 DEF put

\* writeToBuffer, whether or not the array has to grow, appends.
THEOREM WriteAppends ==
    ASSUME NEW b, IsBuffer(b), NEW s \in Seq(Bytes)
    PROVE  LET c == WriteToBuffer(b, s)
           IN  IsBuffer(c) /\ Contents(c) = Contents(b) \o s
<1> DEFINE n == (3 * (b.w + Len(s))) \div 2
           room == IF Len(s) > WriteAble(b) THEN ResizeBuffer(b, n) ELSE b
<1>1. Len(s) \in Nat
  BY LenProperties
<1>2. n \in Nat /\ b.w + Len(s) <= n
  BY <1>1, BufferFields
<1>3. /\ IsBuffer(room)
      /\ room.w + Len(s) <= room.size
      /\ Contents(room) = Contents(b)
  <2>1. CASE Len(s) > WriteAble(b)
    <3> HIDE DEF n
    <3>1. b.w - b.r <= n
      BY <1>1, <1>2, BufferFields
    <3>2. /\ IsBuffer(ResizeBuffer(b, n))
          /\ ResizeBuffer(b, n).size = n
          /\ ResizeBuffer(b, n).w = b.w - b.r
          /\ Contents(ResizeBuffer(b, n)) = Contents(b)
      BY <1>2, <3>1, ResizeKeepsContents
    <3>3. (b.w - b.r) + Len(s) <= n
      BY <1>1, <1>2, BufferFields
    <3> QED
      BY <2>1, <3>2, <3>3
  <2>2. CASE ~(Len(s) > WriteAble(b))
    BY <1>1, <2>2, BufferFields DEF WriteAble
  <2> QED
    BY <2>1, <2>2
<1>4. WriteToBuffer(b, s) = [Put(room, room.w, s) EXCEPT !.w = @ + Len(s)]
  BY DEF WriteToBuffer
<1> HIDE DEF room
<1> QED
  BY <1>3, <1>4, PutAppends

-----------------------------------------------------------------------------
(* TinyPBStream.                                                           *)

LEMMA NewBufferType ==
    ASSUME NEW n \in Nat
    PROVE  /\ IsBuffer(NewBuffer(n))
           /\ NewBuffer(n).size = n
           /\ NewBuffer(n).w = 0
<1>1. [k \in 0..(n - 1) |-> 0] \in [0..(n - 1) -> Bytes]
  BY DEF Bytes
<1> QED
  BY <1>1 DEF NewBuffer, IsBuffer, Buffers

LEMMA Div256 ==
    ASSUME NEW n \in Int
    PROVE  /\ n = (n \div 256) * 256 + (n % 256)
           /\ n \div 256 \in Int
           /\ n % 256 \in Nat /\ n % 256 < 256
BY SMT

\* The four bytes of a length say what it is.
LEMMA NetBytes ==
    ASSUME NEW n \in Nat, n <= MaxInt
    PROVE  /\ \A k \in 1..4 : NetByte(n, k) \in Bytes
           /\ NetByte(n, 1) < 128
           /\ ((NetByte(n, 1) * 256 + NetByte(n, 2)) * 65536) + NetByte(n, 3) * 256
                + NetByte(n, 4) = n
<1> DEFINE q1 == n \div 256
           q2 == n \div 65536
           q3 == n \div 16777216
<1>1. /\ NetByte(n, 1) = q3 % 256
      /\ NetByte(n, 2) = q2 % 256
      /\ NetByte(n, 3) = q1 % 256
      /\ NetByte(n, 4) = (n \div 1) % 256
  BY SMT DEF NetByte
<1>2. n \div 1 = n
  BY SMT
<1>3. q1 \div 256 = q2 /\ q2 \div 256 = q3 /\ q3 < 128 /\ q3 >= 0
  <2>1. q1 \div 256 = q2
    BY SMT
  <2>2. q2 \div 256 = q3
    BY SMT
  <2>3. q3 < 128 /\ q3 >= 0
    BY SMT DEF MaxInt
  <2> QED
    BY <2>1, <2>2, <2>3
<1>4. q1 \in Int /\ q2 \in Int /\ q3 \in Int
  BY SMT
<1> HIDE DEF q1, q2, q3
<1>5. q3 % 256 = q3
  BY <1>3, <1>4, SMT
<1>6. n = q1 * 256 + (n % 256) /\ n % 256 \in Nat /\ n % 256 < 256
  BY Div256 DEF q1
<1>7. q1 = q2 * 256 + (q1 % 256) /\ q1 % 256 \in Nat /\ q1 % 256 < 256
  BY <1>3, <1>4, Div256
<1>8. q2 = q3 * 256 + (q2 % 256) /\ q2 % 256 \in Nat /\ q2 % 256 < 256
  BY <1>3, <1>4, Div256
<1>9. \A k \in 1..4 : NetByte(n, k) \in Bytes
  <2> SUFFICES ASSUME NEW k \in 1..4 PROVE NetByte(n, k) \in Bytes
    OBVIOUS
  <2>1. k = 1 \/ k = 2 \/ k = 3 \/ k = 4
    OBVIOUS
  <2> QED
    BY <1>1, <1>2, <1>3, <1>4, <1>5, <1>6, <1>7, <1>8, <2>1 DEF Bytes
<1>10. NetByte(n, 1) < 128
  BY <1>1, <1>3, <1>5
<1>11. ((q3 * 256 + (q2 % 256)) * 65536) + (q1 % 256) * 256 + (n % 256) = n
  BY <1>4, <1>6, <1>7, <1>8, SMT
<1> QED
  BY <1>1, <1>2, <1>5, <1>9, <1>10, <1>11

\* A frame starts with a PB_START and ends with a PB_END; behind the start is its length.
LEMMA FrameIs ==
    ASSUME NEW f \in Frames
    PROVE  /\ f \in Seq(Bytes)
           /\ Len(f) \in Nat /\ 7 <= Len(f)
           /\ f[1] = 2 /\ f[Len(f)] = 3
           /\ f[2] < 128
           /\ \A k \in 1..4 : f[k + 1] \in Nat
           /\ FromNet([k \in 1..4 |-> f[k + 1]]) = Len(f)
<1>1. PICK p \in Fields : f = Frame(p)
  BY DEF Frames
<1> DEFINE len == Len(p) + HeaderEnd + 1
           b(k) == CASE k = 1 -> PB_START
                     [] k \in 2..HeaderEnd -> NetByte(len, k - 1)
                     [] k = len -> PB_END
                     [] OTHER -> p[k - HeaderEnd]
<1>2. p \in Seq(Bytes) /\ Len(p) \in Nat \ {0} /\ Len(p) <= MaxInt - (HeaderEnd + 1)
  <2>1. p \in Seq(Bytes) /\ p # <<>>
    BY StreamAssumption
  <2>2. Len(p) # 0
    BY <2>1, EmptySeq
  <2> QED
    BY <2>1, <2>2, StreamAssumption, LenProperties
<1>3. len \in Nat /\ 7 <= len /\ len <= MaxInt
  <2>1. MaxInt \in Int
    BY SMT DEF MaxInt
  <2> QED
    BY <1>2, <2>1 DEF HeaderEnd
<1>4. f = [k \in 1..len |-> b(k)]
  BY <1>1 DEF Frame
<1>5. /\ b(1) = 2 /\ b(len) = 3
      /\ b(2) = NetByte(len, 1) /\ b(3) = NetByte(len, 2)
      /\ b(4) = NetByte(len, 3) /\ b(5) = NetByte(len, 4)
  BY <1>3 DEF HeaderEnd, PB_END, PB_START
<1>6. ASSUME NEW k \in 1..len PROVE b(k) \in Bytes
  <2>1. CASE k \in 1..5
    <3>1. k = 1 \/ k = 2 \/ k = 3 \/ k = 4 \/ k = 5
      BY <2>1
    <3>2. 2 \in Bytes /\ 1 \in 1..4 /\ 2 \in 1..4 /\ 3 \in 1..4 /\ 4 \in 1..4
      BY DEF Bytes
    <3>3. NetByte(len, 1) \in Bytes /\ NetByte(len, 2) \in Bytes
          /\ NetByte(len, 3) \in Bytes /\ NetByte(len, 4) \in Bytes
      BY <1>3, <3>2, NetBytes
    <3> HIDE DEF b, len
    <3> QED
      BY <1>5, <3>1, <3>2, <3>3
  <2>2. CASE k = len
    <3> HIDE DEF b, len
    <3> QED
      BY <1>5, <2>2 DEF Bytes
  <2>3. CASE k \notin 1..5 /\ k # len
    <3>1. k - HeaderEnd \in 1..Len(p) /\ k # 1 /\ k \notin 2..HeaderEnd
      BY <1>2, <2>3 DEF HeaderEnd
    <3>2. p[k - HeaderEnd] \in Bytes
      BY <1>2, <3>1, ElementOfSeq
    <3> QED
      BY <2>3, <3>1, <3>2
  <2> QED
    BY <2>1, <2>2, <2>3
<1> HIDE DEF b, len
<1>7. f \in Seq(Bytes) /\ Len(f) = len /\ DOMAIN f = 1..len
  <2>1. f \in [1..len -> Bytes]
    BY <1>4, <1>6
  <2> QED
    BY <1>3, <2>1
<1>8. \A k \in 1..len : f[k] = b(k)
  BY <1>4
<1>9. 1 \in 1..len /\ 2 \in 1..len /\ 3 \in 1..len /\ 4 \in 1..len /\ 5 \in 1..len
      /\ len \in 1..len
  BY <1>3
<1>10. /\ f[1] = 2 /\ f[len] = 3
       /\ f[2] = NetByte(len, 1) /\ f[3] = NetByte(len, 2)
       /\ f[4] = NetByte(len, 3) /\ f[5] = NetByte(len, 4)
  BY <1>5, <1>8, <1>9
<1> DEFINE b1 == NetByte(len, 1)
           b2 == NetByte(len, 2)
           b3 == NetByte(len, 3)
           b4 == NetByte(len, 4)
<1>11. /\ b1 \in Nat /\ b2 \in Nat /\ b3 \in Nat /\ b4 \in Nat /\ b1 < 128
       /\ ((b1 * 256 + b2) * 65536) + b3 * 256 + b4 = len
  <2>1. 1 \in 1..4 /\ 2 \in 1..4 /\ 3 \in 1..4 /\ 4 \in 1..4
    OBVIOUS
  <2>2. NetByte(len, 1) \in Bytes /\ NetByte(len, 2) \in Bytes
        /\ NetByte(len, 3) \in Bytes /\ NetByte(len, 4) \in Bytes
    BY <1>3, <2>1, NetBytes
  <2>3. /\ NetByte(len, 1) < 128
        /\ ((NetByte(len, 1) * 256 + NetByte(len, 2)) * 65536) + NetByte(len, 3) * 256
             + NetByte(len, 4) = len
    BY <1>3, NetBytes, SMT
  <2>4. b1 \in Nat /\ b2 \in Nat /\ b3 \in Nat /\ b4 \in Nat
    BY <2>2, SMT DEF Bytes
  <2> QED
    BY <2>3, <2>4, SMT
<1> HIDE DEF b1, b2, b3, b4
<1>12. f[2] = b1 /\ f[3] = b2 /\ f[4] = b3 /\ f[5] = b4
  BY <1>10 DEF b1, b2, b3, b4
<1> DEFINE h == [k \in 1..4 |-> f[k + 1]]
<1>13. h[1] = f[2] /\ h[2] = f[3] /\ h[3] = f[4] /\ h[4] = f[5]
  OBVIOUS
<1>14. FromNet(h) = len
  <2> HIDE DEF h
  <2> QED
    BY <1>11, <1>12, <1>13 DEF FromNet
<1>15. \A k \in 1..4 : f[k + 1] \in Nat
  <2> SUFFICES ASSUME NEW k \in 1..4 PROVE f[k + 1] \in Nat
    OBVIOUS
  <2>1. (k + 1 = 2 \/ k + 1 = 3) \/ (k + 1 = 4 \/ k + 1 = 5)
    OBVIOUS
  <2> QED
    BY <1>11, <1>12, <2>1
<1> QED
  BY <1>3, <1>7, <1>10, <1>11, <1>12, <1>14, <1>15

\* onRead never finds the buffer full, so it never enlarges it
\* (tcp_connection.cc:50-52).
LEMMA RoomIsThere ==
    ASSUME TypeOK
    PROVE  Room = inBuffer /\ WriteAble(inBuffer) \in Nat \ {0}
  BY BufferFields DEF TypeOK, Room, WriteAble

\* The bytes of one read, and what becomes of the buffer.
LEMMA ReadStep ==
    ASSUME TypeOK, NEW n \in 1..Len(stream), Read(n)
    PROVE  /\ SubSeq(stream, 1, n) \in Seq(Bytes)
           /\ Len(SubSeq(stream, 1, n)) = n
           /\ stream' \in Seq(Bytes)
           /\ IsBuffer(inBuffer')
           /\ inBuffer'.size = Size
           /\ inBuffer'.w < Size
           /\ ~lost' => /\ Contents(inBuffer') = Contents(inBuffer) \o SubSeq(stream, 1, n)
                        /\ n < WriteAble(inBuffer)
<1> DEFINE s == SubSeq(stream, 1, n)
<1>1. /\ stream \in Seq(Bytes)
      /\ IsBuffer(inBuffer)
      /\ inBuffer.size = Size
      /\ inBuffer.w < Size
  BY DEF TypeOK
<1>2. Len(stream) \in Nat /\ \A i \in 1..Len(stream) : stream[i] \in Bytes
  BY <1>1, LenProperties, ElementOfSeq
<1>3. s \in Seq(Bytes) /\ Len(s) = n
  BY <1>2, SubSeqProperties
<1>4. SubSeq(stream, n + 1, Len(stream)) \in Seq(Bytes)
  BY <1>2, SubSeqProperties
<1> HIDE DEF s
<1>5. /\ inBuffer' = MoveWriteIndex(Put(inBuffer, inBuffer.w, s), Len(s))
      /\ Len(s) <= WriteAble(inBuffer)
      /\ stream' = SubSeq(stream, n + 1, Len(stream))
      /\ lost' = (lost \/ ReadAble(inBuffer') # ReadAble(inBuffer) + n)
  BY <1>3, RoomIsThere DEF Read, s
<1>6. inBuffer.w + Len(s) <= inBuffer.size
  BY <1>1, <1>3, <1>5, BufferFields DEF WriteAble
<1>7. inBuffer.w \in Nat /\ inBuffer.r \in Nat /\ inBuffer.size \in Nat /\ n \in Nat \ {0}
  BY <1>1, <1>2, BufferFields
<1>8. CASE inBuffer.w + Len(s) < inBuffer.size
  <2>1. /\ IsBuffer(inBuffer')
        /\ inBuffer'.size = inBuffer.size
        /\ inBuffer'.w < inBuffer'.size
        /\ Contents(inBuffer') = Contents(inBuffer) \o s
    BY <1>1, <1>3, <1>5, <1>8, MoveWriteAppends
  <2>2. n < WriteAble(inBuffer)
    BY <1>3, <1>7, <1>8 DEF WriteAble
  <2> QED
    BY <1>1, <1>3, <1>4, <1>5, <2>1, <2>2 DEF s
<1>9. CASE inBuffer.w + Len(s) = inBuffer.size
  <2>1. /\ IsBuffer(inBuffer')
        /\ inBuffer'.size = inBuffer.size
        /\ inBuffer'.r = inBuffer.r
        /\ inBuffer'.w = inBuffer.w
    BY <1>1, <1>3, <1>5, <1>9, FullReadIsLost
  <2>2. lost'
    <3>1. ReadAble(inBuffer') = ReadAble(inBuffer)
      BY <2>1 DEF ReadAble
    <3>2. ReadAble(inBuffer) \in Int
      BY <1>7 DEF ReadAble
    <3>3. ReadAble(inBuffer') # ReadAble(inBuffer) + n
      BY <1>7, <3>1, <3>2
    <3> QED
      BY <1>5, <3>3
  <2> QED
    BY <1>1, <1>3, <1>4, <1>5, <2>1, <2>2 DEF s
<1>10. inBuffer.w + Len(s) < inBuffer.size \/ inBuffer.w + Len(s) = inBuffer.size
  BY <1>3, <1>6, <1>7
<1> QED
  BY <1>8, <1>9, <1>10

\* An end that the scan accepts lies in front of the write index.
LEMMA MatchType ==
    ASSUME TypeOK, NEW i \in Readable, NEW j \in Matches(i)
    PROVE  /\ i \in Nat /\ inBuffer.r <= i
           /\ j \in Int /\ j < inBuffer.w
<1>1. IsBuffer(inBuffer) /\ inBuffer.w < inBuffer.size
  BY DEF TypeOK
<1>2. /\ inBuffer.r \in Nat /\ inBuffer.w \in Nat /\ inBuffer.size \in Nat
      /\ i \in inBuffer.r..(inBuffer.w - 1)
  BY <1>1, BufferFields DEF Readable
<1>3. \A len \in Lengths(i) : len \in Int
  <2>1. CASE i + 4 < inBuffer.size
    <3> DEFINE h == [k \in 1..4 |-> Byte(i + k)]
    <3>1. \A k \in 1..4 : i + k \in 0..(inBuffer.size - 1)
      BY <1>2, <2>1
    <3>2. \A k \in 1..4 : Byte(i + k) \in 0..255
      BY <1>1, <3>1, BufferFields, ZenonT(60) DEF Byte, Bytes
    <3>3. h[1] \in Int /\ h[2] \in Int /\ h[3] \in Int /\ h[4] \in Int
      BY <3>2
    <3>4. Lengths(i) = {FromNet(h)}
      BY <2>1 DEF Lengths
    <3> HIDE DEF h
    <3>5. FromNet(h) \in Int
      BY <3>3 DEF FromNet
    <3> QED
      BY <3>4, <3>5
  <2>2. CASE ~(i + 4 < inBuffer.size)
    BY <1>2, <2>2 DEF Lengths
  <2> QED
    BY <2>1, <2>2
<1>4. PICK len \in Lengths(i) : j = i + len - 1 /\ j < inBuffer.w
  BY DEF Matches, IsEnd
<1> QED
  BY <1>2, <1>3, <1>4

\* A turn of decode that takes a frame out keeps the type.
LEMMA DecodeStep ==
    ASSUME TypeOK, DecodeOne
    PROVE  /\ IsBuffer(inBuffer')
           /\ inBuffer'.size = Size
           /\ inBuffer'.w < Size
           /\ decoded' \in Seq(Seq(Bytes))
           /\ misled' \in BOOLEAN
<1> DEFINE frame(i, j) == [k \in 1..(j - i + 1) |-> Byte(i + k - 1)]
           Taken(i, j) ==
             /\ inBuffer' = MoveReadIndex(inBuffer, j - i + 1)
             /\ \/ i + HeaderEnd < j /\ decoded' = Append(decoded, frame(i, j))
                \/ decoded' = decoded
             /\ misled' = (misled \/ (i # inBuffer.r /\ ~NextIsWhole))
<1>0. PICK i \in Readable : \E j \in Matches(i) : Taken(i, j)
  BY DEF DecodeOne
<1>1. PICK j \in Matches(i) : Taken(i, j)
  BY <1>0
<1>2. /\ IsBuffer(inBuffer)
      /\ inBuffer.size = Size
      /\ inBuffer.w < Size
      /\ decoded \in Seq(Seq(Bytes))
      /\ misled \in BOOLEAN
  BY DEF TypeOK
<1>3. /\ i \in Nat /\ inBuffer.r <= i
      /\ j \in Int /\ j < inBuffer.w
  BY MatchType
<1>4. /\ IsBuffer(inBuffer')
      /\ inBuffer'.size = inBuffer.size
      /\ inBuffer'.w <= inBuffer.w
  <2>1. j - i + 1 \in Int /\ j - i + 1 <= inBuffer.w - inBuffer.r
    BY <1>2, <1>3, BufferFields
  <2> QED
    BY <1>1, <1>2, <2>1, MoveReadIsBuffer
<1>5. inBuffer'.w < Size
  BY <1>2, <1>4, BufferFields
<1>6. ASSUME i + HeaderEnd < j PROVE frame(i, j) \in Seq(Bytes)
  <2>1. j - i + 1 \in Nat
    BY <1>3, <1>6 DEF HeaderEnd
  <2>2. ASSUME NEW k \in 1..(j - i + 1) PROVE Byte(i + k - 1) \in Bytes
    <3>1. i + k - 1 \in 0..(inBuffer.size - 1)
      BY <1>2, <1>3, BufferFields
    <3> QED
      BY <1>2, <3>1, BufferFields DEF Byte
  <2>3. frame(i, j) \in [1..(j - i + 1) -> Bytes]
    BY <2>2
  <2> QED
    BY <2>1, <2>3
<1>7. decoded' \in Seq(Seq(Bytes))
  <2> HIDE DEF frame
  <2>1. i + HeaderEnd < j => Append(decoded, frame(i, j)) \in Seq(Seq(Bytes))
    BY <1>2, <1>6, AppendProperties
  <2> QED
    BY <1>1, <1>2, <2>1
<1>8. misled' \in BOOLEAN
  BY <1>1, <1>2
<1> QED
  BY <1>2, <1>4, <1>5, <1>7, <1>8

LEMMA TypeOKInit == Init => TypeOK
<1> SUFFICES ASSUME Init PROVE TypeOK
  OBVIOUS
<1>1. /\ IsBuffer(outBuffer)
      /\ IsBuffer(inBuffer)
      /\ inBuffer.size = Size
      /\ inBuffer.w < Size
  BY StreamAssumption, NewBufferType DEF Init
<1> QED
  BY <1>1, EmptySeq DEF Init, TypeOK

LEMMA TypeOKNext == TypeOK /\ [Next]_vars => TypeOK'
<1> SUFFICES ASSUME TypeOK, [Next]_vars PROVE TypeOK'
  OBVIOUS
<1> USE DEF TypeOK
<1>1. ASSUME NEW fields \in Fields, Encode(fields) PROVE TypeOK'
  <2> DEFINE f == Frame(fields)
  <2>2. f \in Seq(Bytes)
    BY FrameIs DEF Frames
  <2> HIDE DEF f
  <2>3. sent' \in Seq(Seq(Bytes))
    BY <1>1, <2>2, AppendProperties DEF Encode, f
  <2>4. IsBuffer(outBuffer')
    BY <1>1, <2>2, WriteAppends DEF Encode, f
  <2> QED
    BY <1>1, <2>3, <2>4 DEF Encode, serverVars
<1>2. CASE Write
  BY <1>2, ContentsType DEF Write, serverVars
<1>3. CASE Close
  BY <1>3 DEF Close, serverVars
<1>4. ASSUME NEW n \in 1..Len(stream), Read(n) PROVE TypeOK'
  <2>1. /\ IsBuffer(inBuffer')
        /\ inBuffer'.size = Size
        /\ inBuffer'.w < Size
        /\ stream' \in Seq(Bytes)
    BY <1>4, ReadStep
  <2> QED
    BY <1>4, <2>1 DEF Read, clientVars
<1>5. CASE ReadNothing
  BY <1>5, RoomIsThere DEF ReadNothing, clientVars
<1>6. CASE ReadEnd
  BY <1>6, RoomIsThere DEF ReadEnd, clientVars
<1>7. CASE DecodeOne
  BY <1>7, DecodeStep DEF DecodeOne, clientVars
<1>8. CASE DecodeEnd
  BY <1>8 DEF DecodeEnd, clientVars
<1>9. CASE UNCHANGED vars
  BY <1>9 DEF vars, clientVars, serverVars
<1> QED
  BY <1>1, <1>2, <1>3, <1>4, <1>5, <1>6, <1>7, <1>8, <1>9
     DEF Next, Client, Receive, Decode

\* The indices of both buffers stay within them, and m_in_buffer is never full: the
\* branch of onRead that enlarges it (tcp_connection.cc:50-52) is never taken.
THEOREM StreamTypeCorrect == Spec => []TypeOK
<1>1. Init => TypeOK
  BY TypeOKInit
<1>2. TypeOK /\ [Next]_vars => TypeOK'
  BY TypeOKNext
<1> QED
  BY <1>1, <1>2, PTL DEF Spec

-----------------------------------------------------------------------------
(* The order of the bytes.                                                 *)

\* To take bytes off the front of s takes them off the front of s \o t.
LEMMA FrontOfConcat ==
    ASSUME NEW S, NEW s \in Seq(S), NEW t \in Seq(S), NEW n \in 0..Len(s)
    PROVE  SubSeq(s, n + 1, Len(s)) \o t = SubSeq(s \o t, n + 1, Len(s \o t))
<1> DEFINE rest == SubSeq(s, n + 1, Len(s))
           both == s \o t
           left == rest \o t
           right == SubSeq(both, n + 1, Len(both))
<1>1. Len(s) \in Nat /\ Len(t) \in Nat
  BY LenProperties
<1>2. /\ rest \in Seq(S)
      /\ Len(rest) = Len(s) - n
      /\ \A k \in 1..(Len(s) - n) : rest[k] = s[n + k]
  BY <1>1, ElementOfSeq, SubSeqProperties
<1>3. /\ both \in Seq(S)
      /\ Len(both) = Len(s) + Len(t)
      /\ \A k \in 1..(Len(s) + Len(t)) : both[k] = IF k <= Len(s) THEN s[k] ELSE t[k - Len(s)]
  BY ConcatProperties
<1> HIDE DEF rest, both
<1>4. /\ left \in Seq(S)
      /\ Len(left) = Len(s) - n + Len(t)
      /\ \A k \in 1..(Len(s) - n + Len(t)) :
            left[k] = IF k <= Len(s) - n THEN rest[k] ELSE t[k - (Len(s) - n)]
  <2>1. /\ left \in Seq(S)
        /\ Len(left) = Len(rest) + Len(t)
        /\ \A k \in 1..(Len(rest) + Len(t)) :
              left[k] = IF k <= Len(rest) THEN rest[k] ELSE t[k - Len(rest)]
    BY <1>2, ConcatProperties
  <2> HIDE DEF left
  <2> QED
    BY <1>2, <2>1
<1>5. /\ right \in Seq(S)
      /\ Len(right) = Len(s) - n + Len(t)
      /\ \A k \in 1..(Len(s) - n + Len(t)) : right[k] = both[n + k]
  BY <1>1, <1>3, ElementOfSeq, SubSeqProperties
<1> HIDE DEF left, right
<1>6. ASSUME NEW k \in 1..(Len(s) - n + Len(t)) PROVE left[k] = right[k]
  <2>1. n + k \in 1..(Len(s) + Len(t)) /\ n \in Nat /\ k \in Nat
    BY <1>1
  <2>2. right[k] = IF n + k <= Len(s) THEN s[n + k] ELSE t[(n + k) - Len(s)]
    BY <1>3, <1>5, <2>1
  <2>3. CASE k <= Len(s) - n
    BY <1>1, <1>2, <1>4, <2>1, <2>2, <2>3
  <2>4. CASE ~(k <= Len(s) - n)
    <3>1. (n + k) - Len(s) = k - (Len(s) - n) /\ ~(n + k <= Len(s))
      BY <1>1, <2>1, <2>4
    <3> QED
      BY <1>4, <2>2, <2>4, <3>1
  <2> QED
    BY <2>3, <2>4
<1>7. left = right
  BY <1>4, <1>5, <1>6, SeqEqual
<1> QED
  BY <1>7 DEF left, right, rest, both

LEMMA UnreadType ==
    ASSUME TypeOK
    PROVE  /\ Unread \in Seq(Bytes)
           /\ 0 \in 0..Len(Unread)
           /\ SubSeq(Unread, 0 + 1, Len(Unread)) = Unread
<1>1. Unread \in Seq(Bytes)
  BY ContentsType, ConcatProperties DEF TypeOK, Unread
<1> QED
  BY <1>1, SubSeqFull, LenProperties

\* onRead moves bytes from the wire to the buffer.
LEMMA ReadKeepsUnread ==
    ASSUME TypeOK, NEW n \in 1..Len(stream), Read(n), ~lost'
    PROVE  Unread' = Unread
<1> DEFINE c == Contents(inBuffer)
           s1 == SubSeq(stream, 1, n)
           s2 == SubSeq(stream, n + 1, Len(stream))
<1>1. c \in Seq(Bytes)
  BY ContentsType DEF TypeOK
<1>2. s1 \in Seq(Bytes) /\ Contents(inBuffer') = c \o s1
  BY ReadStep
<1>3. stream' = s2 /\ s2 \in Seq(Bytes)
  BY ReadStep DEF Read
<1>4. s1 \o s2 = stream
  BY SubSeqFull, ConcatAdjacentSubSeq, LenProperties DEF TypeOK
<1> HIDE DEF c, s1, s2
<1>5. (c \o s1) \o s2 = c \o (s1 \o s2)
  BY <1>1, <1>2, <1>3, ConcatAssociative
<1> QED
  BY <1>2, <1>3, <1>4, <1>5 DEF Unread, c

-----------------------------------------------------------------------------
(* What is decoded is what was encoded.                                    *)

\* Where each frame lies in the bytes: frame i behind the first start[i] of them.
Layout(start, frames, bytes) ==
    /\ start \in [1..(Len(frames) + 1) -> Nat]
    /\ start[1] = 0
    /\ start[Len(frames) + 1] = Len(bytes)
    /\ \A i \in 1..(Len(frames) + 1) : start[i] <= Len(bytes)
    /\ \A i \in 1..Len(frames) :
          /\ start[i + 1] = start[i] + Len(frames[i])
          /\ \A k \in 1..Len(frames[i]) : bytes[start[i] + k] = frames[i][k]

\* The bytes that the client has put into its buffer.
Encoded == Contents(outBuffer)

\* The frames decoded are the first ones sent, and the bytes not yet read are those of
\* the other frames, from the first byte of the next one.
Received(start) ==
    /\ Len(decoded) <= Len(sent)
    /\ \A i \in 1..Len(decoded) : decoded[i] = sent[i]
    /\ Len(Unread) = Len(Encoded) - start[Len(decoded) + 1]
    /\ \A k \in 1..Len(Unread) : Unread[k] = Encoded[start[Len(decoded) + 1] + k]

\* Only a frame that holds a PB_START can mislead the scan.
FramesInv ==
    /\ Len(sent) <= MaxMessages
    /\ \A i \in 1..Len(sent) : sent[i] \in Frames
    /\ pc = "closed" => closed
    /\ ~written => /\ pc \in {"idle", "closed"} /\ stream = <<>> /\ inBuffer.r = inBuffer.w
                   /\ decoded = <<>> /\ ~misled
    /\ ~lost /\ misled => \E n \in 1..Len(sent) : HoldsStart(sent[n])

\* Outside of decode the buffer holds no complete frame.
DecodeInv ==
    ~lost /\ ~misled =>
        /\ pc # "read"
        /\ pc = "closed" => stream = <<>>
        /\ pc # "decode" /\ Len(decoded) < Len(sent) =>
               ReadAble(inBuffer) < Len(sent[Len(decoded) + 1])

StreamInv ==
    /\ TypeOK
    /\ FramesInv
    /\ \E start : Layout(start, sent, Encoded) /\ (written /\ ~lost /\ ~misled => Received(start))
    /\ written => DecodeInv

\* The bytes in the buffer and behind it on the wire.
LEMMA UnreadIs ==
    ASSUME TypeOK
    PROVE  /\ Unread \in Seq(Bytes)
           /\ Len(Unread) = ReadAble(inBuffer) + Len(stream)
           /\ ReadAble(inBuffer) \in Nat /\ Len(stream) \in Nat
           /\ inBuffer.r \in Nat /\ inBuffer.w \in Nat
           /\ inBuffer.w = inBuffer.r + ReadAble(inBuffer)
           /\ \A k \in 1..ReadAble(inBuffer) : Unread[k] = Byte(inBuffer.r + k - 1)
<1> DEFINE c == Contents(inBuffer)
<1>1. IsBuffer(inBuffer) /\ stream \in Seq(Bytes)
  BY DEF TypeOK
<1>2. /\ inBuffer.r \in Nat /\ inBuffer.w \in Nat /\ inBuffer.r <= inBuffer.w
      /\ ReadAble(inBuffer) = inBuffer.w - inBuffer.r
  BY <1>1, BufferFields DEF ReadAble
<1>3. /\ c \in Seq(Bytes) /\ Len(c) = ReadAble(inBuffer)
      /\ \A k \in 1..ReadAble(inBuffer) : c[k] = Byte(inBuffer.r + k - 1)
  BY <1>1, <1>2, ContentsType DEF Byte
<1>4. Len(stream) \in Nat
  BY <1>1, LenProperties
<1> HIDE DEF c
<1>5. /\ c \o stream \in Seq(Bytes)
      /\ Len(c \o stream) = Len(c) + Len(stream)
      /\ \A k \in 1..(Len(c) + Len(stream)) :
            (c \o stream)[k] = IF k <= Len(c) THEN c[k] ELSE stream[k - Len(c)]
  BY <1>1, <1>3, ConcatProperties
<1>6. Unread = c \o stream
  BY DEF Unread, c
<1> QED
  BY <1>2, <1>3, <1>4, <1>5, <1>6

\* Where a byte of the next frame is.
LEMMA NextFrame ==
    ASSUME StreamInv, written, ~lost, ~misled, Len(decoded) < Len(sent)
    PROVE  LET f == sent[Len(decoded) + 1]
           IN  /\ f \in Frames
               /\ Len(decoded) + 1 \in 1..Len(sent)
               /\ Len(f) <= Len(Unread)
               /\ \A k \in 1..Len(f) : Unread[k] = f[k]
<1> DEFINE i == Len(decoded) + 1
           f == sent[i]
<1>1. PICK start : Layout(start, sent, Encoded) /\ Received(start)
  BY DEF StreamInv
<1>2. Len(decoded) \in Nat /\ Len(sent) \in Nat
  BY LenProperties DEF StreamInv, TypeOK
<1>3. i \in 1..Len(sent) /\ i + 1 \in 1..(Len(sent) + 1)
  BY <1>2
<1>4. f \in Frames
  BY <1>3 DEF StreamInv, FramesInv
<1>5. Len(f) \in Nat
  BY <1>4, FrameIs, LenProperties
<1> HIDE DEF f
<1>6. /\ start[i + 1] = start[i] + Len(f)
      /\ \A k \in 1..Len(f) : Encoded[start[i] + k] = f[k]
      /\ start[i] \in Nat
  BY <1>1, <1>2, <1>3, SMTT(60) DEF Layout, f
<1>7. start[i + 1] <= Len(Encoded) /\ Len(Encoded) \in Nat
  BY <1>1, <1>3, ContentsType, LenProperties DEF Layout, StreamInv, TypeOK, Encoded
<1>8. /\ Len(Unread) = Len(Encoded) - start[i]
      /\ \A k \in 1..Len(Unread) : Unread[k] = Encoded[start[i] + k]
  BY <1>1 DEF Received
<1>9. Len(f) <= Len(Unread)
  BY <1>5, <1>6, <1>7, <1>8
<1>10. ASSUME NEW k \in 1..Len(f) PROVE Unread[k] = f[k]
  <2>1. k \in 1..Len(Unread)
    BY <1>5, <1>6, <1>7, <1>8, <1>9
  <2> QED
    BY <1>6, <1>8, <2>1
<1> QED
  BY <1>3, <1>4, <1>9, <1>10 DEF f

\* All that is left to read is the frames that have not been decoded.
LEMMA AllDecoded ==
    ASSUME StreamInv, written, ~lost, ~misled
    PROVE  /\ Len(decoded) = Len(sent) => Len(Unread) = 0
           /\ Len(decoded) <= Len(sent) /\ Len(decoded) \in Nat /\ Len(sent) \in Nat
<1>1. PICK start : Layout(start, sent, Encoded) /\ Received(start)
  BY DEF StreamInv
<1>2. Len(decoded) \in Nat /\ Len(sent) \in Nat
  BY LenProperties DEF StreamInv, TypeOK
<1>3. Len(Encoded) \in Nat
  BY ContentsType, LenProperties DEF StreamInv, TypeOK, Encoded
<1> QED
  BY <1>1, <1>2, <1>3 DEF Layout, Received

\* The bytes of the next frame, as far as they are there, lie from the read index on.
LEMMA FrameInBuffer ==
    ASSUME StreamInv, written, ~lost, ~misled, Len(decoded) < Len(sent)
    PROVE  LET f == sent[Len(decoded) + 1]
               r == inBuffer.r
               n == ReadAble(inBuffer)
           IN  /\ f \in Frames
               /\ r \in Nat /\ n \in Nat /\ inBuffer.w = r + n
               /\ r + n < inBuffer.size /\ inBuffer.size \in 1..MaxInt
               /\ \A k \in 1..n : k <= Len(f) => Byte(r + k - 1) = f[k]
<1> DEFINE f == sent[Len(decoded) + 1]
<1>1. f \in Frames /\ \A k \in 1..Len(f) : Unread[k] = f[k]
  BY NextFrame
<1> HIDE DEF f
<1>2. TypeOK
  BY DEF StreamInv
<1>3. /\ inBuffer.r \in Nat /\ ReadAble(inBuffer) \in Nat
      /\ inBuffer.w = inBuffer.r + ReadAble(inBuffer)
      /\ \A k \in 1..ReadAble(inBuffer) : Unread[k] = Byte(inBuffer.r + k - 1)
  BY <1>2, UnreadIs
<1>4. inBuffer.w < inBuffer.size /\ inBuffer.size \in 1..MaxInt
  BY <1>2, StreamAssumption DEF TypeOK
<1>5. Len(f) \in Nat
  BY <1>1, FrameIs, LenProperties
<1>6. ASSUME NEW k \in 1..ReadAble(inBuffer), k <= Len(f)
      PROVE  Byte(inBuffer.r + k - 1) = f[k]
  <2>1. k \in 1..Len(f)
    BY <1>3, <1>5, <1>6
  <2> QED
    BY <1>1, <1>3, <2>1
<1> QED
  BY <1>1, <1>3, <1>4, <1>6 DEF f

\* The length of a frame of which five bytes are there is certain.
LEMMA CertainLength ==
    ASSUME StreamInv, written, ~lost, ~misled, Len(decoded) < Len(sent),
           ReadAble(inBuffer) >= 5
    PROVE  /\ Lengths(inBuffer.r) = {Len(sent[Len(decoded) + 1])}
           /\ inBuffer.r + 4 < inBuffer.size
<1> DEFINE f == sent[Len(decoded) + 1]
           r == inBuffer.r
           n == ReadAble(inBuffer)
<1>1. /\ f \in Frames /\ r \in Nat /\ n \in Nat
      /\ r + n < inBuffer.size /\ inBuffer.size \in Int
      /\ \A k \in 1..n : k <= Len(f) => Byte(r + k - 1) = f[k]
  BY FrameInBuffer
<1>2. Len(f) \in Nat /\ 7 <= Len(f)
  BY <1>1, FrameIs
<1>3. FromNet([k \in 1..4 |-> f[k + 1]]) = Len(f)
  BY <1>1, FrameIs
<1>4. n >= 5
  OBVIOUS
<1> HIDE DEF f, r, n
<1>5. r + 4 < inBuffer.size
  BY <1>1, <1>4
<1>6. [k \in 1..4 |-> Byte(r + k)] = [k \in 1..4 |-> f[k + 1]]
  <2> SUFFICES ASSUME NEW k \in 1..4 PROVE Byte(r + k) = f[k + 1]
    OBVIOUS
  <2>1. k + 1 \in 1..n /\ k + 1 <= Len(f) /\ r + (k + 1) - 1 = r + k
    BY <1>1, <1>2, <1>4
  <2> QED
    BY <1>1, <2>1
<1>7. Lengths(r) = {FromNet([k \in 1..4 |-> Byte(r + k)])}
  BY <1>5 DEF Lengths
<1> QED
  BY <1>3, <1>5, <1>6, <1>7 DEF f, r

\* A frame that is all in the buffer is found at the read index and nowhere else.
LEMMA CompleteFrame ==
    ASSUME StreamInv, written, ~lost, ~misled, Len(decoded) < Len(sent),
           Len(sent[Len(decoded) + 1]) <= ReadAble(inBuffer)
    PROVE  /\ Matches(inBuffer.r) = {inBuffer.r + Len(sent[Len(decoded) + 1]) - 1}
           /\ ~MayPass(inBuffer.r)
<1> DEFINE f == sent[Len(decoded) + 1]
           r == inBuffer.r
           n == ReadAble(inBuffer)
           w == inBuffer.w
<1>1. /\ f \in Frames /\ r \in Nat /\ n \in Nat /\ w = r + n
      /\ r + n < inBuffer.size /\ inBuffer.size \in Int
      /\ \A k \in 1..n : k <= Len(f) => Byte(r + k - 1) = f[k]
  BY FrameInBuffer
<1>2. Len(f) \in Nat /\ 7 <= Len(f) /\ f[1] = 2 /\ f[Len(f)] = 3
  BY <1>1, FrameIs
<1>3. Len(f) <= n /\ n >= 5
  <2>1. Len(f) <= n
    OBVIOUS
  <2> HIDE DEF f, n
  <2> QED
    BY <1>1, <1>2, <2>1
<1>4. Lengths(r) = {Len(f)} /\ r + 4 < inBuffer.size
  BY <1>3, CertainLength
<1> HIDE DEF f, r, n, w
<1> DEFINE e == r + Len(f) - 1
<1>5. Byte(r) = 2 /\ Byte(e) = 3
  <2>1. 1 \in 1..n /\ 1 <= Len(f) /\ r + 1 - 1 = r /\ Len(f) \in 1..n /\ Len(f) <= Len(f)
    BY <1>1, <1>2, <1>3
  <2> QED
    BY <1>1, <1>2, <2>1
<1>6. r + 1 < w /\ e \in Nat /\ e < w /\ e # -1
  BY <1>1, <1>2, <1>3
<1>7. {r + l - 1 : l \in Lengths(r)} = {e}
  BY <1>4
<1> HIDE DEF e
<1>8. IsEnd(e)
  BY <1>5, <1>6 DEF IsEnd, PB_END, w
<1>9. Matches(r) = {e}
  BY <1>5, <1>6, <1>7, <1>8 DEF Matches, PB_START, w
<1>10. ~MayPass(r)
  <2>1. ~(e < 0) /\ ~(r + 4 >= inBuffer.size)
    BY <1>1, <1>4, <1>6
  <2> QED
    BY <1>9, <2>1 DEF MayPass
<1> QED
  BY <1>9, <1>10 DEF f, r, e

\* Of a length of which not all bytes are there, those that are small enough to lead
\* into the buffer have zeros in front.
LEMMA SmallLength ==
    ASSUME NEW l \in Int, 0 - MaxInt <= l, l <= MaxInt, NetByte(l, 1) < 128
    PROVE  /\ l >= 0
           /\ l <= 4 => \A k \in 1..3 : NetByte(l, k) = 0
<1>1. /\ NetByte(l, 1) = (l \div 16777216) % 256
      /\ NetByte(l, 2) = (l \div 65536) % 256
      /\ NetByte(l, 3) = (l \div 256) % 256
  BY SMT DEF NetByte
<1>2. l >= 0
  BY <1>1, SMT DEF MaxInt
<1>3. ASSUME l <= 4 PROVE \A k \in 1..3 : NetByte(l, k) = 0
  <2>1. l \div 16777216 = 0
    BY <1>2, <1>3, SMT
  <2>2. l \div 65536 = 0
    BY <1>2, <1>3, SMT
  <2>3. l \div 256 = 0
    BY <1>2, <1>3, SMT
  <2>4. NetByte(l, 1) = 0 /\ NetByte(l, 2) = 0 /\ NetByte(l, 3) = 0
    BY <1>1, <2>1, <2>2, <2>3, SMT
  <2> SUFFICES ASSUME NEW k \in 1..3 PROVE NetByte(l, k) = 0
    OBVIOUS
  <2>5. k = 1 \/ k = 2 \/ k = 3
    OBVIOUS
  <2> QED
    BY <2>4, <2>5
<1> QED
  BY <1>2, <1>3

LEMMA FromNetSmall ==
    ASSUME NEW h, h[1] \in Nat, h[2] \in Nat, h[3] \in Nat, h[4] \in Nat, h[1] < 128
    PROVE  /\ FromNet(h) \in Nat
           /\ FromNet(h) <= 4 => h[1] = 0 /\ h[2] = 0 /\ h[3] = 0
<1>1. FromNet(h) = (h[1] * 256 + h[2]) * 65536 + h[3] * 256 + h[4]
  BY SMT DEF FromNet
<1> DEFINE a == h[1] * 256 + h[2]
<1>2. FromNet(h) = a * 65536 + h[3] * 256 + h[4] /\ a \in Nat /\ a = h[1] * 256 + h[2]
  BY <1>1, SMT
<1> HIDE DEF a
<1>3. FromNet(h) \in Nat
  BY <1>2, SMT
<1>4. FromNet(h) <= 4 => a = 0 /\ h[3] = 0
  <2> DEFINE c == h[3]
             d == h[4]
             n == FromNet(h)
  <2>1. n = a * 65536 + c * 256 + d /\ a \in Nat /\ c \in Nat /\ d \in Nat
    BY <1>2
  <2> HIDE DEF c, d, n
  <2>2. n <= 4 => a = 0 /\ c = 0
    BY <2>1, SMT
  <2> QED
    BY <2>2 DEF c, n
<1>5. a = 0 => h[1] = 0 /\ h[2] = 0
  BY <1>2, SMT
<1> QED
  BY <1>3, <1>4, <1>5

\* In a frame that is not all there the scan finds at most the end of the frame
\* before it, which leads nowhere.
LEMMA PartialFrame ==
    ASSUME StreamInv, written, ~lost, ~misled, Len(decoded) < Len(sent),
           ReadAble(inBuffer) < Len(sent[Len(decoded) + 1]),
           NEW j \in Matches(inBuffer.r)
    PROVE  j = inBuffer.r - 1
<1> DEFINE f == sent[Len(decoded) + 1]
           r == inBuffer.r
           n == ReadAble(inBuffer)
           w == inBuffer.w
           size == inBuffer.size
<1>1. /\ f \in Frames /\ r \in Nat /\ n \in Nat /\ w = r + n
      /\ r + n < size /\ size \in 1..MaxInt
      /\ \A k \in 1..n : k <= Len(f) => Byte(r + k - 1) = f[k]
  BY FrameInBuffer
<1>2. Len(f) \in Nat /\ 7 <= Len(f) /\ f[1] = 2 /\ f[2] < 128
  BY <1>1, FrameIs
<1>3. n < Len(f)
  OBVIOUS
<1>4. r + 1 < w /\ Byte(r) = 2
      /\ \E l \in Lengths(r) : j = r + l - 1 /\ j < w /\ (j >= 0 => Byte(j) = 3)
  BY DEF Matches, IsEnd, PB_START, PB_END
<1>5. PICK l \in Lengths(r) : j = r + l - 1 /\ j < w /\ (j >= 0 => Byte(j) = 3)
  BY <1>4
<1>6. n >= 5 => Lengths(r) = {Len(f)}
  BY CertainLength
<1>7. ASSUME NEW k \in 0..(size - 1) PROVE Byte(k) \in Nat
  <2>1. inBuffer.data \in [0..(size - 1) -> Bytes]
    BY BufferFields DEF StreamInv, TypeOK
  <2>2. inBuffer.data[k] \in Bytes
    BY <2>1
  <2>3. Bytes \subseteq Nat
    BY DEF Bytes
  <2>4. inBuffer.data[k] \in Nat
    BY <2>2, <2>3
  <2> QED
    BY <2>4 DEF Byte
<1>8. size \in Nat
  BY <1>1
<1>o. size <= MaxInt
  BY <1>1
<1> HIDE DEF f, r, n, w, size
<1>9. n < 5
  <2> SUFFICES ASSUME n >= 5 PROVE FALSE
    BY <1>1
  <2>1. l = Len(f)
    BY <1>5, <1>6
  <2> QED
    BY <1>1, <1>2, <1>3, <1>5, <2>1
<1>10. Byte(r + 1) = f[2]
  <2>1. 2 \in 1..n /\ 2 <= Len(f) /\ r + 2 - 1 = r + 1
    BY <1>1, <1>2, <1>4
  <2> QED
    BY <1>1, <2>1
<1>11. /\ l \in Int /\ l >= 0
       /\ l <= 4 => \A k \in 1..3 : r + k < size => Byte(r + k) = 0
  <2>1. CASE r + 4 < size
    <3> DEFINE h == [k \in 1..4 |-> Byte(r + k)]
    <3>1. h[1] = Byte(r + 1) /\ h[2] = Byte(r + 2) /\ h[3] = Byte(r + 3) /\ h[4] = Byte(r + 4)
      OBVIOUS
    <3>2. /\ r + 1 \in 0..(size - 1) /\ r + 2 \in 0..(size - 1)
          /\ r + 3 \in 0..(size - 1) /\ r + 4 \in 0..(size - 1)
      BY <1>1, <1>8, <2>1
    <3>3. l = FromNet(h)
      BY <2>1 DEF Lengths, size
    <3> HIDE DEF h
    <3>4. h[1] \in Nat /\ h[2] \in Nat /\ h[3] \in Nat /\ h[4] \in Nat /\ h[1] < 128
      BY <1>2, <1>7, <1>10, <3>1, <3>2
    <3>5. l \in Nat /\ (l <= 4 => h[1] = 0 /\ h[2] = 0 /\ h[3] = 0)
      BY <3>3, <3>4, FromNetSmall
    <3>6. ASSUME l <= 4, NEW k \in 1..3 PROVE Byte(r + k) = 0
      <4>1. k = 1 \/ k = 2 \/ k = 3
        OBVIOUS
      <4> QED
        BY <3>1, <3>5, <3>6, <4>1
    <3> QED
      BY <3>5, <3>6
  <2>2. CASE ~(r + 4 < size)
    <3>1. /\ l \in (0 - size)..size
          /\ \A k \in 1..4 : r + k < size => Byte(r + k) = NetByte(l, k)
      BY <2>2 DEF Lengths, size
    <3>2. l \in Int /\ MaxInt \in Int
      <4>1. MaxInt \in Int
        BY SMT DEF MaxInt
      <4> QED
        BY <1>8, <3>1, <4>1
    <3>3. 0 - MaxInt <= l /\ l <= MaxInt
      BY <1>8, <1>o, <3>1, <3>2
    <3>4. 1 \in 1..4 /\ r + 1 < size
      BY <1>1, <1>4, <1>8
    <3>5. NetByte(l, 1) < 128
      BY <1>2, <1>10, <3>1, <3>4
    <3>6. /\ l >= 0
          /\ l <= 4 => \A k \in 1..3 : NetByte(l, k) = 0
      BY <3>2, <3>3, <3>5, SmallLength
    <3>7. ASSUME l <= 4, NEW k \in 1..3, r + k < size PROVE Byte(r + k) = 0
      <4>1. k \in 1..4
        OBVIOUS
      <4> QED
        BY <3>1, <3>6, <3>7, <4>1
    <3> QED
      BY <3>2, <3>6, <3>7
  <2> QED
    BY <2>1, <2>2
<1>12. l = 0
  <2> SUFFICES ASSUME l >= 1 PROVE FALSE
    BY <1>11
  <2>1. l <= 4 /\ j >= 0 /\ j \in Int
    BY <1>1, <1>5, <1>9, <1>11
  <2>2. Byte(j) = 3
    BY <1>5, <2>1
  <2>3. CASE l = 1
    <3>1. j = r
      BY <1>1, <1>5, <2>3
    <3> QED
      BY <1>4, <2>2, <3>1
  <2>4. CASE l # 1
    <3>1. l - 1 \in 1..3 /\ r + (l - 1) = j /\ r + (l - 1) < size
      BY <1>1, <1>5, <1>8, <1>11, <2>1, <2>4
    <3>2. Byte(r + (l - 1)) = 0
      BY <1>11, <2>1, <3>1
    <3> QED
      BY <2>2, <3>1, <3>2
  <2> QED
    BY <2>3, <2>4
<1> QED
  BY <1>1, <1>5, <1>12 DEF r

\* To move the read index takes bytes off the front of what is unread.
LEMMA MoveReadIsSubSeq ==
    ASSUME TypeOK, NEW n \in 0..ReadAble(inBuffer),
           inBuffer' = MoveReadIndex(inBuffer, n), stream' = stream
    PROVE  Unread' = SubSeq(Unread, n + 1, Len(Unread))
<1> DEFINE c == Contents(inBuffer)
<1>1. IsBuffer(inBuffer) /\ inBuffer.w < inBuffer.size /\ stream \in Seq(Bytes)
      /\ ReadAble(inBuffer) = inBuffer.w - inBuffer.r
  BY DEF TypeOK, ReadAble
<1>2. Contents(inBuffer') = SubSeq(c, n + 1, Len(c))
  BY <1>1, MoveReadTakesPrefix
<1>3. c \in Seq(Bytes) /\ n \in 0..Len(c)
  BY <1>1, ContentsType
<1> HIDE DEF c
<1>4. SubSeq(c, n + 1, Len(c)) \o stream = SubSeq(c \o stream, n + 1, Len(c \o stream))
  BY <1>1, <1>3, FrontOfConcat
<1>5. Unread = c \o stream /\ Unread' = SubSeq(c, n + 1, Len(c)) \o stream
  BY <1>2 DEF Unread, c
<1> QED
  BY <1>4, <1>5

\* Where the scan of a turn stops, before decode is misled.
LEMMA DecodeFinds ==
    ASSUME StreamInv, written, ~lost, ~misled, NEW i \in Readable
    PROVE  /\ Len(decoded) < Len(sent)
           /\ ReadAble(inBuffer) \in Nat /\ inBuffer.r \in Nat /\ i \in Nat
           /\ i - inBuffer.r + 1 \in 1..ReadAble(inBuffer)
<1>1. TypeOK
  BY DEF StreamInv
<1>2. /\ inBuffer.r \in Nat /\ ReadAble(inBuffer) \in Nat
      /\ inBuffer.w = inBuffer.r + ReadAble(inBuffer)
      /\ Len(Unread) = ReadAble(inBuffer) + Len(stream) /\ Len(stream) \in Nat
  BY <1>1, UnreadIs
<1>3. i \in Nat /\ i - inBuffer.r + 1 \in 1..ReadAble(inBuffer)
  BY <1>2 DEF Readable
<1>4. Len(Unread) # 0
  BY <1>2, <1>3
<1> QED
  BY <1>2, <1>3, <1>4, AllDecoded

\* One turn of decode takes the next frame, or it goes around on the spot.
LEMMA DecodeTakes ==
    ASSUME StreamInv, written, ~lost, DecodeOne, ~misled'
    PROVE  \/ decoded' = decoded /\ Unread' = Unread
           \/ /\ Len(decoded) < Len(sent)
              /\ decoded' = Append(decoded, sent[Len(decoded) + 1])
              /\ Unread' = SubSeq(Unread, Len(sent[Len(decoded) + 1]) + 1, Len(Unread))
<1> DEFINE f == sent[Len(decoded) + 1]
           r == inBuffer.r
           n == ReadAble(inBuffer)
           frame(i, j) == [k \in 1..(j - i + 1) |-> Byte(i + k - 1)]
           Turn(i, j) ==
             /\ \A k \in r..(i - 1) : MayPass(k)
             /\ inBuffer' = MoveReadIndex(inBuffer, j - i + 1)
             /\ \/ i + HeaderEnd < j /\ decoded' = Append(decoded, frame(i, j))
                \/ (i + HeaderEnd < j => frame(i, j) \notin Frames) /\ decoded' = decoded
             /\ misled' = (misled \/ (i # r /\ ~NextIsWhole))
<1>0. PICK i \in Readable : \E j \in Matches(i) : Turn(i, j)
  BY DEF DecodeOne
<1>1. PICK j \in Matches(i) : Turn(i, j)
  BY <1>0
<1>2. stream' = stream /\ TypeOK
  BY DEF DecodeOne, StreamInv
<1>3. ~misled /\ (i = r \/ NextIsWhole)
  BY <1>1
<1>4. /\ Len(decoded) < Len(sent)
      /\ n \in Nat /\ r \in Nat /\ i \in Nat /\ i - r + 1 \in 1..n
  BY <1>3, DecodeFinds
<1>5. /\ f \in Frames
      /\ \A k \in 1..n : k <= Len(f) => Byte(r + k - 1) = f[k]
  BY <1>3, <1>4, FrameInBuffer
<1>6. /\ Len(f) <= n => Matches(r) = {r + Len(f) - 1} /\ ~MayPass(r)
      /\ n < Len(f) => \A m \in Matches(r) : m = r - 1
  BY <1>3, <1>4, CompleteFrame, PartialFrame
<1>7. NextIsWhole => Len(f) <= n
  BY DEF NextIsWhole
<1>8. f \in Seq(Bytes) /\ Len(f) \in Nat /\ 7 <= Len(f)
  BY <1>5, FrameIs, LenProperties
<1> HIDE DEF f, n, frame, r
<1>9. i = r
  <2> SUFFICES ASSUME i # r PROVE FALSE
    OBVIOUS
  <2>1. ~MayPass(r)
    BY <1>3, <1>6, <1>7
  <2>2. r \in r..(i - 1)
    BY <1>4
  <2> QED
    BY <1>1, <2>1, <2>2
<1>10. CASE Len(f) <= n
  <2>1. j = r + Len(f) - 1
    BY <1>1, <1>6, <1>9, <1>10
  <2>2. j - i + 1 = Len(f) /\ i + HeaderEnd < j
    BY <1>4, <1>8, <1>9, <2>1 DEF HeaderEnd
  <2>3. Unread' = SubSeq(Unread, Len(f) + 1, Len(Unread))
    <3>1. Len(f) \in 0..ReadAble(inBuffer)
      BY <1>4, <1>8, <1>10 DEF n
    <3> QED
      BY <1>1, <1>2, <2>2, <3>1, MoveReadIsSubSeq
  <2>4. frame(i, j) = f
    <3>1. \A k \in 1..Len(f) : Byte(r + k - 1) = f[k]
      <4> SUFFICES ASSUME NEW k \in 1..Len(f) PROVE Byte(r + k - 1) = f[k]
        OBVIOUS
      <4>1. k \in 1..n /\ k <= Len(f)
        BY <1>4, <1>8, <1>10
      <4> QED
        BY <1>5, <4>1
    <3>2. f = [k \in 1..Len(f) |-> f[k]]
      BY <1>8
    <3>3. frame(i, j) = [k \in 1..Len(f) |-> Byte(r + k - 1)]
      BY <1>9, <2>2 DEF frame
    <3> QED
      BY <3>1, <3>2, <3>3
  <2>5. decoded' = Append(decoded, f)
    BY <1>1, <1>5, <2>2, <2>4
  <2> QED
    BY <1>4, <2>3, <2>5 DEF f
<1>11. CASE n < Len(f)
  <2>1. j = r - 1
    BY <1>1, <1>6, <1>9, <1>11
  <2>2. j - i + 1 = 0 /\ ~(i + HeaderEnd < j)
    BY <1>4, <1>9, <2>1 DEF HeaderEnd
  <2>3. Unread' = SubSeq(Unread, 0 + 1, Len(Unread))
    <3>1. 0 \in 0..ReadAble(inBuffer)
      BY <1>4 DEF n
    <3> QED
      BY <1>1, <1>2, <2>2, <3>1, MoveReadIsSubSeq
  <2>4. Unread' = Unread
    BY <1>2, <2>3, UnreadType
  <2> QED
    BY <1>1, <2>2, <2>4
<1>12. Len(f) <= n \/ n < Len(f)
  BY <1>4, <1>8
<1> QED
  BY <1>10, <1>11, <1>12

\* A frame found behind the start of one that is not all there is inside of it.
LEMMA DecodeMisled ==
    ASSUME StreamInv, written, ~lost, ~misled, DecodeOne, misled'
    PROVE  \E m \in 1..Len(sent) : HoldsStart(sent[m])
<1> DEFINE d == Len(decoded) + 1
           f == sent[d]
           r == inBuffer.r
           n == ReadAble(inBuffer)
<1>1. PICK i \in Readable : Byte(i) = 2 /\ i # r /\ ~NextIsWhole
  BY DEF DecodeOne, Matches, PB_START
<1>2. /\ Len(decoded) < Len(sent)
      /\ n \in Nat /\ r \in Nat /\ i \in Nat /\ i - r + 1 \in 1..n
  BY <1>1, DecodeFinds
<1>3. /\ f \in Frames
      /\ \A k \in 1..n : k <= Len(f) => Byte(r + k - 1) = f[k]
  BY <1>2, FrameInBuffer
<1>4. ~(Len(f) <= n)
  BY <1>1, <1>2 DEF NextIsWhole
<1>5. d \in 1..Len(sent)
  BY <1>2, NextFrame
<1>6. Len(f) \in Nat
  BY <1>3, FrameIs, LenProperties
<1> HIDE DEF d, f, r, n
<1>7. /\ i - r + 1 \in 2..Len(f) /\ i - r + 1 <= Len(f)
      /\ r + (i - r + 1) - 1 = i
  BY <1>1, <1>2, <1>4, <1>6
<1>8. f[i - r + 1] = 2
  BY <1>1, <1>2, <1>3, <1>7
<1>9. HoldsStart(f)
  BY <1>7, <1>8 DEF HoldsStart, PB_START
<1> QED
  BY <1>5, <1>9 DEF f

\* A frame appended to the bytes is laid out behind the others.
LEMMA LayoutAppend ==
    ASSUME NEW frames \in Seq(Seq(Bytes)), NEW bytes \in Seq(Bytes), NEW start,
           Layout(start, frames, bytes), NEW f \in Seq(Bytes)
    PROVE  \E longer : Layout(longer, Append(frames, f), bytes \o f)
<1> DEFINE n == Len(frames)
           longer == [i \in 1..(n + 2) |-> IF i <= n + 1 THEN start[i] ELSE Len(bytes) + Len(f)]
           more == Append(frames, f)
           both == bytes \o f
<1>1. n \in Nat /\ Len(bytes) \in Nat /\ Len(f) \in Nat
  BY LenProperties
<1>2. Len(more) = n + 1 /\ more[n + 1] = f /\ \A i \in 1..n : more[i] = frames[i]
  BY AppendProperties
<1>3. /\ Len(both) = Len(bytes) + Len(f)
      /\ \A k \in 1..(Len(bytes) + Len(f)) :
            both[k] = IF k <= Len(bytes) THEN bytes[k] ELSE f[k - Len(bytes)]
  BY ConcatProperties
<1>4. /\ start \in [1..(n + 1) -> Nat] /\ start[1] = 0 /\ start[n + 1] = Len(bytes)
      /\ \A i \in 1..(n + 1) : start[i] <= Len(bytes)
      /\ \A i \in 1..n : start[i + 1] = start[i] + Len(frames[i])
      /\ \A i \in 1..n : \A k \in 1..Len(frames[i]) : bytes[start[i] + k] = frames[i][k]
  BY DEF Layout
<1>5. /\ \A i \in 1..(n + 1) : longer[i] = start[i]
      /\ longer[n + 2] = Len(bytes) + Len(f)
  BY <1>1
<1>6. longer \in [1..(n + 2) -> Nat]
  <2>1. ASSUME NEW i \in 1..(n + 2)
        PROVE  (IF i <= n + 1 THEN start[i] ELSE Len(bytes) + Len(f)) \in Nat
    <3>1. CASE i <= n + 1
      <4>1. i \in 1..(n + 1)
        BY <1>1, <3>1
      <4> QED
        BY <1>4, <3>1, <4>1
    <3>2. CASE ~(i <= n + 1)
      BY <1>1, <3>2
    <3> QED
      BY <3>1, <3>2
  <2> QED
    BY <2>1
<1> HIDE DEF n, longer, more, both
<1>7. (n + 1) + 1 = n + 2 /\ 1 \in 1..(n + 1) /\ n + 1 \in 1..(n + 1)
  BY <1>1
<1>8. ASSUME NEW i \in 1..(n + 2) PROVE longer[i] <= Len(bytes) + Len(f)
  <2>1. CASE i \in 1..(n + 1)
    <3>1. longer[i] = start[i] /\ start[i] \in Nat /\ start[i] <= Len(bytes)
      BY <1>4, <1>5, <2>1
    <3> QED
      BY <1>1, <3>1
  <2>2. CASE i = n + 2
    BY <1>1, <1>5, <2>2
  <2>3. i \in 1..(n + 1) \/ i = n + 2
    BY <1>1
  <2> QED
    BY <2>1, <2>2, <2>3
<1>9. ASSUME NEW i \in 1..(n + 1)
      PROVE  /\ longer[i + 1] = longer[i] + Len(more[i])
             /\ \A k \in 1..Len(more[i]) : both[longer[i] + k] = more[i][k]
  <2>1. CASE i \in 1..n
    <3> DEFINE g == frames[i]
    <3>1. i \in 1..(n + 1) /\ i + 1 \in 1..(n + 1)
      BY <1>1, <2>1
    <3>2. /\ start[i] \in Nat /\ start[i + 1] \in Nat /\ start[i + 1] <= Len(bytes)
          /\ longer[i] = start[i] /\ longer[i + 1] = start[i + 1]
          /\ start[i + 1] = start[i] + Len(g) /\ more[i] = g
          /\ \A k \in 1..Len(g) : bytes[start[i] + k] = g[k]
      BY <1>2, <1>4, <1>5, <2>1, <3>1
    <3>3. Len(g) \in Nat
      <4>1. g \in Seq(Bytes)
        BY <2>1, ElementOfSeq DEF n
      <4> QED
        BY <4>1, LenProperties
    <3> HIDE DEF g
    <3>4. ASSUME NEW k \in 1..Len(g) PROVE both[start[i] + k] = g[k]
      <4>1. start[i] + k \in 1..(Len(bytes) + Len(f)) /\ start[i] + k <= Len(bytes)
        BY <1>1, <3>2, <3>3, SMTT(60)
      <4>2. both[start[i] + k] = bytes[start[i] + k]
        BY <1>3, <4>1
      <4> QED
        BY <3>2, <4>2
    <3> QED
      BY <3>2, <3>4
  <2>2. CASE i = n + 1
    <3>1. /\ more[i] = f /\ longer[i] = Len(bytes) /\ i + 1 = n + 2
          /\ longer[i + 1] = Len(bytes) + Len(f)
      BY <1>2, <1>4, <1>5, <1>7, <2>2
    <3>2. ASSUME NEW k \in 1..Len(f) PROVE both[Len(bytes) + k] = f[k]
      <4>1. /\ Len(bytes) + k \in 1..(Len(bytes) + Len(f)) /\ ~(Len(bytes) + k <= Len(bytes))
            /\ (Len(bytes) + k) - Len(bytes) = k
        BY <1>1
      <4> QED
        BY <1>3, <4>1
    <3> QED
      BY <3>1, <3>2
  <2>3. i \in 1..n \/ i = n + 1
    BY <1>1
  <2> QED
    BY <2>1, <2>2, <2>3
<1>10. longer[1] = 0 /\ longer[n + 2] = Len(both)
  BY <1>3, <1>4, <1>5, <1>7
<1>11. Layout(longer, more, both)
  <2>1. Len(more) = n + 1 /\ Len(more) + 1 = n + 2
    BY <1>2, <1>7
  <2>2. \A i \in 1..(n + 2) : longer[i] <= Len(both)
    BY <1>3, <1>8
  <2>3. longer[n + 2] = Len(both) /\ longer[1] = 0
    BY <1>10
  <2>4. /\ longer \in [1..(Len(more) + 1) -> Nat]
        /\ longer[Len(more) + 1] = Len(both)
        /\ \A i \in 1..(Len(more) + 1) : longer[i] <= Len(both)
    BY <1>6, <2>1, <2>2, <2>3
  <2>5. \A i \in 1..Len(more) :
           /\ longer[i + 1] = longer[i] + Len(more[i])
           /\ \A k \in 1..Len(more[i]) : both[longer[i] + k] = more[i][k]
    BY <1>9, <2>1
  <2> QED
    BY <2>3, <2>4, <2>5 DEF Layout
<1> QED
  BY <1>11 DEF more, both

LEMMA StreamEncode ==
    ASSUME StreamInv, NEW fields \in Fields, Encode(fields)
    PROVE  StreamInv'
<1> DEFINE f == Frame(fields)
<1>1. /\ TypeOK /\ ~written
      /\ sent \in Seq(Seq(Bytes)) /\ IsBuffer(outBuffer)
  BY DEF StreamInv, Encode, TypeOK
<1>2. Len(sent) \in Nat /\ Len(sent) + 1 \in 1..MaxMessages /\ MaxMessages \in Nat
  BY <1>1, StreamAssumption, LenProperties DEF Encode
<1>3. f \in Seq(Bytes)
  BY FrameIs DEF Frames
<1>4. sent' = Append(sent, f) /\ outBuffer' = WriteToBuffer(outBuffer, f)
  BY DEF Encode
<1>5. TypeOK'
  BY <1>1, TypeOKNext DEF Next, Client
<1>6. /\ pc' = pc /\ closed' = closed /\ written' = written /\ stream' = stream
      /\ inBuffer' = inBuffer /\ decoded' = decoded /\ misled' = misled
  BY DEF Encode, serverVars
<1>7. /\ Len(sent') = Len(sent) + 1 /\ sent'[Len(sent) + 1] = f
      /\ \A i \in 1..Len(sent) : sent'[i] = sent[i]
  BY <1>1, <1>3, <1>4, AppendProperties
<1>8. FramesInv'
  <2>1. ASSUME NEW i \in 1..(Len(sent) + 1) PROVE sent'[i] \in Frames
    <3>1. CASE i \in 1..Len(sent)
      BY <1>7, <3>1 DEF StreamInv, FramesInv
    <3>2. CASE i = Len(sent) + 1
      BY <1>7, <3>2 DEF Frames
    <3> QED
      BY <1>2, <3>1, <3>2
  <2>2. Len(sent') <= MaxMessages
    BY <1>2, <1>7
  <2>3. ~misled
    BY <1>1 DEF StreamInv, FramesInv
  <2> QED
    BY <1>6, <1>7, <2>1, <2>2, <2>3 DEF StreamInv, FramesInv
<1>9. \E start : Layout(start, sent', Encoded')
  <2>1. PICK start : Layout(start, sent, Encoded)
    BY DEF StreamInv
  <2>2. Encoded \in Seq(Bytes) /\ Encoded' = Encoded \o f
    BY <1>1, <1>3, <1>4, ContentsType, WriteAppends DEF Encoded
  <2> QED
    BY <1>1, <1>3, <1>4, <2>1, <2>2, LayoutAppend
<1>10. ~written'
  BY <1>1, <1>6
<1> QED
  BY <1>5, <1>8, <1>9, <1>10 DEF StreamInv

\* The client's write leaves the bytes that it has encoded on the wire.
LEMMA StreamWrite ==
    ASSUME StreamInv, Write
    PROVE  StreamInv'
<1>1. /\ TypeOK /\ ~written /\ ~closed /\ IsBuffer(inBuffer) /\ IsBuffer(outBuffer)
      /\ sent \in Seq(Seq(Bytes))
  BY DEF StreamInv, Write, TypeOK
<1>2. /\ pc = "idle" /\ inBuffer.r = inBuffer.w /\ decoded = <<>>
      /\ Len(sent) <= MaxMessages
      /\ \A i \in 1..Len(sent) : sent[i] \in Frames
      /\ ~misled
  BY <1>1 DEF StreamInv, FramesInv
<1>3. TypeOK'
  BY <1>1, TypeOKNext DEF Next, Client
<1>4. /\ pc' = pc /\ closed' = closed /\ written' /\ inBuffer' = inBuffer /\ decoded' = decoded
      /\ outBuffer' = outBuffer /\ sent' = sent /\ stream' = Encoded /\ misled' = misled
  BY DEF Write, serverVars, Encoded
<1>5. Encoded' = Encoded /\ Encoded \in Seq(Bytes)
  BY <1>1, <1>4, ContentsType DEF Encoded
<1>6. FramesInv'
  BY <1>1, <1>2, <1>4 DEF FramesInv
<1>7. Unread' = Encoded
  <2>1. /\ Contents(inBuffer) \in Seq(Bytes) /\ Len(Contents(inBuffer)) = 0
    <3>1. inBuffer.w - inBuffer.r = 0
      BY <1>1, <1>2, BufferFields
    <3> QED
      BY <1>1, <3>1, ContentsType
  <2>2. Contents(inBuffer) = <<>>
    BY <2>1, EmptySeq
  <2>3. Unread' = <<>> \o Encoded
    BY <1>4, <2>2 DEF Unread
  <2> QED
    BY <1>5, <2>3, ConcatEmptySeq
<1>8. PICK start : Layout(start, sent, Encoded)
  BY DEF StreamInv
<1>9. Len(decoded') = 0 /\ Len(sent) \in Nat /\ Len(Encoded) \in Nat
  BY <1>1, <1>2, <1>4, <1>5, LenProperties
<1>10. Received(start)'
  <2>1. start[1] = 0
    BY <1>8 DEF Layout
  <2>2. Len(decoded') + 1 = 1 /\ Len(decoded') <= Len(sent')
    BY <1>4, <1>9
  <2>3. Len(Unread') = Len(Encoded') - 0
    BY <1>5, <1>7, <1>9
  <2>4. \A k \in 1..Len(Unread') : Unread'[k] = Encoded'[0 + k]
    BY <1>5, <1>7, <1>9
  <2>5. \A i \in 1..Len(decoded') : FALSE
    BY <1>9
  <2> QED
    BY <2>1, <2>2, <2>3, <2>4, <2>5 DEF Received
<1>11. Layout(start, sent', Encoded')
  BY <1>4, <1>5, <1>8
<1>12. DecodeInv'
  <2>1. ReadAble(inBuffer') = 0
    BY <1>1, <1>2, <1>4, BufferFields DEF ReadAble
  <2>2. ASSUME Len(decoded') < Len(sent') PROVE 0 < Len(sent'[Len(decoded') + 1])
    <3>1. 1 \in 1..Len(sent) /\ Len(decoded') + 1 = 1
      BY <1>4, <1>9, <2>2
    <3>2. sent[1] \in Frames
      BY <1>2, <3>1
    <3>3. Len(sent[1]) \in Nat /\ 7 <= Len(sent[1])
      BY <3>2, FrameIs
    <3>4. 0 < Len(sent[1])
      BY <3>3
    <3> QED
      BY <1>4, <3>1, <3>4
  <2> QED
    BY <1>2, <1>4, <2>1, <2>2 DEF DecodeInv
<1> QED
  BY <1>3, <1>6, <1>10, <1>11, <1>12 DEF StreamInv
\* A step that leaves the frames and, unless bytes were lost, the unread bytes alone.
LEMMA StreamKeeps ==
    ASSUME StreamInv, TypeOK', FramesInv', written => DecodeInv',
           sent' = sent, outBuffer' = outBuffer, written' = written,
           written /\ ~lost' /\ ~misled' =>
             ~lost /\ ~misled /\ decoded' = decoded /\ Unread' = Unread
    PROVE  StreamInv'
<1>1. PICK start : /\ Layout(start, sent, Encoded)
                   /\ written /\ ~lost /\ ~misled => Received(start)
  BY DEF StreamInv
<1>2. Encoded' = Encoded
  BY DEF Encoded
<1>3. Layout(start, sent', Encoded')
  BY <1>1, <1>2
<1>4. ASSUME written', ~lost', ~misled' PROVE Received(start)'
  BY <1>1, <1>2, <1>4 DEF Received
<1> QED
  BY <1>3, <1>4 DEF StreamInv

LEMMA StreamRead ==
    ASSUME StreamInv, NEW n \in 1..Len(stream), Read(n)
    PROVE  StreamInv'
<1>1. TypeOK /\ FramesInv /\ stream \in Seq(Bytes)
  BY DEF StreamInv, TypeOK
<1>2. TypeOK'
  BY <1>1, TypeOKNext DEF Next, Receive
<1>3. /\ sent' = sent /\ outBuffer' = outBuffer /\ written' = written /\ closed' = closed
      /\ decoded' = decoded /\ pc' \in {"read", "decode"} /\ (~lost' => ~lost)
      /\ misled' = misled
  BY DEF Read, clientVars
<1>4. written
  <2> SUFFICES ASSUME ~written PROVE FALSE
    OBVIOUS
  <2>1. stream = <<>>
    BY <1>1 DEF FramesInv
  <2>2. Len(stream) = 0
    BY <2>1
  <2>3. n \in 1..0
    BY <2>2
  <2> QED
    BY <2>3
<1>5. FramesInv'
  BY <1>1, <1>3, <1>4 DEF FramesInv
<1>6. ASSUME ~lost' PROVE pc' = "decode"
  <2>1. n < WriteAble(inBuffer) /\ Room = inBuffer
    BY <1>1, <1>6, ReadStep, RoomIsThere
  <2>2. WriteAble(inBuffer) \in Int /\ n \in Int
    BY <1>1, BufferFields DEF TypeOK, WriteAble
  <2>3. n # WriteAble(Room)
    BY <2>1, <2>2
  <2> QED
    BY <2>3 DEF Read
<1>7. DecodeInv'
  BY <1>6 DEF DecodeInv
<1>8. ~lost' => Unread' = Unread
  BY <1>1, ReadKeepsUnread
<1> QED
  BY <1>2, <1>3, <1>5, <1>7, <1>8, StreamKeeps

LEMMA StreamReadNothing ==
    ASSUME StreamInv, ReadNothing
    PROVE  StreamInv'
<1>1. TypeOK /\ FramesInv /\ pc = "read"
  BY DEF StreamInv, ReadNothing
<1>2. TypeOK'
  BY <1>1, TypeOKNext DEF Next, Receive
<1>3. /\ sent' = sent /\ outBuffer' = outBuffer /\ written' = written /\ closed' = closed
      /\ lost' = lost /\ misled' = misled /\ pc' = "decode"
  BY DEF ReadNothing, clientVars
<1>4. written
  BY <1>1 DEF FramesInv
<1>5. lost \/ misled
  BY <1>1, <1>4 DEF StreamInv, DecodeInv
<1>6. FramesInv'
  BY <1>1, <1>3, <1>4 DEF FramesInv
<1>7. DecodeInv'
  BY <1>3, <1>5 DEF DecodeInv
<1> QED
  BY <1>2, <1>3, <1>5, <1>6, <1>7, StreamKeeps

LEMMA StreamReadEnd ==
    ASSUME StreamInv, ReadEnd
    PROVE  StreamInv'
<1>1. TypeOK /\ FramesInv /\ pc \in {"idle", "read"} /\ closed /\ stream = <<>>
  BY DEF StreamInv, ReadEnd
<1>2. TypeOK'
  BY <1>1, TypeOKNext DEF Next, Receive
<1>3. inBuffer' = inBuffer
  BY <1>1, RoomIsThere DEF ReadEnd
<1>4. /\ sent' = sent /\ outBuffer' = outBuffer /\ written' = written /\ closed' = closed
      /\ decoded' = decoded /\ stream' = stream /\ lost' = lost /\ misled' = misled
      /\ pc' = "closed"
  BY DEF ReadEnd, clientVars
<1>5. FramesInv'
  BY <1>1, <1>3, <1>4 DEF FramesInv
<1>6. ASSUME written PROVE DecodeInv'
  BY <1>1, <1>3, <1>4, <1>6 DEF StreamInv, DecodeInv
<1>7. Unread' = Unread
  BY <1>3, <1>4 DEF Unread
<1> QED
  BY <1>2, <1>4, <1>5, <1>6, <1>7, StreamKeeps

\* decode stops in front of a frame only if it is not all there.
LEMMA StreamDecodeEnd ==
    ASSUME StreamInv, DecodeEnd
    PROVE  StreamInv'
<1>1. TypeOK /\ FramesInv /\ pc = "decode" /\ \A k \in Readable : MayPass(k)
  BY DEF StreamInv, DecodeEnd
<1>2. TypeOK'
  BY <1>1, TypeOKNext DEF Next, Decode
<1>3. /\ sent' = sent /\ outBuffer' = outBuffer /\ written' = written /\ closed' = closed
      /\ decoded' = decoded /\ stream' = stream /\ lost' = lost /\ inBuffer' = inBuffer
      /\ misled' = misled /\ pc' = "idle"
  BY DEF DecodeEnd, clientVars
<1>4. written
  BY <1>1 DEF FramesInv
<1>5. FramesInv'
  BY <1>1, <1>3, <1>4 DEF FramesInv
<1>6. ASSUME ~lost, ~misled, Len(decoded) < Len(sent)
      PROVE  ReadAble(inBuffer) < Len(sent[Len(decoded) + 1])
  <2> DEFINE f == sent[Len(decoded) + 1]
             r == inBuffer.r
             n == ReadAble(inBuffer)
  <2>1. r \in Nat /\ n \in Nat /\ inBuffer.w = r + n
    BY <1>1, UnreadIs
  <2>2. f \in Frames
    BY <1>4, <1>6, NextFrame
  <2>3. Len(f) \in Nat /\ 7 <= Len(f)
    BY <2>2, FrameIs
  <2>4. Len(f) <= n => ~MayPass(r)
    BY <1>4, <1>6, CompleteFrame
  <2>5. Readable = r..(r + n - 1)
    BY <2>1 DEF Readable
  <2> HIDE DEF f, r, n
  <2>6. ASSUME Len(f) <= n PROVE FALSE
    <3>1. r \in r..(r + n - 1)
      BY <2>1, <2>3, <2>6
    <3> QED
      BY <1>1, <2>4, <2>5, <2>6, <3>1
  <2>7. n < Len(f)
    BY <2>1, <2>3, <2>6
  <2> QED
    BY <2>7 DEF f, n
<1>7. DecodeInv'
  BY <1>3, <1>6 DEF DecodeInv
<1>8. Unread' = Unread
  BY <1>3 DEF Unread
<1> QED
  BY <1>2, <1>3, <1>5, <1>7, <1>8, StreamKeeps

\* A frame that is taken out is the next one, and the bytes behind it are left.
LEMMA StreamDecodeOne ==
    ASSUME StreamInv, DecodeOne
    PROVE  StreamInv'
<1>1. TypeOK /\ FramesInv /\ pc = "decode"
  BY DEF StreamInv, DecodeOne
<1>2. TypeOK'
  BY <1>1, TypeOKNext DEF Next, Decode
<1>3. /\ sent' = sent /\ outBuffer' = outBuffer /\ written' = written /\ closed' = closed
      /\ stream' = stream /\ lost' = lost /\ pc' = pc
  BY DEF DecodeOne, clientVars
<1>4. written
  BY <1>1 DEF FramesInv
<1>m. ~misled' => ~misled
  BY DEF DecodeOne
<1>5. FramesInv'
  <2>1. ~lost /\ misled' => \E m \in 1..Len(sent) : HoldsStart(sent[m])
    BY <1>1, <1>4, DecodeMisled DEF FramesInv
  <2> QED
    BY <1>1, <1>3, <1>4, <2>1 DEF FramesInv
<1>6. DecodeInv'
  BY <1>1, <1>3 DEF DecodeInv
<1>7. CASE lost \/ misled' \/ (decoded' = decoded /\ Unread' = Unread)
  BY <1>2, <1>3, <1>m, <1>5, <1>6, <1>7, StreamKeeps
<1>8. CASE ~lost /\ ~misled' /\ ~(decoded' = decoded /\ Unread' = Unread)
  <2> DEFINE d == Len(decoded)
             f == sent[d + 1]
  <2>1. /\ d < Len(sent) /\ decoded' = Append(decoded, f)
        /\ Unread' = SubSeq(Unread, Len(f) + 1, Len(Unread))
    BY <1>4, <1>8, DecodeTakes
  <2>2. PICK start : Layout(start, sent, Encoded) /\ Received(start)
    BY <1>4, <1>m, <1>8 DEF StreamInv
  <2>3. /\ d \in Nat /\ Len(sent) \in Nat /\ Len(Encoded) \in Nat
        /\ Unread \in Seq(Bytes) /\ Len(Unread) \in Nat
        /\ sent \in Seq(Seq(Bytes)) /\ decoded \in Seq(Seq(Bytes))
    BY <1>1, UnreadIs, ContentsType, LenProperties DEF TypeOK, Encoded
  <2>4. d + 1 \in 1..Len(sent) /\ d + 1 \in 1..(Len(sent) + 1) /\ d + 2 = (d + 1) + 1
    BY <2>1, <2>3
  <2>5. f \in Seq(Bytes) /\ Len(f) \in Nat
    BY <2>3, <2>4, ElementOfSeq, LenProperties
  <2>6. Len(f) <= Len(Unread)
    BY <1>4, <1>m, <1>8, <2>1, NextFrame
  <2>7. start[d + 2] = start[d + 1] + Len(f) /\ start[d + 1] \in Nat
    BY <2>2, <2>4 DEF Layout
  <2>8. /\ Len(decoded') = d + 1 /\ decoded'[d + 1] = f
        /\ \A i \in 1..d : decoded'[i] = decoded[i]
    BY <2>1, <2>3, <2>5, AppendProperties
  <2>9. /\ Len(Unread) = Len(Encoded) - start[d + 1]
        /\ \A k \in 1..Len(Unread) : Unread[k] = Encoded[start[d + 1] + k]
        /\ \A i \in 1..d : decoded[i] = sent[i]
    BY <2>2 DEF Received
  <2> DEFINE fs == f
             u == Unread
             rest == SubSeq(u, Len(fs) + 1, Len(u))
  <2>10. /\ Len(rest) = Len(u) - Len(fs)
         /\ \A k \in 1..(Len(u) - Len(fs)) : rest[k] = u[Len(fs) + k]
    <3> HIDE DEF fs, u
    <3>1. u \in Seq(Bytes) /\ Len(fs) \in Nat /\ Len(u) \in Nat /\ Len(fs) <= Len(u)
      BY <2>3, <2>5, <2>6 DEF fs, u
    <3>2. \A k \in (Len(fs) + 1)..Len(u) : u[k] \in Bytes
      BY <3>1, ElementOfSeq
    <3> QED
      BY <3>1, <3>2, SubSeqProperties
  <2>11. Unread' = rest
    BY <2>1
  <2> HIDE DEF f, d, rest
  <2>12. Len(Unread') = Len(Encoded) - start[d + 2]
    <3>1. Len(Unread') = Len(Unread) - Len(f)
      BY <2>10, <2>11
    <3> QED
      BY <2>3, <2>5, <2>7, <2>9, <3>1
  <2>13. ASSUME NEW k \in 1..Len(Unread') PROVE Unread'[k] = Encoded[start[d + 2] + k]
    <3>1. Len(Unread') = Len(Unread) - Len(f)
      BY <2>10, <2>11
    <3>2. k \in 1..(Len(Unread) - Len(f)) /\ Len(f) + k \in 1..Len(Unread)
      BY <2>3, <2>5, <3>1
    <3>3. Unread'[k] = Unread[Len(f) + k]
      BY <2>10, <2>11, <3>2
    <3>4. Unread[Len(f) + k] = Encoded[start[d + 1] + (Len(f) + k)]
      BY <2>9, <3>2
    <3>5. start[d + 1] + (Len(f) + k) = start[d + 2] + k
      BY <2>5, <2>7
    <3> QED
      BY <3>3, <3>4, <3>5
  <2>14. ASSUME NEW i \in 1..(d + 1) PROVE decoded'[i] = sent[i]
    <3>1. CASE i \in 1..d
      BY <2>8, <2>9, <3>1
    <3>2. CASE i = d + 1
      BY <2>8, <3>2 DEF f
    <3>3. i \in 1..d \/ i = d + 1
      BY <2>3
    <3> QED
      BY <3>1, <3>2, <3>3
  <2>15. Encoded' = Encoded
    BY <1>3 DEF Encoded
  <2>16. Received(start)'
    <3>1. Len(decoded') = d + 1 /\ Len(decoded') + 1 = d + 2 /\ Len(decoded') <= Len(sent')
      BY <1>3, <2>1, <2>3, <2>4, <2>8 DEF d
    <3>2. \A i \in 1..Len(decoded') : decoded'[i] = sent'[i]
      BY <1>3, <2>14, <3>1
    <3>3. Len(Unread') = Len(Encoded') - start[Len(decoded') + 1]
      BY <2>12, <2>15, <3>1
    <3>4. \A k \in 1..Len(Unread') : Unread'[k] = Encoded'[start[Len(decoded') + 1] + k]
      BY <2>13, <2>15, <3>1
    <3> QED
      BY <3>1, <3>2, <3>3, <3>4 DEF Received
  <2>17. Layout(start, sent', Encoded')
    BY <1>3, <2>2, <2>15
  <2> QED
    BY <1>2, <1>5, <1>6, <2>16, <2>17 DEF StreamInv
<1> QED
  BY <1>7, <1>8
LEMMA StreamInvInit == Init => StreamInv
<1> SUFFICES ASSUME Init PROVE StreamInv
  OBVIOUS
<1>1. TypeOK
  BY TypeOKInit
<1>2. /\ sent = <<>> /\ ~written /\ ~misled /\ pc = "idle" /\ stream = <<>> /\ decoded = <<>>
      /\ outBuffer = NewBuffer(Size) /\ inBuffer = NewBuffer(Size)
  BY DEF Init
<1>3. Len(sent) = 0 /\ MaxMessages \in Nat
  BY <1>2, StreamAssumption
<1>4. FramesInv
  BY <1>2, <1>3 DEF FramesInv, NewBuffer
<1>5. Len(Encoded) = 0
  <2>1. outBuffer.w = 0 /\ outBuffer.r = 0 /\ IsBuffer(outBuffer)
    BY <1>1, <1>2 DEF TypeOK, NewBuffer
  <2> QED
    BY <2>1, ContentsType DEF Encoded
<1>6. Layout([i \in 1..1 |-> 0], sent, Encoded)
  BY <1>3, <1>5 DEF Layout
<1> QED
  BY <1>1, <1>2, <1>4, <1>6 DEF StreamInv

LEMMA StreamInvNext == StreamInv /\ [Next]_vars => StreamInv'
<1> SUFFICES ASSUME StreamInv, [Next]_vars PROVE StreamInv'
  OBVIOUS
<1>1. TypeOK /\ TypeOK'
  BY TypeOKNext DEF StreamInv
<1>2. CASE Close
  <2>1. FramesInv'
    BY <1>2 DEF StreamInv, FramesInv, Close, serverVars
  <2>2. ASSUME written PROVE DecodeInv'
    BY <1>2, <2>2 DEF StreamInv, DecodeInv, Close, serverVars
  <2>3. Unread' = Unread
    BY <1>2 DEF Close, serverVars, Unread
  <2> QED
    BY <1>1, <1>2, <2>1, <2>2, <2>3, StreamKeeps DEF Close, serverVars
<1>3. CASE UNCHANGED vars
  <2>1. FramesInv'
    BY <1>3 DEF StreamInv, FramesInv, vars, clientVars, serverVars
  <2>2. ASSUME written PROVE DecodeInv'
    BY <1>3, <2>2 DEF StreamInv, DecodeInv, vars, clientVars, serverVars
  <2>3. Unread' = Unread
    BY <1>3 DEF vars, serverVars, Unread
  <2> QED
    BY <1>1, <1>3, <2>1, <2>2, <2>3, StreamKeeps DEF vars, clientVars, serverVars
<1> QED
  BY <1>2, <1>3, StreamEncode, StreamWrite, StreamRead, StreamReadNothing, StreamReadEnd,
     StreamDecodeOne, StreamDecodeEnd DEF Next, Client, Receive, Decode

\* What is left when the connection is closed is less than a frame, and so there is no
\* frame left.
LEMMA StreamInvDecodes == StreamInv => DecodedInOrder
<1> SUFFICES ASSUME StreamInv, ~lost, ~misled
             PROVE  /\ IsPrefix(decoded, sent)
                    /\ pc = "closed" /\ written => decoded = sent
  BY DEF DecodedInOrder, StreamInv, FramesInv
<1>1. /\ TypeOK /\ FramesInv
      /\ decoded \in Seq(Seq(Bytes)) /\ sent \in Seq(Seq(Bytes))
      /\ Len(decoded) \in Nat /\ Len(sent) \in Nat
  BY LenProperties DEF StreamInv, TypeOK
<1>2. Len(decoded) <= Len(sent) /\ \A i \in 1..Len(decoded) : decoded[i] = sent[i]
  <2>1. CASE written
    BY <2>1 DEF StreamInv, Received
  <2>2. CASE ~written
    <3>1. Len(decoded) = 0
      BY <1>1, <2>2 DEF FramesInv
    <3> QED
      BY <1>1, <3>1
  <2> QED
    BY <2>1, <2>2
<1>3. IsPrefix(decoded, sent)
  <2> DEFINE front == SubSeq(sent, 1, Len(decoded))
  <2>1. \A i \in 1..Len(decoded) : sent[i] \in Seq(Bytes)
    BY <1>1, <1>2, ElementOfSeq
  <2>2. /\ front \in Seq(Seq(Bytes)) /\ Len(front) = Len(decoded)
        /\ \A i \in 1..Len(decoded) : front[i] = sent[i]
    BY <1>1, <1>2, <2>1, SubSeqProperties
  <2>3. decoded = front
    BY <1>1, <1>2, <2>2, SeqEqual
  <2>4. SubSeq(decoded, 1, Len(decoded)) = decoded
    BY <1>1, SubSeqFull
  <2> QED
    BY <1>2, <2>3, <2>4 DEF IsPrefix
<1>4. ASSUME pc = "closed", written PROVE decoded = sent
  <2>1. Len(decoded) = Len(sent)
    <3> SUFFICES ASSUME Len(decoded) < Len(sent) PROVE FALSE
      BY <1>1, <1>2
    <3> DEFINE f == sent[Len(decoded) + 1]
    <3>1. stream = <<>> /\ ReadAble(inBuffer) < Len(f)
      BY <1>4 DEF StreamInv, DecodeInv
    <3>2. Len(f) <= Len(Unread)
      BY <1>4, NextFrame
    <3>3. Len(Unread) = ReadAble(inBuffer) + Len(stream) /\ ReadAble(inBuffer) \in Nat
      BY <1>1, UnreadIs
    <3>4. f \in Frames
      BY <1>4, NextFrame
    <3>5. Len(f) \in Nat
      BY <3>4, FrameIs
    <3> HIDE DEF f
    <3>6. Len(stream) = 0
      BY <3>1
    <3> QED
      BY <3>1, <3>2, <3>3, <3>5, <3>6
  <2> QED
    BY <1>1, <1>2, <2>1, SeqEqual
<1> QED
  BY <1>3, <1>4

\* What the server hands out of m_in_buffer, although decode looks at bytes behind
\* the write index (tinypb_coder.cc:42-58) and onRead compacts what it has not decoded,
\* is what encode put into m_out_buffer, frame by frame, whatever bytes the frames hold;
\* and clear() throws away no frame that has arrived (tcp_connection.cc:75-79). Only a
\* read that moveWriteIndex refuses can break that, and a frame found inside one that
\* has not all come, which happens only if some frame holds a PB_START behind its first
\* byte.
THEOREM DecodedIsSent == Spec => []DecodedInOrder
<1>1. Init => StreamInv
  BY StreamInvInit
<1>2. StreamInv /\ [Next]_vars => StreamInv'
  BY StreamInvNext
<1>3. StreamInv => DecodedInOrder
  BY StreamInvDecodes
<1> QED
  BY <1>1, <1>2, <1>3, PTL DEF Spec
-----------------------------------------------------------------------------
(* The bytes.                                                              *)

LEMMA UnreadStep ==
    ASSUME StreamInv, [Next]_vars, written, ~lost', ~misled'
    PROVE  \E n \in 0..Len(Unread) : Unread' = SubSeq(Unread, n + 1, Len(Unread))
<1> DEFINE Goal == \E n \in 0..Len(Unread) : Unread' = SubSeq(Unread, n + 1, Len(Unread))
<1>t. TypeOK
  BY DEF StreamInv
<1>1. ASSUME Unread' = Unread PROVE Goal
  BY <1>t, <1>1, UnreadType
<1>2. ASSUME NEW n \in 1..Len(stream), Read(n) PROVE Goal
  BY <1>t, <1>1, <1>2, ReadKeepsUnread
<1>3. CASE DecodeOne
  <2>1. ~lost /\ ~misled
    BY <1>3 DEF DecodeOne
  <2>2. CASE decoded' = decoded /\ Unread' = Unread
    BY <1>1, <2>2
  <2>3. CASE ~(decoded' = decoded /\ Unread' = Unread)
    <3> DEFINE f == sent[Len(decoded) + 1]
    <3>1. Len(decoded) < Len(sent) /\ Unread' = SubSeq(Unread, Len(f) + 1, Len(Unread))
      BY <1>3, <2>1, <2>3, DecodeTakes
    <3>2. f \in Frames /\ Len(f) <= Len(Unread)
      BY <2>1, <3>1, NextFrame
    <3>3. Len(f) \in Nat
      BY <3>2, FrameIs
    <3>4. Len(Unread) \in Nat
      BY <1>t, UnreadType, LenProperties
    <3> HIDE DEF f
    <3>5. Len(f) \in 0..Len(Unread)
      BY <3>2, <3>3, <3>4
    <3> QED
      BY <3>1, <3>5
  <2> QED
    BY <2>2, <2>3
<1>4. CASE ReadNothing
  BY <1>t, <1>1, <1>4, RoomIsThere DEF ReadNothing, Unread
<1>5. CASE ReadEnd
  BY <1>t, <1>1, <1>5, RoomIsThere DEF ReadEnd, Unread
<1>6. CASE Close \/ DecodeEnd \/ UNCHANGED vars
  BY <1>1, <1>6 DEF Close, DecodeEnd, vars, serverVars, Unread
<1>7. ASSUME NEW fields \in Fields PROVE ~Encode(fields)
  BY DEF Encode
<1>8. ~Write
  BY DEF Write
<1> QED
  BY <1>2, <1>3, <1>4, <1>5, <1>6, <1>7, <1>8 DEF Next, Client, Receive, Decode

\* The unread bytes of a connection, in m_in_buffer and behind it on the wire, lose
\* bytes at the front only, whatever onRead, moveWriteIndex, adjustBuffer,
\* moveReadIndex and decode do, unless a read fills the buffer to its end or decode is
\* misled by a frame that it finds inside another.
THEOREM BytesKeepOrder == Spec => BytesStayInOrder
<1>1. Init => StreamInv
  BY StreamInvInit
<1>2. StreamInv /\ [Next]_vars => StreamInv'
  BY StreamInvNext
<1>3. StreamInv /\ [Next]_vars =>
        (written /\ ~lost' /\ ~misled' =>
            \E n \in 0..Len(Unread) : Unread' = SubSeq(Unread, n + 1, Len(Unread)))
  BY UnreadStep
<1> QED
  BY <1>1, <1>2, <1>3, PTL DEF Spec, BytesStayInOrder
=============================================================================
