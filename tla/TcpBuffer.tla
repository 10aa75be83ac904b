------------------------------ MODULE TcpBuffer ------------------------------
(***************************************************************************)
(* TcpBuffer (src/netrpc/net/tcp/tcp_buffer.cc): a byte array with a read  *)
(* and a write index. A buffer is a record: size is m_buffer.size(), data  *)
(* the array, indexed from 0 as in the code, r and w are m_read_index and  *)
(* m_write_index. std::vector fills a new array with zeros.                *)
(***************************************************************************)
EXTENDS Integers, Sequences

Bytes == 0..255

Buffers(n) == [size : {n}, data : [0..(n - 1) -> Bytes], r : 0..n, w : 0..n]

IsBuffer(b) == b.size \in Nat /\ b \in Buffers(b.size) /\ b.r <= b.w

NewBuffer(n) == [size |-> n, data |-> [k \in 0..(n - 1) |-> 0], r |-> 0, w |-> 0]

ReadAble(b) == b.w - b.r
WriteAble(b) == b.size - b.w

\* What has been written and not yet read.
Contents(b) == [k \in 1..ReadAble(b) |-> b.data[b.r + k - 1]]

\* Mutant of ResizeBuffer: the bytes are copied from the start of the array.
ResizeBufferFromStart(b, n) ==
    LET count == IF n < ReadAble(b) THEN n ELSE ReadAble(b)
    IN  [size |-> n,
         data |-> [k \in 0..(n - 1) |-> IF k < count THEN b.data[k] ELSE 0],
         r |-> 0,
         w |-> count]

\* The readable bytes move to the front of a new array; what does not fit is lost.
ResizeBuffer(b, n) ==
    LET count == IF n < ReadAble(b) THEN n ELSE ReadAble(b)
    IN  [size |-> n,
         data |-> [k \in 0..(n - 1) |-> IF k < count THEN b.data[b.r + k] ELSE 0],
         r |-> 0,
         w |-> count]

\* The bytes move to the front once a third of the array has been read.
AdjustBuffer(b) == IF b.r < b.size \div 3 THEN b ELSE ResizeBuffer(b, b.size)

\* Both move functions refuse an index that would reach the end of the array; a
\* negative one is even larger as a size_t.
MoveReadIndex(b, n) ==
    IF b.r + n \notin 0..(b.size - 1) THEN b ELSE AdjustBuffer([b EXCEPT !.r = @ + n])

\* Mutant of MoveWriteIndex: the bound is off by one.
MoveWriteIndexToEnd(b, n) ==
    IF b.w + n > b.size THEN b ELSE AdjustBuffer([b EXCEPT !.w = @ + n])

MoveWriteIndex(b, n) ==
    IF b.w + n >= b.size THEN b ELSE AdjustBuffer([b EXCEPT !.w = @ + n])

\* memcpy of s at the index i.
Put(b, i, s) ==
    [b EXCEPT !.data = [k \in DOMAIN @ |-> IF k \in i..(i + Len(s) - 1)
                                             THEN s[k - i + 1]
                                             ELSE @[k]]]

WriteToBuffer(b, s) ==
    LET room == IF Len(s) > WriteAble(b)
                  THEN ResizeBuffer(b, (3 * (b.w + Len(s))) \div 2)
                  ELSE b
    IN  [Put(room, room.w, s) EXCEPT !.w = @ + Len(s)]
=============================================================================
