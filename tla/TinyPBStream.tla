----------------------------- MODULE TinyPBStream -----------------------------
(***************************************************************************)
(* One direction of a connection, from the client's m_out_buffer to the    *)
(* messages that the server's decode hands out: TinyPBCoder::encode,       *)
(* onWrite, the network, onRead, m_in_buffer, TinyPBCoder::decode          *)
(* (src/netrpc/net/tcp/tcp_connection.cc, net/coder/tinypb_coder.cc).      *)
(*                                                                         *)
(* A frame keeps its start, its four length bytes and its end; what lies   *)
(* between them can be any bytes, a start or an end among them.            *)
(***************************************************************************)
EXTENDS TcpBuffer, SequencesExt

CONSTANTS
    Size,           \* bytes of m_in_buffer, 128 in the code
    Fields,         \* what a message has between its length and its end
    MaxMessages     \* bound: messages the peer sends

PB_START == 2
PB_END == 3
HeaderEnd == 5      \* bytes of a frame up to the end of its length
MaxInt == 2147483647

\* A message has an id at least; pk_len and the indices of a buffer are ints.
ASSUME StreamAssumption ==
    /\ Size \in 1..MaxInt
    /\ MaxMessages \in Nat
    /\ Fields \subseteq Seq(Bytes) \ {<<>>}
    /\ \A p \in Fields : Len(p) <= MaxInt - (HeaderEnd + 1)

VARIABLES
    outBuffer,      \* m_out_buffer of the client
    sent,           \* history: the frames encoded into it
    written,        \* the client's onWrite has written the buffer
    closed,         \* the client has closed the connection
    stream,         \* bytes written and not yet read
    pc,             \* the server: "idle", "read", "decode"; "closed" after clear()
    inBuffer,       \* its m_in_buffer
    decoded,        \* history: the frames decode has handed out
    lost,           \* history: moveWriteIndex has refused bytes that were read
    misled          \* history: decode has found a frame inside one that had not all come

clientVars == <<outBuffer, sent, written, closed>>
serverVars == <<pc, inBuffer, decoded, lost, misled>>
vars == <<clientVars, stream, serverVars>>

TypeOK ==
    /\ IsBuffer(outBuffer)
    /\ sent \in Seq(Seq(Bytes))
    /\ written \in BOOLEAN
    /\ closed \in BOOLEAN
    /\ stream \in Seq(Bytes)
    /\ pc \in {"idle", "read", "decode", "closed"}
    /\ IsBuffer(inBuffer)
    /\ inBuffer.size = Size
    /\ inBuffer.w < Size
    /\ decoded \in Seq(Seq(Bytes))
    /\ lost \in BOOLEAN
    /\ misled \in BOOLEAN

Init ==
    /\ outBuffer = NewBuffer(Size)
    /\ sent = <<>>
    /\ written = FALSE
    /\ closed = FALSE
    /\ stream = <<>>
    /\ pc = "idle"
    /\ inBuffer = NewBuffer(Size)
    /\ decoded = <<>>
    /\ lost = FALSE
    /\ misled = FALSE

-----------------------------------------------------------------------------
(* The client's onWrite: encode the messages that wait, then write.        *)

\* htonl and getInt32FromNetByte: a signed number of four bytes, the highest first.
NetByte(n, k) == (n \div <<16777216, 65536, 256, 1>>[k]) % 256
FromNet(b) ==
    ((IF b[1] < 128 THEN b[1] ELSE b[1] - 256) * 256 + b[2]) * 65536 + b[3] * 256 + b[4]

\* encodeTinyPB: start, length of the whole, fields, end.
Frame(fields) ==
    LET len == Len(fields) + HeaderEnd + 1
    IN  [k \in 1..len |-> CASE k = 1 -> PB_START
                            [] k \in 2..HeaderEnd -> NetByte(len, k - 1)
                            [] k = len -> PB_END
                            [] OTHER -> fields[k - HeaderEnd]]
Frames == {Frame(fields) : fields \in Fields}

Encode(fields) ==
    /\ ~written
    /\ ~closed
    /\ Len(sent) < MaxMessages
    /\ sent' = Append(sent, Frame(fields))
    /\ outBuffer' = WriteToBuffer(outBuffer, Frame(fields))
    /\ UNCHANGED <<written, closed, stream, serverVars>>

\* The one write of a client that uses its connection for one batch; the read
\* index of the buffer stays where it is.
Write ==
    /\ ~written
    /\ ~closed
    /\ written' = TRUE
    /\ stream' = Contents(outBuffer)
    /\ UNCHANGED <<outBuffer, sent, closed, serverVars>>

\* ~TcpClient.
Close ==
    /\ ~closed
    /\ closed' = TRUE
    /\ UNCHANGED <<outBuffer, sent, written, stream, serverVars>>

-----------------------------------------------------------------------------
(* onRead.                                                                 *)

Room == IF WriteAble(inBuffer) = 0 THEN ResizeBuffer(inBuffer, 2 * inBuffer.size)
                                   ELSE inBuffer

\* read() takes what has arrived, n bytes; a full read is followed by another.
Read(n) ==
    /\ pc \in {"idle", "read"}
    /\ n <= WriteAble(Room)
    /\ inBuffer' = MoveWriteIndex(Put(Room, Room.w, SubSeq(stream, 1, n)), n)
    /\ stream' = SubSeq(stream, n + 1, Len(stream))
    /\ lost' = (lost \/ ReadAble(inBuffer') # ReadAble(Room) + n)
    /\ pc' = IF n = WriteAble(Room) THEN "read" ELSE "decode"
    /\ UNCHANGED <<clientVars, decoded, misled>>

\* EAGAIN.
ReadNothing ==
    /\ pc = "read"
    /\ inBuffer' = Room
    /\ pc' = "decode"
    /\ UNCHANGED <<clientVars, stream, decoded, lost, misled>>

\* read() returns 0: clear(), without a look at the buffer.
ReadEnd ==
    /\ pc \in {"idle", "read"}
    /\ closed
    /\ stream = <<>>
    /\ inBuffer' = Room
    /\ pc' = "closed"
    /\ UNCHANGED <<clientVars, stream, decoded, lost, misled>>

-----------------------------------------------------------------------------
(* decode, one turn of while (1) a step.                                   *)

Byte(i) == inBuffer.data[i]

\* What getInt32FromNetByte may return at i + 1. One length byte received is enough
\* for the code to read four; those behind the array can be anything. Of the lengths
\* that this allows, the ones longer than the array lead nowhere.
Lengths(i) ==
    IF i + 4 < inBuffer.size
      THEN {FromNet([k \in 1..4 |-> Byte(i + k)])}
      ELSE {len \in (0 - inBuffer.size)..inBuffer.size :
              \A k \in 1..4 : i + k < inBuffer.size => Byte(i + k) = NetByte(len, k)}

\* Mutant of IsEnd: the last byte received is not taken for an end.
IsEndBeforeLast(j) ==
    /\ j + 1 < inBuffer.w
    /\ j # -1
    /\ j >= 0 => Byte(j) = PB_END

\* tmp[j] may be a PB_END. In front of the array is the size of its chunk of memory,
\* whose last byte is 0, and then whatever there is.
IsEnd(j) ==
    /\ j < inBuffer.w
    /\ j # -1
    /\ j >= 0 => Byte(j) = PB_END

\* The ends that the scan may accept for a frame that starts at i.
Matches(i) ==
    IF Byte(i) = PB_START /\ i + 1 < inBuffer.w
      THEN {j \in {i + len - 1 : len \in Lengths(i)} : IsEnd(j)}
      ELSE {}

Readable == inBuffer.r..(inBuffer.w - 1)

\* The scan cannot pass a start whose length is certain and leads to an end.
MayPass(i) == (\A j \in Matches(i) : j < 0) \/ i + 4 >= inBuffer.size

\* The frame that has to be decoded next has all come.
NextIsWhole ==
    /\ Len(decoded) < Len(sent)
    /\ Len(sent[Len(decoded) + 1]) <= ReadAble(inBuffer)

\* The frame i..j: the read index moves by its length, wherever it was found. Of a
\* frame that encode has not made, the lengths of the fields may be in error.
DecodeOne ==
    /\ pc = "decode"
    /\ \E i \in Readable : \E j \in Matches(i) :
          /\ \A k \in inBuffer.r..(i - 1) : MayPass(k)
          /\ inBuffer' = MoveReadIndex(inBuffer, j - i + 1)
          /\ LET frame == [k \in 1..(j - i + 1) |-> Byte(i + k - 1)]
             IN  \/ i + HeaderEnd < j /\ decoded' = Append(decoded, frame)
                 \/ (i + HeaderEnd < j => frame \notin Frames) /\ UNCHANGED decoded
          /\ misled' = (misled \/ (i # inBuffer.r /\ ~NextIsWhole))
    /\ UNCHANGED <<clientVars, stream, pc, lost>>

DecodeEnd ==
    /\ pc = "decode"
    /\ \A k \in Readable : MayPass(k)
    /\ pc' = "idle"
    /\ UNCHANGED <<clientVars, stream, inBuffer, decoded, lost, misled>>

-----------------------------------------------------------------------------

Client == (\E fields \in Fields : Encode(fields)) \/ Write \/ Close
Receive == (\E n \in 1..Len(stream) : Read(n)) \/ ReadNothing \/ ReadEnd
Decode == DecodeOne \/ DecodeEnd
Next == Client \/ Receive \/ Decode

\* The server's loop calls onRead as long as the socket is readable, and onRead
\* and decode run without waiting for anything. The client owes nothing.
Fairness == WF_vars(Receive \/ Decode)

Spec == Init /\ [][Next]_vars /\ Fairness

-----------------------------------------------------------------------------
(* Properties.                                                             *)

HoldsStart(frame) == \E k \in 2..Len(frame) : frame[k] = PB_START

\* However the buffers grow and are compacted (tcp_buffer.cc:60-85), however the
\* bytes are cut into pieces, and although decode looks at bytes it has not
\* received yet (tinypb_coder.cc:42-58): what has been decoded is what was encoded,
\* in order; and it is all of it by the time onRead meets the client's close
\* (tcp_connection.cc:75-79), where clear() does not look at the buffer. There are two
\* exceptions: bytes were lost, or the scan, which goes on behind the start of a frame
\* that has not all come (line 49), has found one inside it, for which a message must hold
\* a PB_START.
DecodedInOrder ==
    ~lost =>
        IF misled
          THEN \E n \in 1..Len(sent) : HoldsStart(sent[n])
          ELSE /\ IsPrefix(decoded, sent)
               /\ pc = "closed" /\ written => decoded = sent

\* What the server has not decoded yet, in its buffer and then on the wire, loses
\* bytes at its front only: no read, no compaction of the buffer between two
\* frames and no message taken out reorders or repeats a byte, with the same
\* exceptions (the length of a frame found inside another may be negative).
Unread == Contents(inBuffer) \o stream

BytesStayInOrder ==
    [][written /\ ~lost' /\ ~misled' =>
         \E n \in 0..Len(Unread) : Unread' = SubSeq(Unread, n + 1, Len(Unread))]_vars

\* decode goes around on the spot: of a frame it has the start and no length byte that
\* is not 0, and in front of it lies the end of the frame before.
Stuck ==
    /\ pc = "decode"
    /\ inBuffer.r > 0
    /\ ReadAble(inBuffer) \in 2..4
    /\ Byte(inBuffer.r - 1) = PB_END
    /\ Byte(inBuffer.r) = PB_START
    /\ \A i \in (inBuffer.r + 1)..(inBuffer.w - 1) : Byte(i) = 0

\* A message that was written is decoded, with the same exceptions: decode does not
\* stop for good before a frame that is complete, and runs forever only at the start
\* of a frame that is cut in its length.
DecodedEventually ==
    \A n \in 1..MaxMessages :
        (written /\ Len(sent) = n) ~> (lost \/ misled \/ Stuck \/ Len(decoded) >= n)

\* decode does not block the thread that calls onRead.
DecodeReturns == (pc = "decode") ~> (pc # "decode")
=============================================================================
