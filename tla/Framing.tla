------------------------------- MODULE Framing -------------------------------
(***************************************************************************)
(* Frames over a byte stream (skaidb-proto/src/frame.rs): the writer, in   *)
(* one piece or by vectored writes that may be short, and the reader into  *)
(* a buffer it reuses.                                                     *)
(*                                                                         *)
(* The prefix is two bytes, big-endian (four in the code).  Either side of *)
(* the stream may be lost at any byte.                                     *)
(***************************************************************************)
EXTENDS Integers, Sequences

CONSTANTS
    Payload,            \* the payloads a caller may send
    MAX_FRAME_LEN,
    COALESCE_LIMIT,
    MaxFrames           \* bound on the frames of a behaviour

ASSUME FramingAssumption ==
    /\ Payload \subseteq Seq(0..255)
    /\ {COALESCE_LIMIT, MAX_FRAME_LEN, MaxFrames} \subseteq Nat /\ MAX_FRAME_LEN < 65536

VARIABLES
    sent,       \* the payloads handed to the writer and accepted, in order
    refused,    \* the payloads it refused
    head, body, \* what a vectored write still has to write
    writer,     \* "idle", "vectored" or "broken"
    stream,     \* the bytes written and not read
    cut,        \* whether the stream has ended
    buf,        \* the reader's buffer
    reader,     \* "idle", "reading" or "failed"
    received    \* the payloads read, in order

frameVars == <<sent, refused, head, body, writer, stream, cut, buf, reader, received>>

FramingInit ==
    /\ sent = <<>> /\ refused = 0 /\ head = <<>> /\ body = <<>> /\ writer = "idle"
    /\ stream = <<>> /\ cut = FALSE /\ buf = <<>> /\ reader = "idle" /\ received = <<>>

Prefix(p) == <<Len(p) \div 256, Len(p) % 256>>

readVars == <<buf, reader, received>>

-----------------------------------------------------------------------------
(* The writer *)

\* write_all hands over the bytes, or fails after some of them.
WriteAll(bs) ==
    \/ stream' = stream \o bs /\ UNCHANGED <<writer, cut>>
    \/ \E n \in 0..(Len(bs) - 1) :
          stream' = stream \o SubSeq(bs, 1, n) /\ writer' = "broken" /\ cut' = TRUE

Refuse(p) == Len(p) > MAX_FRAME_LEN /\ refused' = refused + 1 /\ UNCHANGED <<sent, head, body, writer, stream, cut>>

\* write_frame
write_frame(p) ==
    /\ writer = "idle" /\ ~cut /\ Len(sent) + refused < MaxFrames
    /\ \/ Refuse(p)
       \/ /\ Len(p) <= MAX_FRAME_LEN
          /\ sent' = Append(sent, p)
          /\ IF Len(p) <= COALESCE_LIMIT
             THEN WriteAll(Prefix(p) \o p) /\ UNCHANGED <<head, body>>
             ELSE head' = Prefix(p) /\ body' = p /\ writer' = "vectored" /\ UNCHANGED <<stream, cut>>
          /\ UNCHANGED refused
    /\ UNCHANGED readVars

\* begin_frame, the payload encoded behind it, and finish_frame
finish_frame(p) ==
    /\ writer = "idle" /\ ~cut /\ Len(sent) + refused < MaxFrames
    /\ \/ Refuse(p)
       \/ /\ Len(p) <= MAX_FRAME_LEN
          /\ sent' = Append(sent, p)
          /\ WriteAll(Prefix(p) \o p)
          /\ UNCHANGED <<refused, head, body>>
    /\ UNCHANGED readVars

\* What is left of the prefix and of the payload after n bytes.
Unwritten(n) ==
    IF n >= Len(head) THEN <<(<<>>), SubSeq(body, n - Len(head) + 1, Len(body))>>
    ELSE <<SubSeq(head, n + 1, Len(head)), body>>

\* One turn of write_all_vectored: n bytes of prefix and payload are written.
write_vectored ==
    /\ writer = "vectored"
    /\ \/ /\ head = <<>> /\ body = <<>> /\ writer' = "idle"
          /\ UNCHANGED <<head, body, stream, cut>>
       \/ \E n \in 1..(Len(head) + Len(body)) :
             /\ stream' = stream \o SubSeq(head \o body, 1, n)
             /\ head' = Unwritten(n)[1] /\ body' = Unwritten(n)[2]
             /\ UNCHANGED <<writer, cut>>
    /\ UNCHANGED <<sent, refused, readVars>>

\* A write fails or writes nothing: the frame is abandoned, and with it the
\* connection.
WriteFails ==
    /\ writer = "vectored" /\ head \o body # <<>>
    /\ writer' = "broken" /\ cut' = TRUE
    /\ UNCHANGED <<sent, refused, head, body, stream, readVars>>

\* The peer closes between frames.
Close ==
    /\ writer = "idle" /\ ~cut /\ cut' = TRUE
    /\ UNCHANGED <<sent, refused, head, body, writer, stream, readVars>>

-----------------------------------------------------------------------------
(* The reader *)

\* Mutant of Resized: the buffer is not truncated.
ResizedGrown(n) == [i \in 1..(IF Len(buf) < n THEN n ELSE Len(buf)) |-> IF i <= Len(buf) THEN buf[i] ELSE 0]

\* The buffer of the last frame, grown with zeros or truncated to n bytes.
Resized(n) == [i \in 1..n |-> IF i <= Len(buf) THEN buf[i] ELSE 0]

\* read_frame_into reads the length and sizes the buffer.
ReadLength ==
    /\ reader = "idle" /\ Len(stream) >= 2
    /\ stream' = SubSeq(stream, 3, Len(stream))
    /\ LET n == stream[1] * 256 + stream[2]
       IN  IF n > MAX_FRAME_LEN THEN reader' = "failed" /\ UNCHANGED buf
           ELSE reader' = "reading" /\ buf' = Resized(n)
    /\ UNCHANGED <<sent, refused, head, body, writer, cut, received>>

\* read_exact over the whole buffer
ReadPayload ==
    /\ reader = "reading" /\ Len(stream) >= Len(buf)
    /\ buf' = SubSeq(stream, 1, Len(buf)) /\ received' = Append(received, buf')
    /\ stream' = SubSeq(stream, Len(buf) + 1, Len(stream))
    /\ reader' = "idle"
    /\ UNCHANGED <<sent, refused, head, body, writer, cut>>

\* read_exact meets the end of the stream.
ReadEnds ==
    /\ cut
    /\ \/ reader = "idle" /\ Len(stream) < 2
       \/ reader = "reading" /\ Len(stream) < Len(buf)
    /\ reader' = "failed"
    /\ UNCHANGED <<sent, refused, head, body, writer, stream, cut, buf, received>>

Write == \E p \in Payload : write_frame(p) \/ finish_frame(p)

FramingNext == Write \/ write_vectored \/ WriteFails \/ Close \/ ReadLength \/ ReadPayload \/ ReadEnds

FramingSpec == FramingInit /\ [][FramingNext]_frameVars

-----------------------------------------------------------------------------

\* What is read is what was sent, frame for frame and in order, however the
\* writes were split and wherever the stream broke: no payload is cut, joined
\* with the next one, or left over from an earlier one in the buffer; and the
\* reader fails only where the stream ends.
FramesInOrder ==
    /\ Len(received) <= Len(sent) /\ received = SubSeq(sent, 1, Len(received))
    /\ reader = "failed" => cut

\* The sequences of fs, one after the other.
Joined(fs) ==
    LET joined[i \in 0..Len(fs)] == IF i = 0 THEN <<>> ELSE joined[i - 1] \o fs[i]
    IN  joined[Len(fs)]

\* The bytes of the accepted frames are on the stream in order: once every
\* write is over and none failed, nothing is missing and nothing was added.
StreamExact ==
    writer = "idle" /\ ~cut /\ reader = "idle" =>
        stream = Joined([i \in 1..(Len(sent) - Len(received)) |->
                            Prefix(sent[Len(received) + i]) \o sent[Len(received) + i]])

\* Frames arrive whole, in order and once, and the bytes of the stream are
\* exactly those of the frames written.
FramesArrive == FramesInOrder /\ StreamExact
=============================================================================
