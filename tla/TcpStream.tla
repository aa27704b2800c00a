------------------------------- MODULE TcpStream -------------------------------
(***************************************************************************)
(* Interleaved data on an RTSP connection (libs/rtsp/src/tcp_stream.rs):   *)
(* frames on a byte stream that arrives in pieces.                         *)
(*                                                                         *)
(* A byte is its value v, and where it comes from: byte `at` of frame id,  *)
(* which the reader does not see.  An RTSP message among the frames is one *)
(* byte.  MAX_FRAME_SIZE is more than a length field can say.              *)
(***************************************************************************)
EXTENDS Naturals, Sequences

CONSTANTS
  MaxRead,      \* TCP_READ_BUFFER_SIZE
  MaxBuffer     \* MAX_BUFFER_SIZE

ASSUME TcpStreamAssumption == MaxRead \in Nat \ {0} /\ MaxBuffer \in Nat /\ MaxRead < MaxBuffer

Dollar == 36
Letter == 79    \* the first of a message
HeaderSize == 4

Message == [v |-> Letter, id |-> 0, at |-> 0]

\* build_interleaved_frame
BuildInterleavedFrame(channel, data, id) ==
  LET bytes == <<Dollar, channel, Len(data) \div 256, Len(data) % 256>> \o data
  IN [k \in DOMAIN bytes |-> [v |-> bytes[k], id |-> id, at |-> k]]

NewReader == [buffer |-> <<>>, open |-> TRUE]

LengthField(buffer) == 256 * buffer[3].v + buffer[4].v

\* Mutant: a header is enough to take what follows for the whole frame.
ParseInterleavedFrameEager(buffer) ==
  /\ Len(buffer) >= HeaderSize
  /\ buffer[1].v = Dollar

\* parse_interleaved_frame gives a frame: a header, if the first byte is that of
\* one, and all that it says follows.
ParseInterleavedFrame(buffer) ==
  /\ Len(buffer) >= HeaderSize
  /\ buffer[1].v = Dollar
  /\ Len(buffer) >= HeaderSize + LengthField(buffer)

\* The frame in the first size bytes; of is the frame that was sent, or 0 when
\* the header is something else's bytes.
FrameOf(buffer, size) ==
  [channel |-> buffer[2].v, data |-> [k \in 1..(size - HeaderSize) |-> buffer[HeaderSize + k].v],
   of |-> IF buffer[1].at = 1 THEN buffer[1].id ELSE 0]

\* The frames at the head of the buffer, and what is left.
RECURSIVE TakeFrames(_)
TakeFrames(buffer) ==
  IF ~ParseInterleavedFrame(buffer) THEN [frames |-> <<>>, rest |-> buffer]
  ELSE LET total == HeaderSize + LengthField(buffer)
           size == IF Len(buffer) < total THEN Len(buffer) ELSE total
           more == TakeFrames(SubSeq(buffer, size + 1, Len(buffer)))
       IN [frames |-> <<FrameOf(buffer, size)>> \o more.frames, rest |-> more.rest]

\* try_parse_rtsp_message finds a message, or bytes it cannot parse, and the
\* loop ends for both; bytes may also pass for the start of a message, and
\* then the loop waits for more.
StopsAt(buffer, incomplete) ==
  /\ buffer # <<>> /\ buffer[1].v # Dollar
  /\ buffer[1] = Message \/ ~incomplete

\* handle_read_stream reads a piece: the reader, and the frames it hands on.
ReadStream(r, piece, incomplete) ==
  IF Len(r.buffer) + Len(piece) > MaxBuffer
  THEN [reader |-> [r EXCEPT !.buffer = <<>>], frames |-> <<>>]
  ELSE LET taken == TakeFrames(r.buffer \o piece) IN
       [reader |-> [r EXCEPT !.buffer = taken.rest, !.open = ~StopsAt(taken.rest, incomplete)],
        frames |-> taken.frames]
================================================================================
