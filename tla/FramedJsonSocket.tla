-------------------------- MODULE FramedJsonSocket --------------------------
(***************************************************************************)
(* The framing of one direction of a connection: a message is written as a *)
(* length of HeaderBytes bytes and a body, and the reader, which gets the  *)
(* bytes in pieces of any size, cuts them into messages again.  A stream   *)
(* is what was written and not yet read, wire, and what the reader keeps   *)
(* in m_buffer.  A byte is the message it is of and its place in the frame.*)
(***************************************************************************)
EXTENDS Naturals, Sequences

CONSTANTS
  HeaderBytes, \* kHeaderBytes
  BodyBytes    \* bytes of a message (one size for all)

ASSUME FrameAssumption ==
  /\ HeaderBytes \in Nat \ {0}
  /\ BodyBytes \in Nat \ {0}

FrameBytes == HeaderBytes + BodyBytes

Frames(messages) ==
  [k \in 1..(FrameBytes * Len(messages)) |->
     [of |-> messages[(k - 1) \div FrameBytes + 1], at |-> ((k - 1) % FrameBytes) + 1]]

NewStream == [wire |-> <<>>, buffer |-> <<>>]

send(stream, messages) == [stream EXCEPT !.wire = @ \o Frames(messages)]

(* The first k bytes arrive. *)
readAll(stream, k) ==
  [wire   |-> SubSeq(stream.wire, k + 1, Len(stream.wire)),
   buffer |-> stream.buffer \o SubSeq(stream.wire, 1, k)]

HasFrame(stream) == Len(stream.buffer) >= FrameBytes

payload(stream) == stream.buffer[FrameBytes].of

(* Mutant: the header is forgotten when a frame is taken out. *)
removeBody(stream) ==
  [stream EXCEPT !.buffer = SubSeq(@, BodyBytes + 1, Len(@))]

removeFrame(stream) ==
  [stream EXCEPT !.buffer = SubSeq(@, FrameBytes + 1, Len(@))]

(* The messages that the reader has yet to take out, if it cuts in the     *)
(* right places.                                                           *)
Waiting(stream) ==
  LET bytes == stream.buffer \o stream.wire
  IN  [k \in 1..(Len(bytes) \div FrameBytes) |-> bytes[k * FrameBytes].of]

(* No frame is torn: what is buffered and what follows are whole frames,   *)
(* in the order of their bytes, wherever the pieces were cut               *)
(* (FramedJsonSocket.cpp:58-82).                                           *)
Whole(stream) == stream.buffer \o stream.wire = Frames(Waiting(stream))
=============================================================================
