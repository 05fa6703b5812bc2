----------------------------- MODULE AgentProofs -----------------------------
(***************************************************************************)
(* What Agent promises, with OpenVpn, FramedJsonSocket and ProxyTestRunner *)
(* in it, for any number of profiles, tests and URLs, any length of a      *)
(* frame and any number of events.                                         *)
(*                                                                         *)
(* IInv is inductive, one part for each thing the agent and its console    *)
(* keep:                                                                   *)
(*   VpnInv      a table entry names a launch of its profile, and a        *)
(*               password file belongs to a launch that has not ended;     *)
(*   StreamsInv  what is buffered and on the wire, together, is whole      *)
(*               frames, however reads cut it (the lemmas on Frames are    *)
(*               about every length of frame);                             *)
(*   ConnInv     what is open is the peer or waits to be deleted, and a    *)
(*               console that is not connected has no open connection;     *)
(*   TestInv     a test is at one place only: asked for on one wire, run,  *)
(*               or its one result on its way to its asker;                *)
(*   ReportsInv  what the console shows or is about to read as running     *)
(*               runs, as long as its first connection lasts.              *)
(* Each action has a lemma that it preserves IInv; most of them also add   *)
(* no request and no result to what is on its way (NothingAdded), which is *)
(* what the refinement of ProxyTestCall rests on.                          *)
(***************************************************************************)
EXTENDS Agent, FiniteSetTheorems, SequenceTheorems, TLAPS

-----------------------------------------------------------------------------
(* Framing                                                                 *)

Bytes(M) == [of : M, at : 1..FrameBytes]

LEMMA FrameBytesNat == FrameBytes \in Nat \ {0}
BY FrameAssumption DEF FrameBytes

(* A place in a stream is a place in one frame. *)
LEMMA Place ==
  ASSUME NEW F \in Nat \ {0}, NEW q \in Nat, NEW r \in 0..(F - 1)
  PROVE  (F * q + r) \div F = q /\ (F * q + r) % F = r
OBVIOUS

LEMMA PlaceExists ==
  ASSUME NEW F \in Nat \ {0}, NEW k \in Nat
  PROVE  /\ k \div F \in Nat
         /\ k % F \in 0..(F - 1)
         /\ k = F * (k \div F) + (k % F)
OBVIOUS

LEMMA PlaceInside ==
  ASSUME NEW F \in Nat \ {0}, NEW n \in Nat, NEW k \in 1..(F * n)
  PROVE  (k - 1) \div F + 1 \in 1..n /\ ((k - 1) % F) + 1 \in 1..F
<1> DEFINE q == (k - 1) \div F
           r == (k - 1) % F
<1>1. F * n \in Nat /\ k \in Nat /\ k - 1 \in Nat
  OBVIOUS
<1>2. q \in Nat /\ r \in 0..(F - 1) /\ k - 1 = F * q + r
  BY <1>1, PlaceExists
<1> HIDE DEF q, r
<1>3. q < n
  <2>1. SUFFICES ASSUME q >= n PROVE FALSE
    BY <1>2
  <2>2. F * q >= F * n
    BY <1>2, <2>1
  <2>3. QED
    BY <1>1, <1>2, <2>2
<1>4. q + 1 \in 1..n /\ r + 1 \in 1..F
  BY <1>2, <1>3
<1>5. QED
  BY <1>4 DEF q, r

(* Frames of messages are a stream of bytes. *)
LEMMA FramesType ==
  ASSUME NEW M, NEW ms \in Seq(M)
  PROVE  /\ Frames(ms) \in Seq(Bytes(M))
         /\ Len(Frames(ms)) = FrameBytes * Len(ms)
         /\ \A k \in 1..(FrameBytes * Len(ms)) :
              Frames(ms)[k] = [of |-> ms[(k - 1) \div FrameBytes + 1],
                               at |-> ((k - 1) % FrameBytes) + 1]
<1>1. Len(ms) \in Nat /\ FrameBytes * Len(ms) \in Nat
  BY FrameBytesNat
<1>2. \A k \in 1..(FrameBytes * Len(ms)) :
        /\ (k - 1) \div FrameBytes + 1 \in 1..Len(ms)
        /\ ((k - 1) % FrameBytes) + 1 \in 1..FrameBytes
  BY <1>1, FrameBytesNat, PlaceInside
<1>3. \A k \in 1..(FrameBytes * Len(ms)) :
        [of |-> ms[(k - 1) \div FrameBytes + 1],
         at |-> ((k - 1) % FrameBytes) + 1] \in Bytes(M)
  BY <1>2, ElementOfSeq DEF Bytes
<1>4. Frames(ms) \in [1..(FrameBytes * Len(ms)) -> Bytes(M)]
  BY <1>3 DEF Frames
<1>5. Frames(ms) \in Seq(Bytes(M)) /\ Len(Frames(ms)) = FrameBytes * Len(ms)
  BY <1>1, <1>4, IsASeq, LenProperties
<1>6. QED
  BY <1>5 DEF Frames

(* The reader's cuts give back what was framed. *)
LEMMA WaitingOfFrames ==
  ASSUME NEW M, NEW ms \in Seq(M), NEW s, s.buffer \o s.wire = Frames(ms)
  PROVE  Waiting(s) = ms /\ Whole(s)
<1> DEFINE F == FrameBytes
<1>1. F \in Nat \ {0} /\ Len(ms) \in Nat
  BY FrameBytesNat
<1> HIDE DEF F
<1>2. (F * Len(ms)) \div F = Len(ms)
  <2>1. (F * Len(ms) + 0) \div F = Len(ms)
    BY <1>1, Place, 0 \in 0..(F - 1)
  <2>2. QED
    BY <1>1, <2>1
<1>3. \A k \in 1..Len(ms) : k * F \in 1..(F * Len(ms)) /\ (k * F - 1) \div F + 1 = k
  <2> SUFFICES ASSUME NEW k \in 1..Len(ms)
               PROVE  k * F \in 1..(F * Len(ms)) /\ (k * F - 1) \div F + 1 = k
    OBVIOUS
  <2>1. k - 1 \in Nat /\ F - 1 \in 0..(F - 1)
    BY <1>1
  <2>2. (F * (k - 1) + (F - 1)) \div F = k - 1
    BY <1>1, <2>1, Place
  <2>3. k * F - 1 = F * (k - 1) + (F - 1)
    BY <1>1
  <2>4. k * F <= F * Len(ms) /\ k * F >= 1
    BY <1>1
  <2>5. QED
    BY <1>1, <2>2, <2>3, <2>4
<1>4. /\ Len(Frames(ms)) = F * Len(ms)
      /\ \A k \in 1..(F * Len(ms)) : Frames(ms)[k].of = ms[(k - 1) \div F + 1]
  <2>1. /\ Len(Frames(ms)) = FrameBytes * Len(ms)
        /\ \A k \in 1..(FrameBytes * Len(ms)) :
             Frames(ms)[k] = [of |-> ms[(k - 1) \div FrameBytes + 1],
                              at |-> ((k - 1) % FrameBytes) + 1]
    BY FramesType
  <2>2. \A k \in 1..(FrameBytes * Len(ms)) :
          Frames(ms)[k].of = ms[(k - 1) \div FrameBytes + 1]
    <3> SUFFICES ASSUME NEW k \in 1..(FrameBytes * Len(ms))
                 PROVE  Frames(ms)[k].of = ms[(k - 1) \div FrameBytes + 1]
      OBVIOUS
    <3> DEFINE x == ms[(k - 1) \div FrameBytes + 1]
               y == ((k - 1) % FrameBytes) + 1
    <3>1. Frames(ms)[k] = [of |-> x, at |-> y]
      BY <2>1
    <3> HIDE DEF x, y
    <3>2. Frames(ms)[k].of = x
      BY <3>1
    <3>3. QED
      BY <3>2 DEF x
  <2>3. QED
    BY <2>1, <2>2 DEF F
<1>5. Waiting(s) = [k \in 1..Len(ms) |-> ms[k]]
  <2>1. Waiting(s) = [k \in 1..Len(ms) |-> Frames(ms)[k * F].of]
    BY <1>2, <1>4 DEF Waiting, F
  <2>2. \A k \in 1..Len(ms) : Frames(ms)[k * F].of = ms[k]
    BY <1>3, <1>4
  <2>3. QED
    BY <2>1, <2>2
<1>6. ms = [k \in 1..Len(ms) |-> ms[k]]
  BY LenProperties
<1>7. QED
  BY <1>5, <1>6 DEF Whole

LEMMA FramesConcat ==
  ASSUME NEW M, NEW ms \in Seq(M), NEW ns \in Seq(M)
  PROVE  Frames(ms) \o Frames(ns) = Frames(ms \o ns)
<1> DEFINE F == FrameBytes
           L == Len(ms)
           N == Len(ns)
           x == Frames(ms) \o Frames(ns)
           y == Frames(ms \o ns)
<1>1. /\ F \in Nat \ {0} /\ L \in Nat /\ N \in Nat
      /\ F * L \in Nat /\ F * N \in Nat /\ F * (L + N) = F * L + F * N
  BY FrameBytesNat
<1>2. ms \o ns \in Seq(M) /\ Len(ms \o ns) = L + N
  BY ConcatProperties
<1>3. /\ Frames(ms) \in Seq(Bytes(M)) /\ Len(Frames(ms)) = F * L
      /\ Frames(ns) \in Seq(Bytes(M)) /\ Len(Frames(ns)) = F * N
      /\ y \in Seq(Bytes(M)) /\ Len(y) = F * (L + N)
  BY <1>2, FramesType
<1>4. /\ x \in Seq(Bytes(M)) /\ Len(x) = F * (L + N)
      /\ \A k \in 1..(F * (L + N)) :
           x[k] = IF k <= F * L THEN Frames(ms)[k] ELSE Frames(ns)[k - F * L]
  BY <1>1, <1>3, ConcatProperties
<1>5. ASSUME NEW k \in 1..(F * (L + N)) PROVE x[k] = y[k]
  <2>1. y[k] = [of |-> (ms \o ns)[(k - 1) \div F + 1], at |-> ((k - 1) % F) + 1]
    BY <1>2, FramesType
  <2>2. CASE k <= F * L
    <3>1. k \in 1..(F * L)
      BY <1>1, <2>2
    <3>2. x[k] = [of |-> ms[(k - 1) \div F + 1], at |-> ((k - 1) % F) + 1]
      BY <1>4, <2>2, <3>1, FramesType
    <3>3. (k - 1) \div F + 1 \in 1..L
      BY <1>1, <3>1, PlaceInside
    <3>4. (ms \o ns)[(k - 1) \div F + 1] = ms[(k - 1) \div F + 1]
      BY <1>1, <3>3, ConcatProperties
    <3>5. QED
      BY <2>1, <3>2, <3>4
  <2>3. CASE ~(k <= F * L)
    <3> DEFINE j == k - F * L
               q == (j - 1) \div F
               r == (j - 1) % F
    <3>1. j \in 1..(F * N) /\ j - 1 \in Nat
      BY <1>1, <2>3
    <3>2. x[k] = [of |-> ns[q + 1], at |-> r + 1]
      <4>1. x[k] = Frames(ns)[j]
        BY <1>4, <2>3
      <4>2. QED
        BY <3>1, <4>1, FramesType
    <3>3. q + 1 \in 1..N /\ q \in Nat
      <4>1. q + 1 \in 1..N
        BY <1>1, <3>1, PlaceInside
      <4>2. q \in Nat
        BY <1>1, <3>1, PlaceExists
      <4>3. QED
        BY <4>1, <4>2
    <3>4. r \in 0..(F - 1) /\ j - 1 = F * q + r
      BY <1>1, <3>1, PlaceExists
    <3> HIDE DEF q, r
    <3>5. k - 1 = F * (L + q) + r
      <4>1. k - 1 = (j - 1) + F * L
        BY <1>1
      <4>2. F * (L + q) = F * L + F * q
        BY <1>1, <3>3
      <4>3. F * L \in Nat /\ F * q \in Nat
        BY <1>1, <3>3
      <4> HIDE DEF j
      <4>4. QED
        BY <3>4, <4>1, <4>2, <4>3
    <3>6. (k - 1) \div F = L + q /\ (k - 1) % F = r
      <4>1. L + q \in Nat
        BY <1>1, <3>3
      <4>2. (F * (L + q) + r) \div F = L + q /\ (F * (L + q) + r) % F = r
        BY <1>1, <3>4, <4>1, Place
      <4>3. QED
        BY <3>5, <4>2
    <3>7. (ms \o ns)[L + q + 1] = ns[q + 1]
      <4>1. /\ L + q + 1 \in 1..(L + N)
            /\ ~(L + q + 1 <= L)
            /\ (L + q + 1) - L = q + 1
        BY <1>1, <3>3
      <4>2. \A i \in 1..(L + N) : (ms \o ns)[i] = IF i <= L THEN ms[i] ELSE ns[i - L]
        BY ConcatProperties
      <4> DEFINE i == L + q + 1
      <4>3. (ms \o ns)[i] = ns[i - L]
        BY <4>1, <4>2
      <4>4. i - L = q + 1
        BY <4>1
      <4>5. QED
        BY <4>3, <4>4
    <3>8. QED
      BY <2>1, <3>2, <3>6, <3>7
  <2>4. QED
    BY <2>2, <2>3
<1>6. QED
  <2> HIDE DEF x, y, F, L, N
  <2>1. x = y
    BY <1>3, <1>4, <1>5, SeqEqual
  <2>2. QED
    BY <2>1 DEF x, y

LEMMA FirstFrame ==
  ASSUME NEW M, NEW h \in M
  PROVE  Len(Frames(<<h>>)) = FrameBytes /\ Frames(<<h>>)[FrameBytes].of = h
<1> DEFINE F == FrameBytes
<1>1. F \in Nat \ {0} /\ <<h>> \in Seq(M) /\ Len(<<h>>) = 1 /\ F * 1 = F
  BY FrameBytesNat
<1>2. Len(Frames(<<h>>)) = F
  BY <1>1, FramesType
<1> DEFINE x == <<h>>[(F - 1) \div F + 1]
           y == ((F - 1) % F) + 1
<1>3. Frames(<<h>>)[F] = [of |-> x, at |-> y]
  <2>1. F \in 1..(F * Len(<<h>>))
    BY <1>1
  <2>2. QED
    BY <1>1, <2>1, FramesType
<1>4. x = h
  <2>1. (F * 0 + (F - 1)) \div F = 0
    BY <1>1, Place, F - 1 \in 0..(F - 1)
  <2>2. F * 0 + (F - 1) = F - 1
    BY <1>1
  <2>3. QED
    BY <2>1, <2>2
<1> HIDE DEF x, y
<1>5. Frames(<<h>>)[F].of = x
  BY <1>3
<1>6. QED
  BY <1>2, <1>4, <1>5

-----------------------------------------------------------------------------
(* Streams                                                                 *)

(* A stream of messages of M, cut in the right places. *)
Good(s, M) == s \in Streams(M) /\ Whole(s)

LEMMA StreamsAre ==
  ASSUME NEW M, NEW s \in Streams(M)
  PROVE  /\ s.wire \in Seq(Bytes(M)) /\ s.buffer \in Seq(Bytes(M))
         /\ s = [wire |-> s.wire, buffer |-> s.buffer]
BY DEF Streams, Bytes

LEMMA WaitingType ==
  ASSUME NEW M, NEW s, Good(s, M)
  PROVE  Waiting(s) \in Seq(M) /\ s.buffer \o s.wire = Frames(Waiting(s))
<1> DEFINE bytes == s.buffer \o s.wire
           n == Len(bytes) \div FrameBytes
           F == FrameBytes
<1>1. bytes \in Seq(Bytes(M)) /\ Len(bytes) \in Nat /\ F \in Nat \ {0}
  BY StreamsAre, ConcatProperties, LenProperties, FrameBytesNat DEF Good
<1>2. n \in Nat /\ F * n <= Len(bytes)
  <2>1. /\ n \in Nat
        /\ Len(bytes) % F \in 0..(F - 1)
        /\ Len(bytes) = F * n + (Len(bytes) % F)
    BY <1>1, PlaceExists
  <2> HIDE DEF n, bytes, F
  <2>2. F * n \in Nat
    BY <1>1, <2>1
  <2>3. QED
    BY <1>1, <2>1, <2>2
<1> HIDE DEF n, bytes, F
<1>3. \A k \in 1..n : bytes[k * F].of \in M
  <2> SUFFICES ASSUME NEW k \in 1..n PROVE bytes[k * F].of \in M
    OBVIOUS
  <2>1. k * F >= 1 /\ k * F <= F * n /\ k * F \in Nat
    BY <1>1, <1>2
  <2>2. k * F \in 1..Len(bytes)
    BY <1>1, <1>2, <2>1
  <2>3. bytes[k * F] \in Bytes(M)
    BY <1>1, <2>2, ElementOfSeq
  <2>4. QED
    BY <2>3 DEF Bytes
<1>4. Waiting(s) \in Seq(M)
  <2>1. Waiting(s) = [k \in 1..n |-> bytes[k * F].of]
    BY DEF Waiting, n, bytes, F
  <2>2. [k \in 1..n |-> bytes[k * F].of] \in Seq(M)
    BY <1>2, <1>3, IsASeq
  <2>3. QED
    BY <2>1, <2>2
<1>5. QED
  BY <1>4 DEF Good, Whole, bytes

LEMMA StreamIs ==
  ASSUME NEW M, NEW s \in Streams(M), NEW ms \in Seq(M), s.buffer \o s.wire = Frames(ms)
  PROVE  Good(s, M) /\ Waiting(s) = ms
BY WaitingOfFrames DEF Good

LEMMA StreamFields ==
  ASSUME NEW M, NEW w \in Seq(Bytes(M)), NEW b \in Seq(Bytes(M))
  PROVE  [wire |-> w, buffer |-> b] \in Streams(M)
BY DEF Streams, Bytes

LEMMA StreamExcept ==
  ASSUME NEW s, NEW w, NEW b, s = [wire |-> w, buffer |-> b], NEW x
  PROVE  /\ [s EXCEPT !.wire = x] = [wire |-> x, buffer |-> b]
         /\ [s EXCEPT !.buffer = x] = [wire |-> w, buffer |-> x]
OBVIOUS

LEMMA StreamNew ==
  ASSUME NEW M
  PROVE  Good(NewStream, M) /\ Waiting(NewStream) = <<>>
<1>1. /\ <<>> \in Seq(M) /\ <<>> \in Seq(Bytes(M))
      /\ Len(<<>>) = 0 /\ FrameBytes * 0 = 0
  BY EmptySeq, FrameBytesNat
<1>2. NewStream \in Streams(M)
  BY <1>1, StreamFields DEF NewStream
<1>3. Frames(<<>>) \in Seq(Bytes(M)) /\ Len(Frames(<<>>)) = 0
  BY <1>1, FramesType
<1>4. Frames(<<>>) = <<>>
  BY <1>3, EmptySeq
<1>5. NewStream.buffer \o NewStream.wire = <<>>
  BY <1>1, ConcatEmptySeq DEF NewStream
<1>6. QED
  BY <1>1, <1>2, <1>4, <1>5, StreamIs

(* Sending appends messages, *)
LEMMA StreamSend ==
  ASSUME NEW M, NEW s, Good(s, M), NEW ms \in Seq(M)
  PROVE  /\ Good(send(s, ms), M)
         /\ Waiting(send(s, ms)) = Waiting(s) \o ms
         /\ send(s, ms).buffer = s.buffer
<1> DEFINE t == send(s, ms)
<1>1. /\ s.wire \in Seq(Bytes(M)) /\ s.buffer \in Seq(Bytes(M))
      /\ s = [wire |-> s.wire, buffer |-> s.buffer]
  BY StreamsAre DEF Good
<1>2. Frames(ms) \in Seq(Bytes(M))
  BY FramesType
<1>3. t = [wire |-> s.wire \o Frames(ms), buffer |-> s.buffer]
  <2>1. t = [s EXCEPT !.wire = s.wire \o Frames(ms)]
    BY DEF send
  <2> DEFINE w == s.wire
             b == s.buffer
             x == s.wire \o Frames(ms)
  <2>2. s = [wire |-> w, buffer |-> b]
    BY <1>1
  <2> HIDE DEF w, b, x
  <2>3. [s EXCEPT !.wire = x] = [wire |-> x, buffer |-> b]
    BY <2>2, StreamExcept
  <2>4. QED
    BY <2>1, <2>3 DEF x, b
<1>4. s.wire \o Frames(ms) \in Seq(Bytes(M))
  BY <1>1, <1>2, ConcatProperties
<1>5. t \in Streams(M)
  BY <1>1, <1>3, <1>4, StreamFields
<1>6. Waiting(s) \in Seq(M) /\ s.buffer \o s.wire = Frames(Waiting(s))
  BY WaitingType
<1>7. t.buffer \o t.wire = (s.buffer \o s.wire) \o Frames(ms)
  <2>1. t.buffer = s.buffer /\ t.wire = s.wire \o Frames(ms)
    BY <1>3
  <2> DEFINE b == s.buffer
             w == s.wire
             f == Frames(ms)
  <2> HIDE DEF b, w, f
  <2>2. b \in Seq(Bytes(M)) /\ w \in Seq(Bytes(M)) /\ f \in Seq(Bytes(M))
    BY <1>1, <1>2 DEF b, w, f
  <2>3. (b \o w) \o f = b \o (w \o f)
    BY <2>2, ConcatAssociative
  <2>4. QED
    BY <2>1, <2>3 DEF b, w, f
<1>8. t.buffer \o t.wire = Frames(Waiting(s) \o ms)
  BY <1>6, <1>7, FramesConcat
<1>9. Waiting(s) \o ms \in Seq(M)
  BY <1>6, ConcatProperties
<1>10. Good(t, M) /\ Waiting(t) = Waiting(s) \o ms
  BY <1>5, <1>8, <1>9, StreamIs
<1>11. t.buffer = s.buffer
  BY <1>3
<1>12. QED
  BY <1>10, <1>11

(* the arrival of bytes changes none of them, *)
LEMMA StreamRead ==
  ASSUME NEW M, NEW s, Good(s, M), NEW k \in 1..Len(s.wire)
  PROVE  Good(readAll(s, k), M) /\ Waiting(readAll(s, k)) = Waiting(s)
<1> DEFINE t == readAll(s, k)
           n == Len(s.wire)
           w == SubSeq(s.wire, k + 1, n)
           r == SubSeq(s.wire, 1, k)
<1>1. /\ s.wire \in Seq(Bytes(M)) /\ s.buffer \in Seq(Bytes(M)) /\ n \in Nat
      /\ \A i \in 1..n : s.wire[i] \in Bytes(M)
  BY StreamsAre, LenProperties, ElementOfSeq DEF Good
<1>2. w \in Seq(Bytes(M)) /\ r \in Seq(Bytes(M))
  <2>1. \A i \in (k + 1)..n : s.wire[i] \in Bytes(M)
    BY <1>1
  <2>2. \A i \in 1..k : s.wire[i] \in Bytes(M)
    BY <1>1
  <2>3. QED
    BY <1>1, <2>1, <2>2, SubSeqProperties
<1>3. s.buffer \o r \in Seq(Bytes(M))
  BY <1>1, <1>2, ConcatProperties
<1>4. t = [wire |-> w, buffer |-> s.buffer \o r]
  BY DEF readAll
<1>5. t \in Streams(M)
  BY <1>2, <1>3, <1>4, StreamFields
<1>6. r \o w = s.wire
  <2>1. r \o w = SubSeq(s.wire, 1, n)
    <3>1. 1 \in 1..(n + 1) /\ k \in (1 - 1)..n /\ n \in k..n
      BY <1>1
    <3>2. QED
      BY <1>1, <3>1, ConcatAdjacentSubSeq
  <2>2. QED
    BY <1>1, <2>1, SubSeqFull
<1>7. t.buffer \o t.wire = s.buffer \o s.wire
  <2>1. t.buffer = s.buffer \o r /\ t.wire = w
    BY <1>4
  <2> DEFINE b == s.buffer
  <2> HIDE DEF t, w, r, b
  <2>2. b \in Seq(Bytes(M))
    BY <1>1 DEF b
  <2>3. (b \o r) \o w = b \o (r \o w)
    BY <1>2, <2>2, ConcatAssociative
  <2>4. QED
    BY <1>6, <2>1, <2>3 DEF b
<1>8. Waiting(s) \in Seq(M) /\ s.buffer \o s.wire = Frames(Waiting(s))
  BY WaitingType
<1>9. QED
  BY <1>5, <1>7, <1>8, StreamIs

(* and taking a frame out takes the first. *)
LEMMA StreamTake ==
  ASSUME NEW M, NEW s, Good(s, M), HasFrame(s)
  PROVE  /\ Waiting(s) \in Seq(M) /\ Waiting(s) # <<>>
         /\ payload(s) = Head(Waiting(s))
         /\ Good(removeFrame(s), M)
         /\ Waiting(removeFrame(s)) = Tail(Waiting(s))
<1> DEFINE t == removeFrame(s)
           F == FrameBytes
           b == s.buffer
           w == s.wire
           ms == Waiting(s)
           h == Head(ms)
           u == Tail(ms)
           n == Len(b)
           cut == SubSeq(b, F + 1, n)
<1>1. /\ w \in Seq(Bytes(M)) /\ b \in Seq(Bytes(M)) /\ s = [wire |-> w, buffer |-> b]
      /\ n \in Nat /\ Len(w) \in Nat
      /\ \A i \in 1..n : b[i] \in Bytes(M)
  BY StreamsAre, LenProperties, ElementOfSeq DEF Good
<1>2. F \in Nat \ {0} /\ n >= F
  BY FrameBytesNat DEF HasFrame
<1>3. ms \in Seq(M) /\ b \o w = Frames(ms)
  BY WaitingType
<1>4. /\ Len(b \o w) = n + Len(w)
      /\ \A i \in 1..(n + Len(w)) : (b \o w)[i] = IF i <= n THEN b[i] ELSE w[i - n]
  BY <1>1, ConcatProperties
<1>5. Len(ms) \in Nat /\ n + Len(w) = F * Len(ms)
  BY <1>3, <1>4, FramesType, LenProperties
<1>6. ms # <<>>
  <2>1. Len(ms) # 0
    <3>1. F * 0 = 0
      BY <1>2
    <3> HIDE DEF F, ms, b, w, n
    <3>2. QED
      BY <1>1, <1>2, <1>5, <3>1
  <2>2. QED
    BY <2>1, EmptySeq
<1>7. h \in M /\ u \in Seq(M) /\ Len(u) = Len(ms) - 1
  BY <1>3, <1>6, HeadTailProperties
<1>8. ms = <<h>> \o u /\ <<h>> \in Seq(M)
  BY <1>3, <1>6, <1>7
<1>9. /\ Frames(<<h>>) \in Seq(Bytes(M)) /\ Frames(u) \in Seq(Bytes(M))
      /\ Len(Frames(<<h>>)) = F /\ Frames(<<h>>)[F].of = h
      /\ Len(Frames(u)) = F * Len(u) /\ F * Len(u) \in Nat
  BY <1>2, <1>7, <1>8, FramesType, FirstFrame, LenProperties
<1> HIDE DEF ms, h, u, t, F, cut, n, b, w
<1>10. /\ b \o w = Frames(<<h>>) \o Frames(u)
       /\ \A i \in 1..(F + F * Len(u)) :
            (b \o w)[i] = IF i <= F THEN Frames(<<h>>)[i] ELSE Frames(u)[i - F]
  <2>1. b \o w = Frames(<<h>>) \o Frames(u)
    BY <1>3, <1>7, <1>8, FramesConcat
  <2> DEFINE x == Frames(<<h>>)
             y == Frames(u)
  <2>2. x \in Seq(Bytes(M)) /\ y \in Seq(Bytes(M)) /\ Len(x) = F /\ Len(y) = F * Len(u)
    BY <1>9
  <2> HIDE DEF x, y
  <2>3. \A i \in 1..(Len(x) + Len(y)) : (x \o y)[i] = IF i <= Len(x) THEN x[i] ELSE y[i - Len(x)]
    BY <2>2, ConcatProperties
  <2>4. \A i \in 1..(F + F * Len(u)) : (x \o y)[i] = IF i <= F THEN x[i] ELSE y[i - F]
    BY <2>2, <2>3
  <2>5. QED
    BY <2>1, <2>4 DEF x, y
<1>11. n + Len(w) = F + F * Len(u)
  <2>1. F * Len(ms) = F + F * Len(u)
    BY <1>2, <1>5, <1>7, LenProperties
  <2>2. QED
    BY <1>5, <2>1
<1>12. payload(s) = h
  <2>1. (b \o w)[F] = b[F]
    BY <1>1, <1>2, <1>4
  <2>2. (b \o w)[F] = Frames(<<h>>)[F]
    BY <1>2, <1>9, <1>10
  <2>3. QED
    BY <1>9, <2>1, <2>2 DEF payload, b, F
<1>13. /\ cut \in Seq(Bytes(M)) /\ Len(cut) = n - F
       /\ \A i \in 1..(n - F) : cut[i] = b[F + i]
  <2>1. /\ F + 1 \in Int /\ n \in Int
        /\ \A i \in (F + 1)..n : b[i] \in Bytes(M)
    BY <1>1, <1>2
  <2>2. /\ cut \in Seq(Bytes(M))
        /\ Len(cut) = IF F + 1 <= n THEN n - (F + 1) + 1 ELSE 0
        /\ \A i \in 1..(n - (F + 1) + 1) : cut[i] = b[F + 1 + i - 1]
    BY <2>1, SubSeqProperties DEF cut
  <2>3. /\ n - (F + 1) + 1 = n - F
        /\ \A i \in 1..(n - F) : F + 1 + i - 1 = F + i
    BY <1>1, <1>2
  <2>4. QED
    BY <1>1, <1>2, <2>2, <2>3
<1>14. t = [wire |-> w, buffer |-> cut]
  <2>1. t = [s EXCEPT !.buffer = cut]
    BY DEF removeFrame, t, cut, b, n, F
  <2>2. QED
    BY <1>1, <2>1, StreamExcept
<1>15. t \in Streams(M)
  BY <1>1, <1>13, <1>14, StreamFields
<1>16. cut \o w = Frames(u)
  <2>1. /\ cut \o w \in Seq(Bytes(M)) /\ Len(cut \o w) = (n - F) + Len(w)
        /\ \A i \in 1..((n - F) + Len(w)) :
             (cut \o w)[i] = IF i <= n - F THEN cut[i] ELSE w[i - (n - F)]
    <3> DEFINE S == Bytes(M)
    <3> HIDE DEF S
    <3>1. cut \in Seq(S) /\ w \in Seq(S) /\ Len(cut) = n - F
      BY <1>1, <1>13 DEF S
    <3>2. /\ cut \o w \in Seq(S) /\ Len(cut \o w) = Len(cut) + Len(w)
          /\ \A i \in 1..(Len(cut) + Len(w)) :
               (cut \o w)[i] = IF i <= Len(cut) THEN cut[i] ELSE w[i - Len(cut)]
      BY <3>1, ConcatProperties
    <3>3. QED
      BY <3>1, <3>2 DEF S
  <2>2. (n - F) + Len(w) = F * Len(u)
    BY <1>1, <1>2, <1>9, <1>11
  <2>3. ASSUME NEW i \in 1..(F * Len(u)) PROVE (cut \o w)[i] = Frames(u)[i]
    <3>1. /\ F + i \in 1..(n + Len(w)) /\ F + i \in 1..(F + F * Len(u))
          /\ ~(F + i <= F) /\ (F + i) - F = i
      BY <1>1, <1>2, <1>9, <1>11
    <3>2. (b \o w)[F + i] = Frames(u)[i]
      BY <1>10, <3>1
    <3>3. CASE i <= n - F
      <4>1. i \in 1..(n - F) /\ F + i <= n
        BY <1>1, <1>2, <3>3
      <4>2. (cut \o w)[i] = cut[i] /\ cut[i] = b[F + i]
        BY <1>13, <2>1, <2>2, <3>3, <4>1
      <4>3. (b \o w)[F + i] = b[F + i]
        BY <1>4, <3>1, <4>1
      <4>4. QED
        BY <3>2, <4>2, <4>3
    <3>4. CASE ~(i <= n - F)
      <4>1. ~(F + i <= n) /\ (F + i) - n = i - (n - F)
        BY <1>1, <1>2, <3>4
      <4>2. (cut \o w)[i] = w[i - (n - F)]
        BY <2>1, <2>2, <3>4
      <4>3. (b \o w)[F + i] = w[(F + i) - n]
        BY <1>4, <3>1, <4>1
      <4>4. QED
        BY <3>2, <4>1, <4>2, <4>3
    <3>5. QED
      BY <3>3, <3>4
  <2>4. QED
    BY <1>9, <2>1, <2>2, <2>3, SeqEqual
<1>17. t.buffer \o t.wire = Frames(u)
  BY <1>14, <1>16
<1>18. Good(t, M) /\ Waiting(t) = u
  BY <1>7, <1>15, <1>17, StreamIs
<1>19. QED
  BY <1>3, <1>6, <1>12, <1>18 DEF t, u, h, ms

-----------------------------------------------------------------------------
(* The inductive invariant                                                 *)

(* What the tables name under a profile was launched for it. *)
VpnTables ==
  \A p \in Profiles : /\ vpnProcess[p] # 0 => launch[vpnProcess[p]].profile = p
                      /\ vpnFile[p] # 0 => launch[vpnFile[p]].profile = p

(* The properties of OpenVpn, and no launch that has ended has left its     *)
(* password file on disk.                                                   *)
VpnInv ==
  /\ VpnTypeOK
  /\ OneOpenVpn
  /\ PasswordFiles
  /\ VpnTables
  /\ \A n \in files : launch[n].state # "ended"

(* What each direction of connection c still has to deliver. *)
In(c)  == Waiting(toAgent[c])
Out(c) == Waiting(toClient[c])

AllGood(streams, M) ==
  /\ streams \in Seq(Streams(M))
  /\ \A c \in 1..Len(streams) : Whole(streams[c])

StreamsInv ==
  /\ AllGood(toAgent, Requests) /\ Len(toAgent) = Len(conn)
  /\ AllGood(toClient, Replies) /\ Len(toClient) = Len(conn)

(* The console needs a new connection, or will. *)
Doomed == socket = 0 \/ conn[socket].state = "closed" \/ socket # Len(conn)

ConnInv ==
  /\ agentUp \in BOOLEAN /\ connected \in BOOLEAN /\ retry \in BOOLEAN
  /\ conn \in Seq([by : {"console", "other"}, state : {"pending", "open", "closed"}])
  /\ peer \in 0..Len(conn) /\ socket \in 0..Len(conn)
  /\ faults \in 0..MaxEvents /\ requests \in 0..MaxEvents
  /\ IsFiniteSet(asked) /\ asked \subseteq Tests
  /\ \A c \in old : c \in Conns /\ c < Len(conn)
  /\ \A c \in Conns : /\ conn[c].state = "pending" => peer < c
                      /\ conn[c].state = "open" => c = peer \/ c \in old
  /\ socket # 0 => conn[socket].by = "console"
  /\ connected => socket # 0
  /\ ~connected => Doomed
  /\ ~connected => socket = 0 \/ conn[socket].state = "closed"
  /\ retry => ~connected
  /\ Len(conn) <= 1 + 2 * faults
  /\ Doomed => Len(conn) <= 2 * faults

(* A test is at one place: not asked for, on its way to the agent           *)
(* (RequestInv), run, its result on its way to its asker (ResultInv), or    *)
(* answered.                                                                *)
TestBase ==
  /\ TestTypeOK(0..Len(conn))
  /\ answers \in [Tests -> 0..1]
  /\ \A t \in Tests :
       /\ t \notin asked => test[t] = NoTest
       /\ ~test[t].sent => answers[t] = 0

IsRequest(m) == m.type = "proxy.test"

RequestInv ==
  \A c \in Conns : \A i \in DOMAIN In(c) :
    IsRequest(In(c)[i]) =>
      /\ In(c)[i].test \in asked /\ test[In(c)[i].test] = NoTest
      /\ \A d \in Conns : \A j \in DOMAIN In(d) :
           IsRequest(In(d)[j]) /\ In(d)[j].test = In(c)[i].test => d = c /\ j = i

IsResult(m) == m.type = "result"

ResultInv ==
  \A c \in Conns : \A i \in DOMAIN Out(c) :
    IsResult(Out(c)[i]) =>
      /\ test[Out(c)[i].test].sent
      /\ test[Out(c)[i].test].asker = c
      /\ answers[Out(c)[i].test] = 0
      /\ \A d \in Conns : \A j \in DOMAIN Out(d) :
           IsResult(Out(d)[j]) /\ Out(d)[j].test = Out(c)[i].test => d = c /\ j = i

TestInv == TestBase /\ RequestInv /\ ResultInv

HasOpenVpn(p) == \E n \in Launches : launch[n].profile = p /\ IsAlive(n)

IsStatus(m, p) == m.type = "vpn.status" /\ m.profile = p

Silent(queue, p) == \A i \in DOMAIN queue : ~IsStatus(queue[i], p)

(* The last report about p in the queue is "running". *)
LastIsRunning(queue, p) ==
  \E i \in DOMAIN queue :
    /\ queue[i] = Status(p, "running")
    /\ \A j \in DOMAIN queue : IsStatus(queue[j], p) => j <= i

(* The console will show p as running when it has read the queue. *)
Believed(queue, p, status) ==
  LastIsRunning(queue, p) \/ (Silent(queue, p) /\ status = "running")

(* While the first connection lasts, what the console shows or will show    *)
(* as running has an OpenVPN process.                                       *)
ReportsInv ==
  /\ shown \in [Profiles -> Statuses]
  /\ \A c \in Conns : conn[c].state = "pending" => Out(c) = <<>>
  /\ Len(conn) = 0 \/ (Len(conn) = 1 /\ conn[1].state = "pending")
       => \A p \in Profiles : shown[p] # "running"
  /\ Len(conn) = 1 /\ conn[1] = [by |-> "console", state |-> "open"]
       => \A p \in Profiles : Believed(Out(1), p, shown[p]) => HasOpenVpn(p)

IInv ==
  /\ VpnInv
  /\ StreamsInv
  /\ ConnInv
  /\ TestInv
  /\ ReportsInv

-----------------------------------------------------------------------------
(* OpenVPN processes                                                       *)

LaunchRecords == [profile : Profiles, state : States, password : BOOLEAN]

LEMMA LaunchesAre ==
  ASSUME VpnTypeOK
  PROVE  /\ Launches = 1..Len(launch) /\ Len(launch) \in Nat
         /\ \A n \in Launches : /\ launch[n] \in LaunchRecords
                                /\ launch[n].profile \in Profiles
                                /\ launch[n].state \in States
                                /\ launch[n].password \in BOOLEAN
                                /\ n # 0
<1>1. launch \in Seq(LaunchRecords)
  BY DEF VpnTypeOK, LaunchRecords
<1>2. Launches = 1..Len(launch) /\ Len(launch) \in Nat
  BY <1>1, LenProperties DEF Launches
<1>3. \A n \in Launches : launch[n] \in LaunchRecords
  BY <1>1, <1>2, ElementOfSeq
<1>4. QED
  BY <1>2, <1>3 DEF LaunchRecords

LEMMA SetStateIs ==
  ASSUME VpnTypeOK, NEW n \in Launches, NEW s \in States, SetState(n, s)
  PROVE  /\ launch' \in Seq(LaunchRecords)
         /\ Launches' = Launches
         /\ \A m \in Launches : /\ launch'[m].profile = launch[m].profile
                                /\ launch'[m].password = launch[m].password
                                /\ launch'[m].state = IF m = n THEN s ELSE launch[m].state
<1>1. launch \in Seq(LaunchRecords)
  BY DEF VpnTypeOK, LaunchRecords
<1>2. /\ Launches = 1..Len(launch)
      /\ \A m \in Launches : launch[m] \in LaunchRecords
  BY LaunchesAre
<1> DEFINE e == [launch[n] EXCEPT !.state = s]
<1>3. /\ e \in LaunchRecords /\ e.profile = launch[n].profile
      /\ e.password = launch[n].password /\ e.state = s
  BY <1>2 DEF LaunchRecords
<1>4. launch' = [launch EXCEPT ![n] = e]
  BY DEF SetState
<1> HIDE DEF e
<1>5. /\ launch' \in Seq(LaunchRecords) /\ Len(launch') = Len(launch)
      /\ \A m \in 1..Len(launch) : launch'[m] = IF m = n THEN e ELSE launch[m]
  BY <1>1, <1>2, <1>3, <1>4, ExceptSeq
<1>6. Launches' = Launches
  BY <1>2, <1>5, LenProperties DEF Launches
<1>7. QED
  BY <1>2, <1>3, <1>5, <1>6

(* vpn.openvpn.start never starts a second process of a profile, and forgets*)
(* only files of launches that never ran.                                   *)
LEMMA VpnStart ==
  ASSUME VpnInv, NEW p \in Profiles, NEW r \in StartRequests, NEW said,
         startOpenVpn(p, r, said)
  PROVE  VpnInv'
<1> USE DEF VpnInv
<1>1. CASE UNCHANGED vpnVars
  BY <1>1 DEF vpnVars, VpnTypeOK, OneOpenVpn, PasswordFiles, VpnTables, Launches, IsAlive
<1>2. CASE ~hasProcess(p) /\ passwordFileFails(p)
  <2>1. /\ UNCHANGED <<vpnFile, files, launch, stopTimer>>
        /\ vpnProcess' = [vpnProcess EXCEPT ![p] = 0]
    BY <1>2 DEF passwordFileFails
  <2>2. VpnTypeOK'
    BY <2>1 DEF VpnTypeOK, Launches
  <2>3. \A n \in Launches : IsAlive(n) => launch[n].profile # p
    BY <1>2 DEF OneOpenVpn, hasProcess
  <2>4. OneOpenVpn'
    BY <2>1, <2>3, LaunchesAre DEF OneOpenVpn, VpnTypeOK, Launches, IsAlive
  <2>5. PasswordFiles'
    BY <2>1 DEF PasswordFiles, Launches, IsAlive
  <2>6. VpnTables'
    BY <2>1 DEF VpnTables, VpnTypeOK
  <2>7. QED
    BY <2>1, <2>2, <2>4, <2>5, <2>6
<1>3. CASE ~hasProcess(p) /\ launchOpenVpn(p, r)
  <2> DEFINE k == Len(launch) + 1
             e == [profile |-> p, state |-> "starting", password |-> r = "password"]
             written == IF r = "password" THEN {k} ELSE {}
  <2>1. /\ vpnProcess' = [vpnProcess EXCEPT ![p] = k]
        /\ launch' = Append(launch, e)
        /\ files' = files \cup written
        /\ vpnFile' = [vpnFile EXCEPT ![p] = IF written = {} THEN @ ELSE k]
        /\ stopTimer' = stopTimer
    BY <1>3 DEF launchOpenVpn
  <2>2. launch \in Seq(LaunchRecords) /\ e \in LaunchRecords
    BY DEF VpnTypeOK, LaunchRecords, States
  <2>3. /\ Launches = 1..Len(launch) /\ Len(launch) \in Nat /\ k \notin Launches
        /\ k \in Nat \ {0}
    BY LaunchesAre
  <2>4. e.profile = p /\ e.state = "starting" /\ e.password = (r = "password")
    OBVIOUS
  <2> HIDE DEF e, k
  <2>5. /\ launch' \in Seq(LaunchRecords) /\ Len(launch') = k
        /\ \A n \in Launches : launch'[n] = launch[n]
        /\ launch'[k] = e
    BY <2>1, <2>2, <2>3, AppendProperties DEF k
  <2>6. Launches' = Launches \cup {k}
    BY <2>3, <2>5, LenProperties DEF Launches, k
  <2>7. VpnTypeOK'
    <3>1. launch' \in Seq([profile : Profiles, state : States, password : BOOLEAN])
      BY <2>5 DEF LaunchRecords
    <3>2. /\ vpnProcess' \in [Profiles -> {0} \cup Launches']
          /\ vpnFile' \in [Profiles -> {0} \cup Launches']
      BY <2>1, <2>6 DEF VpnTypeOK
    <3>3. files' \subseteq Launches' /\ stopTimer' \subseteq Launches'
      BY <2>1, <2>6 DEF VpnTypeOK
    <3>4. QED
      BY <3>1, <3>2, <3>3 DEF VpnTypeOK, Launches
  <2>8. \A n \in Launches : IsAlive(n) => launch[n].profile # p
    BY <1>3 DEF OneOpenVpn, hasProcess
  <2>9. OneOpenVpn'
    <3>1. \A n \in Launches : IsAlive(n)' = IsAlive(n)
      BY <2>5 DEF IsAlive
    <3>2. vpnProcess'[p] = k /\ \A q \in Profiles \ {p} : vpnProcess'[q] = vpnProcess[q]
      BY <2>1 DEF VpnTypeOK
    <3>3. QED
      BY <2>4, <2>5, <2>6, <2>8, <3>1, <3>2, LaunchesAre DEF OneOpenVpn
  <2>10. /\ vpnFile'[p] = IF r = "password" THEN k ELSE vpnFile[p]
         /\ \A q \in Profiles \ {p} : vpnFile'[q] = vpnFile[q]
    BY <2>1 DEF VpnTypeOK
  <2>11. PasswordFiles'
    <3>1. ASSUME NEW n \in Launches', IsAlive(n)', launch'[n].password PROVE n \in files'
      BY <2>1, <2>4, <2>5, <2>6, <3>1 DEF PasswordFiles, IsAlive
    <3>2. ASSUME NEW n \in files'
          PROVE  \/ vpnFile'[launch'[n].profile] = n
                 \/ launch'[n].state \in {"failed", "orphan"}
      <4>1. CASE n = k /\ r = "password"
        BY <2>4, <2>5, <2>10, <4>1
      <4>2. CASE n \in files
        <5>1. n \in Launches /\ launch'[n] = launch[n]
          BY <2>5, <4>2 DEF VpnTypeOK
        <5>2. CASE launch[n].profile # p
          BY <2>10, <4>2, <5>1, <5>2, LaunchesAre DEF PasswordFiles
        <5>3. CASE launch[n].profile = p
          <6>1. ~IsAlive(n) /\ n # 0
            BY <2>8, <5>1, <5>3, LaunchesAre
          <6>2. launch[n].state \in {"failed", "orphan"}
            BY <4>2, <5>1, <6>1, LaunchesAre DEF IsAlive, Alive, States
          <6>3. QED
            BY <5>1, <6>2
        <5>4. QED
          BY <5>2, <5>3
      <4>3. QED
        BY <2>1, <4>1, <4>2
    <3>3. QED
      BY <3>1, <3>2 DEF PasswordFiles
  <2>12. VpnTables'
    <3>1. vpnProcess'[p] = k /\ \A q \in Profiles \ {p} : vpnProcess'[q] = vpnProcess[q]
      BY <2>1 DEF VpnTypeOK
    <3>2. \A q \in Profiles : vpnProcess'[q] # 0 => launch'[vpnProcess'[q]].profile = q
      BY <2>4, <2>5, <3>1 DEF VpnTables, VpnTypeOK
    <3>3. \A q \in Profiles : vpnFile'[q] # 0 => launch'[vpnFile'[q]].profile = q
      BY <2>4, <2>5, <2>10 DEF VpnTables, VpnTypeOK
    <3>4. QED
      BY <3>2, <3>3 DEF VpnTables
  <2>13. \A n \in files' : launch'[n].state # "ended"
    BY <2>1, <2>4, <2>5 DEF VpnTypeOK
  <2>14. QED
    BY <2>7, <2>9, <2>11, <2>12, <2>13
<1>4. QED
  BY <1>1, <1>2, <1>3 DEF startOpenVpn

(* A process that starts or fails to keeps what the tables say of it. *)
LEMMA VpnStartedOrFailed ==
  ASSUME VpnInv, NEW n \in Launches, NEW said,
         vpnStarted(n, said) \/ vpnFailedToStart(n, said)
  PROVE  VpnInv'
<1> USE DEF VpnInv
<1>1. PICK s \in {"running", "failed"} :
        /\ launch[n].state = "starting"
        /\ SetState(n, s)
        /\ UNCHANGED <<vpnProcess, vpnFile, files, stopTimer>>
  BY DEF vpnStarted, vpnFailedToStart
<1>2. /\ launch' \in Seq(LaunchRecords)
      /\ Launches' = Launches
      /\ \A m \in Launches : /\ launch'[m].profile = launch[m].profile
                             /\ launch'[m].password = launch[m].password
                             /\ launch'[m].state = IF m = n THEN s ELSE launch[m].state
  BY <1>1, SetStateIs DEF States
<1>3. VpnTypeOK'
  BY <1>1, <1>2 DEF VpnTypeOK, LaunchRecords, Launches
<1>4. \A m \in Launches : IsAlive(m)' => IsAlive(m)
  BY <1>1, <1>2, LaunchesAre DEF IsAlive, Alive
<1>5. OneOpenVpn'
  BY <1>1, <1>2, <1>4 DEF OneOpenVpn
<1>6. PasswordFiles'
  <2>1. \A m \in Launches : IsAlive(m) /\ launch[m].password => m \in files
    BY DEF PasswordFiles
  <2>2. \A m \in files : m \in Launches
    BY DEF VpnTypeOK
  <2>3. \A m \in files : \/ vpnFile'[launch'[m].profile] = m
                         \/ launch'[m].state \in {"failed", "orphan"}
    BY <1>1, <1>2, <2>2 DEF PasswordFiles
  <2>4. QED
    BY <1>1, <1>2, <1>4, <2>1, <2>3 DEF PasswordFiles
<1>7. VpnTables' /\ \A m \in files' : launch'[m].state # "ended"
  BY <1>1, <1>2 DEF VpnTables, VpnTypeOK
<1>8. QED
  BY <1>3, <1>5, <1>6, <1>7

(* A process that ends takes its entry and its file with it. *)
LEMMA VpnFinished ==
  ASSUME VpnInv, NEW n \in Launches, NEW said, vpnFinished(n, said)
  PROVE  VpnInv'
<1> USE DEF VpnInv
<1> DEFINE p == launch[n].profile
<1>1. /\ launch[n].state \in {"running", "killed"}
      /\ SetState(n, "ended")
      /\ vpnProcess' = [vpnProcess EXCEPT ![p] = 0]
      /\ vpnFile' = [vpnFile EXCEPT ![p] = 0]
      /\ files' = files \ {vpnFile[p]}
      /\ stopTimer' = stopTimer
  BY DEF vpnFinished, cleanupAuthFile
<1>2. /\ launch' \in Seq(LaunchRecords)
      /\ Launches' = Launches
      /\ \A m \in Launches : /\ launch'[m].profile = launch[m].profile
                             /\ launch'[m].password = launch[m].password
                             /\ launch'[m].state = IF m = n THEN "ended" ELSE launch[m].state
  BY <1>1, SetStateIs DEF States
<1>3. p \in Profiles /\ n # 0 /\ \A m \in Launches : launch[m].profile \in Profiles
  BY LaunchesAre
<1> HIDE DEF p
<1>4. /\ \A q \in Profiles : vpnProcess'[q] = IF q = p THEN 0 ELSE vpnProcess[q]
      /\ \A q \in Profiles : vpnFile'[q] = IF q = p THEN 0 ELSE vpnFile[q]
  BY <1>1, <1>3 DEF VpnTypeOK
<1>5. VpnTypeOK'
  <2>1. /\ vpnProcess' \in [Profiles -> {0} \cup Launches]
        /\ vpnFile' \in [Profiles -> {0} \cup Launches]
    BY <1>1, <1>3 DEF VpnTypeOK
  <2>2. QED
    BY <1>1, <1>2, <2>1 DEF VpnTypeOK, LaunchRecords, Launches
<1>6. \A m \in Launches : IsAlive(m)' => IsAlive(m) /\ m # n
  BY <1>2 DEF IsAlive, Alive
<1>7. \A m \in Launches : IsAlive(m)' => launch[m].profile # p
  <2>1. IsAlive(n)
    BY <1>1, <1>3 DEF IsAlive, Alive
  <2>2. vpnProcess[p] = n
    BY <2>1 DEF OneOpenVpn, p
  <2>3. QED
    BY <1>6, <2>2 DEF OneOpenVpn
<1>8. OneOpenVpn'
  BY <1>2, <1>3, <1>4, <1>6, <1>7 DEF OneOpenVpn
<1>9. n \notin files'
  <2>1. n \in files => vpnFile[p] = n
    BY <1>1 DEF PasswordFiles, p
  <2>2. QED
    BY <1>1, <2>1
<1>10. PasswordFiles'
  <2>1. ASSUME NEW m \in Launches, IsAlive(m)', launch'[m].password PROVE m \in files'
    <3>1. m \in files /\ launch[m].profile # p
      BY <1>2, <1>6, <1>7, <2>1 DEF PasswordFiles
    <3>2. m # vpnFile[p]
      BY <1>3, <3>1, LaunchesAre DEF VpnTables
    <3>3. QED
      BY <1>1, <3>1, <3>2
  <2>2. ASSUME NEW m \in files'
        PROVE  \/ vpnFile'[launch'[m].profile] = m
               \/ launch'[m].state \in {"failed", "orphan"}
    <3>1. m \in files /\ m # vpnFile[p] /\ m \in Launches /\ m # n
      BY <1>1, <1>9 DEF VpnTypeOK
    <3>2. QED
      BY <1>2, <1>3, <1>4, <3>1 DEF PasswordFiles
  <2>3. QED
    BY <1>2, <2>1, <2>2 DEF PasswordFiles
<1>11. VpnTables'
  BY <1>2, <1>4 DEF VpnTables, VpnTypeOK
<1>12. \A m \in files' : launch'[m].state # "ended"
  BY <1>1, <1>2, <1>9 DEF VpnTypeOK
<1>13. QED
  BY <1>5, <1>8, <1>10, <1>11, <1>12

LEMMA VpnStop ==
  ASSUME VpnInv, NEW p \in Profiles, NEW said, stopOpenVpn(p, said)
  PROVE  VpnInv'
<1>1. /\ UNCHANGED <<vpnProcess, vpnFile, files, launch>>
      /\ stopTimer' \subseteq Launches
  BY LaunchesAre DEF VpnInv, stopOpenVpn, vpnVars, VpnTypeOK
<1>2. QED
  BY <1>1 DEF VpnInv, VpnTypeOK, OneOpenVpn, PasswordFiles, VpnTables, Launches, IsAlive

(* The kill of a timer keeps the process alive until its end is reported. *)
LEMMA VpnStopTimeout ==
  ASSUME VpnInv, NEW n \in Launches, stopTimeout(n)
  PROVE  VpnInv' /\ Launches' = Launches /\ \A p \in Profiles : HasOpenVpn(p) => HasOpenVpn(p)'
<1> USE DEF VpnInv
<1>1. /\ UNCHANGED <<vpnProcess, vpnFile, files>>
      /\ stopTimer' = stopTimer \ {n}
  BY DEF stopTimeout
<1>2. CASE launch' = launch
  <2>1. VpnInv'
    BY <1>1, <1>2 DEF VpnTypeOK, OneOpenVpn, PasswordFiles, VpnTables, Launches, IsAlive
  <2>2. QED
    BY <1>2, <2>1 DEF HasOpenVpn, Launches, IsAlive
<1>3. CASE IsAlive(n) /\ SetState(n, "killed")
  <2>1. /\ launch' \in Seq(LaunchRecords)
        /\ Launches' = Launches
        /\ \A m \in Launches : /\ launch'[m].profile = launch[m].profile
                               /\ launch'[m].password = launch[m].password
                               /\ launch'[m].state = IF m = n THEN "killed" ELSE launch[m].state
    BY <1>3, SetStateIs DEF States
  <2>2. VpnTypeOK'
    BY <1>1, <2>1 DEF VpnTypeOK, LaunchRecords, Launches
  <2>3. \A m \in Launches : IsAlive(m)' = IsAlive(m)
    BY <1>3, <2>1 DEF IsAlive, Alive
  <2>4. OneOpenVpn'
    BY <1>1, <2>1, <2>3 DEF OneOpenVpn
  <2>5. PasswordFiles'
    <3>1. n \in files => vpnFile[launch[n].profile] = n
      BY <1>3 DEF PasswordFiles, IsAlive, Alive
    <3>2. \A m \in files : m \in Launches
      BY DEF VpnTypeOK
    <3>3. QED
      BY <1>1, <2>1, <2>3, <3>1, <3>2 DEF PasswordFiles
  <2>6. VpnTables' /\ \A m \in files' : launch'[m].state # "ended"
    BY <1>1, <2>1 DEF VpnTables, VpnTypeOK
  <2>7. \A p \in Profiles : HasOpenVpn(p) => HasOpenVpn(p)'
    BY <2>1, <2>3 DEF HasOpenVpn
  <2>8. QED
    BY <2>1, <2>2, <2>4, <2>5, <2>6, <2>7
<1>4. QED
  BY <1>2, <1>3 DEF stopTimeout, SetState

(* Of a dead agent's processes nothing is known any more. *)
LEMMA VpnAbandon ==
  ASSUME VpnInv, abandonOpenVpn
  PROVE  VpnInv'
<1> USE DEF VpnInv
<1> DEFINE e(n) == IF IsAlive(n) THEN [launch[n] EXCEPT !.state = "orphan"] ELSE launch[n]
<1>1. /\ vpnProcess' = [p \in Profiles |-> 0]
      /\ vpnFile' = [p \in Profiles |-> 0]
      /\ stopTimer' = {}
      /\ launch' = [n \in Launches |-> e(n)]
      /\ files' = files
  BY DEF abandonOpenVpn
<1>2. /\ Launches = 1..Len(launch) /\ Len(launch) \in Nat
      /\ \A n \in Launches : launch[n] \in LaunchRecords /\ n # 0
  BY LaunchesAre
<1>3. \A n \in Launches :
        /\ e(n) \in LaunchRecords
        /\ e(n).password = launch[n].password
        /\ IsAlive(n) => e(n).state = "orphan"
        /\ ~IsAlive(n) => e(n) = launch[n]
  BY <1>2 DEF LaunchRecords, States
<1> HIDE DEF e
<1>4. launch' \in Seq(LaunchRecords) /\ Launches' = Launches
  <2>1. launch' = [n \in 1..Len(launch) |-> e(n)]
    BY <1>1, <1>2
  <2>2. launch' \in Seq(LaunchRecords)
    BY <1>2, <1>3, <2>1, IsASeq
  <2>3. QED
    BY <1>1, <2>2 DEF Launches
<1>5. \A n \in Launches : launch'[n] = e(n)
  BY <1>1
<1>6. VpnTypeOK'
  BY <1>1, <1>4 DEF VpnTypeOK, LaunchRecords, Launches
<1>7. \A n \in Launches : ~IsAlive(n)'
  BY <1>2, <1>3, <1>5 DEF IsAlive, Alive
<1>8. OneOpenVpn'
  BY <1>4, <1>7 DEF OneOpenVpn
<1>9. \A n \in files : launch'[n].state \in {"failed", "orphan"}
  <2> SUFFICES ASSUME NEW n \in files PROVE launch'[n].state \in {"failed", "orphan"}
    OBVIOUS
  <2>1. n \in Launches
    BY DEF VpnTypeOK
  <2>2. CASE IsAlive(n)
    BY <1>3, <1>5, <2>1, <2>2
  <2>3. CASE ~IsAlive(n)
    <3>1. launch[n].state \in {"failed", "orphan"}
      BY <1>2, <2>1, <2>3 DEF IsAlive, Alive, States, LaunchRecords
    <3>2. QED
      BY <1>3, <1>5, <2>1, <2>3, <3>1
  <2>4. QED
    BY <2>2, <2>3
<1>10. PasswordFiles'
  BY <1>1, <1>4, <1>7, <1>9 DEF PasswordFiles
<1>11. VpnTables'
  BY <1>1 DEF VpnTables
<1>12. QED
  BY <1>1, <1>6, <1>8, <1>9, <1>10, <1>11

(* What the callbacks may say: "running" is said of a profile that has a    *)
(* process, and a profile loses its process only in a step that says        *)
(* something else of it.                                                    *)
SaysRight(p, said) ==
  /\ said = <<"running">> => HasOpenVpn(p)'
  /\ \A q \in Profiles : q # p \/ said = <<>> => (HasOpenVpn(q) => HasOpenVpn(q)')

LEMMA SameLaunches ==
  ASSUME launch' = launch
  PROVE  \A p \in Profiles : HasOpenVpn(p)' = HasOpenVpn(p)
BY DEF HasOpenVpn, Launches, IsAlive

LEMMA StartSaysRight ==
  ASSUME VpnInv, NEW p \in Profiles, NEW r \in StartRequests, NEW said \in Said,
         startOpenVpn(p, r, said)
  PROVE  SaysRight(p, said)
<1> USE DEF SaysRight
<1>1. CASE launch' = launch
  <2>1. said = <<"running">> => hasProcess(p)
    BY <1>1 DEF startOpenVpn, launchOpenVpn
  <2>2. hasProcess(p) => HasOpenVpn(p)
    BY DEF hasProcess, HasOpenVpn, IsAlive, VpnInv, VpnTables, VpnTypeOK
  <2>3. QED
    BY <1>1, <2>1, <2>2, SameLaunches
<1>2. CASE launchOpenVpn(p, r) /\ said = <<>>
  <2> DEFINE e == [profile |-> p, state |-> "starting", password |-> r = "password"]
  <2>1. launch' = Append(launch, e)
    BY <1>2 DEF launchOpenVpn
  <2>2. launch \in Seq(LaunchRecords) /\ e \in LaunchRecords
    BY DEF VpnInv, VpnTypeOK, LaunchRecords, States
  <2>3. Launches = 1..Len(launch) /\ Len(launch) \in Nat
    BY LaunchesAre DEF VpnInv
  <2> HIDE DEF e
  <2>4. launch' \in Seq(LaunchRecords) /\ Len(launch') = Len(launch) + 1
    BY <2>1, <2>2, AppendProperties
  <2>5. Launches \subseteq Launches' /\ \A n \in Launches : launch'[n] = launch[n]
    BY <2>1, <2>2, <2>3, <2>4, AppendProperties, LenProperties DEF Launches
  <2>6. \A q \in Profiles : HasOpenVpn(q) => HasOpenVpn(q)'
    BY <2>5 DEF HasOpenVpn, IsAlive
  <2>7. QED
    BY <1>2, <2>6
<1>3. QED
  BY <1>1, <1>2 DEF startOpenVpn, vpnVars, passwordFileFails

LEMMA StopSaysRight ==
  ASSUME VpnInv, NEW p \in Profiles, NEW said, stopOpenVpn(p, said)
  PROVE  SaysRight(p, said)
<1>1. launch' = launch /\ said # <<"running">>
  BY DEF stopOpenVpn, vpnVars
<1>2. QED
  BY <1>1, SameLaunches DEF SaysRight

LEMMA EventSaysRight ==
  ASSUME VpnInv, NEW n \in Launches, NEW said,
         vpnStarted(n, said) \/ vpnFailedToStart(n, said) \/ vpnFinished(n, said)
  PROVE  SaysRight(launch[n].profile, said)
<1> DEFINE p == launch[n].profile
<1>1. PICK s \in {"running", "failed", "ended"} :
        /\ SetState(n, s)
        /\ said # <<>>
        /\ said = <<"running">> => s = "running"
  BY DEF vpnStarted, vpnFailedToStart, vpnFinished
<1>2. /\ Launches' = Launches
      /\ \A m \in Launches : /\ launch'[m].profile = launch[m].profile
                             /\ launch'[m].state = IF m = n THEN s ELSE launch[m].state
  BY <1>1, SetStateIs DEF States, VpnInv
<1>3. \A q \in Profiles : q # p => (HasOpenVpn(q) => HasOpenVpn(q)')
  BY <1>2 DEF HasOpenVpn, IsAlive
<1>4. s = "running" => HasOpenVpn(p)'
  BY <1>2, LaunchesAre DEF HasOpenVpn, IsAlive, Alive, VpnInv
<1>5. QED
  BY <1>1, <1>3, <1>4 DEF SaysRight

(* Only a timer kills, and what it was set for. *)
LEMMA KillStep ==
  ASSUME VpnInv, NEW n \in Launches,
         \/ UNCHANGED vpnVars
         \/ \E p \in Profiles, r \in StartRequests, said \in Said : startOpenVpn(p, r, said)
         \/ \E p \in Profiles, said \in Said : stopOpenVpn(p, said)
         \/ \E m \in Launches, said \in Said :
              vpnStarted(m, said) \/ vpnFailedToStart(m, said) \/ vpnFinished(m, said)
         \/ \E m \in Launches : stopTimeout(m)
         \/ abandonOpenVpn,
         launch'[n].state = "killed", launch[n].state # "killed"
  PROVE  n \in stopTimer
<1>1. /\ Launches = 1..Len(launch) /\ Len(launch) \in Nat /\ launch \in Seq(LaunchRecords)
      /\ \A m \in Launches : launch[m] \in LaunchRecords
      /\ VpnTypeOK
  BY LaunchesAre DEF VpnInv, VpnTypeOK, LaunchRecords
<1>2. launch' # launch
  OBVIOUS
<1>3. ~UNCHANGED vpnVars
  BY <1>2 DEF vpnVars
<1>4. ASSUME NEW p \in Profiles, NEW r \in StartRequests, NEW said, startOpenVpn(p, r, said)
      PROVE  FALSE
  <2> DEFINE e == [profile |-> p, state |-> "starting", password |-> r = "password"]
  <2>1. launch' = Append(launch, e)
    BY <1>2, <1>4 DEF startOpenVpn, vpnVars, passwordFileFails, launchOpenVpn
  <2>2. e \in LaunchRecords
    BY DEF LaunchRecords, States
  <2> HIDE DEF e
  <2>3. launch'[n] = launch[n]
    BY <1>1, <2>1, <2>2, AppendProperties
  <2>4. QED
    BY <2>3
<1>5. ASSUME NEW p \in Profiles, NEW said, stopOpenVpn(p, said) PROVE FALSE
  BY <1>2, <1>5 DEF stopOpenVpn, vpnVars
<1>6. ASSUME NEW m \in Launches, NEW said,
             vpnStarted(m, said) \/ vpnFailedToStart(m, said) \/ vpnFinished(m, said)
      PROVE  FALSE
  <2>1. PICK s \in {"running", "failed", "ended"} : SetState(m, s)
    BY <1>6 DEF vpnStarted, vpnFailedToStart, vpnFinished
  <2>2. launch'[n].state = IF n = m THEN s ELSE launch[n].state
    BY <1>1, <2>1, SetStateIs DEF States
  <2>3. QED
    BY <2>2
<1>7. ASSUME NEW m \in Launches, stopTimeout(m) PROVE n \in stopTimer
  <2>1. m \in stopTimer /\ SetState(m, "killed")
    BY <1>2, <1>7 DEF stopTimeout, SetState
  <2>2. launch'[n].state = IF n = m THEN "killed" ELSE launch[n].state
    BY <1>1, <2>1, SetStateIs DEF States
  <2>3. QED
    BY <2>1, <2>2
<1>8. ASSUME abandonOpenVpn PROVE FALSE
  <2>1. launch'[n] = IF IsAlive(n) THEN [launch[n] EXCEPT !.state = "orphan"] ELSE launch[n]
    BY <1>8 DEF abandonOpenVpn
  <2>2. launch[n] \in [profile : Profiles, state : States, password : BOOLEAN]
    BY <1>1 DEF LaunchRecords
  <2>3. QED
    BY <2>1, <2>2
<1>9. QED
  BY <1>3, <1>4, <1>5, <1>6, <1>7, <1>8

-----------------------------------------------------------------------------
(* Connections: what a step does to the messages that wait in them.        *)

LEMMA AllGoodAt ==
  ASSUME NEW M, NEW S, AllGood(S, M), NEW c \in 1..Len(S)
  PROVE  Good(S[c], M) /\ Waiting(S[c]) \in Seq(M)
<1>1. Good(S[c], M)
  BY ElementOfSeq DEF AllGood, Good
<1>2. QED
  BY <1>1, WaitingType

With(S, c, s) == [S EXCEPT ![c] = s]

LEMMA AllGoodWith ==
  ASSUME NEW M, NEW S, AllGood(S, M), NEW c \in 1..Len(S), NEW s, Good(s, M)
  PROVE  /\ AllGood(With(S, c, s), M) /\ Len(With(S, c, s)) = Len(S)
         /\ \A d \in 1..Len(S) : With(S, c, s)[d] = IF d = c THEN s ELSE S[d]
<1>1. S \in Seq(Streams(M)) /\ s \in Streams(M)
  BY DEF AllGood, Good
<1>2. /\ With(S, c, s) \in Seq(Streams(M)) /\ Len(With(S, c, s)) = Len(S)
      /\ \A d \in 1..Len(S) : With(S, c, s)[d] = IF d = c THEN s ELSE S[d]
  BY <1>1, ExceptSeq DEF With
<1>3. AllGood(With(S, c, s), M)
  BY <1>2 DEF AllGood, Good
<1>4. QED
  BY <1>2, <1>3

LEMMA AllGoodAppend ==
  ASSUME NEW M, NEW S, AllGood(S, M)
  PROVE  /\ AllGood(Append(S, NewStream), M)
         /\ Len(Append(S, NewStream)) = Len(S) + 1 /\ Len(S) \in Nat
         /\ \A d \in 1..Len(S) : Append(S, NewStream)[d] = S[d]
         /\ Append(S, NewStream)[Len(S) + 1] = NewStream
<1>1. S \in Seq(Streams(M)) /\ NewStream \in Streams(M) /\ Whole(NewStream)
  BY StreamNew DEF AllGood, Good
<1> DEFINE e == Append(S, NewStream)
<1>2. /\ e \in Seq(Streams(M)) /\ Len(e) = Len(S) + 1 /\ Len(S) \in Nat
      /\ \A d \in 1..Len(S) : e[d] = S[d]
      /\ e[Len(S) + 1] = NewStream
  BY <1>1, AppendProperties, LenProperties
<1> HIDE DEF e
<1>3. AllGood(e, M)
  BY <1>1, <1>2 DEF AllGood
<1>4. QED
  BY <1>2, <1>3 DEF e

LEMMA AllGoodClear ==
  ASSUME NEW M, NEW S, AllGood(S, M), NEW n \in Nat, n = Len(S), NEW D,
         NEW T, T = [c \in 1..n |-> IF c \in D THEN NewStream ELSE S[c]]
  PROVE  /\ AllGood(T, M) /\ Len(T) = n
         /\ \A d \in 1..n : T[d] = IF d \in D THEN NewStream ELSE S[d]
<1>1. \A c \in 1..n : Good(IF c \in D THEN NewStream ELSE S[c], M)
  BY AllGoodAt, StreamNew
<1>2. \A c \in 1..n : (IF c \in D THEN NewStream ELSE S[c]) \in Streams(M)
  BY <1>1 DEF Good
<1>3. T \in Seq(Streams(M))
  BY <1>2, IsASeq
<1>4. Len(T) = n
  BY <1>3, LenProperties
<1>5. \A d \in 1..n : T[d] = IF d \in D THEN NewStream ELSE S[d]
  OBVIOUS
<1>6. QED
  BY <1>1, <1>3, <1>4, <1>5 DEF AllGood, Good

LEMMA ConnsAre ==
  ASSUME ConnInv
  PROVE  Conns = 1..Len(conn) /\ Len(conn) \in Nat
BY LenProperties DEF ConnInv, Conns

(* The streams of connections are whole, and their messages typed. *)
LEMMA InOut ==
  ASSUME ConnInv, StreamsInv, NEW c \in Conns
  PROVE  /\ Good(toAgent[c], Requests) /\ In(c) \in Seq(Requests)
         /\ Good(toClient[c], Replies) /\ Out(c) \in Seq(Replies)
BY ConnsAre, AllGoodAt DEF StreamsInv, In, Out

LEMMA SendTo ==
  ASSUME ConnInv, StreamsInv, NEW c \in 0..Len(conn), NEW ms \in Seq(Replies),
         sendTo(c, ms)
  PROVE  /\ AllGood(toClient', Replies) /\ Len(toClient') = Len(conn)
         /\ \A d \in Conns :
              Out(d)' = IF d = c /\ IsOpen(c) THEN Out(d) \o ms ELSE Out(d)
<1>1. CASE ~IsOpen(c)
  BY <1>1 DEF sendTo, StreamsInv, Out
<1>2. CASE IsOpen(c)
  <2> DEFINE s == send(toClient[c], ms)
  <2>1. c \in Conns /\ Conns = 1..Len(toClient)
    BY <1>2, ConnsAre DEF IsOpen, StreamsInv
  <2>2. Good(s, Replies) /\ Waiting(s) = Out(c) \o ms
    BY <2>1, InOut, StreamSend DEF Out
  <2>3. toClient' = With(toClient, c, s)
    BY <1>2 DEF sendTo, With
  <2> HIDE DEF s
  <2>4. /\ AllGood(toClient', Replies) /\ Len(toClient') = Len(toClient)
        /\ \A d \in Conns : toClient'[d] = IF d = c THEN s ELSE toClient[d]
    <3>1. AllGood(toClient, Replies) /\ c \in 1..Len(toClient) /\ Conns = 1..Len(toClient)
      BY <2>1 DEF StreamsInv
    <3>2. QED
      BY <2>2, <2>3, <3>1, AllGoodWith
  <2>5. QED
    BY <1>2, <2>2, <2>4 DEF StreamsInv, Out
<1>3. QED
  BY <1>1, <1>2

(* A new connection brings two new streams. *)
LEMMA NewConnection ==
  ASSUME ConnInv, StreamsInv, NEW by \in {"console", "other"}, newConnection(by)
  PROVE  /\ StreamsInv'
         /\ conn' \in Seq([by : {"console", "other"}, state : {"pending", "open", "closed"}])
         /\ Len(conn') = Len(conn) + 1
         /\ Conns' = Conns \cup {Len(conn) + 1}
         /\ \A c \in Conns : conn'[c] = conn[c] /\ In(c)' = In(c) /\ Out(c)' = Out(c)
         /\ conn'[Len(conn) + 1] = [by |-> by, state |-> "pending"]
         /\ Waiting(toAgent'[Len(conn) + 1]) = <<>> /\ Waiting(toClient'[Len(conn) + 1]) = <<>>
<1> DEFINE R == [by : {"console", "other"}, state : {"pending", "open", "closed"}]
           e == [by |-> by, state |-> "pending"]
           n == Len(conn) + 1
<1>1. conn \in Seq(R) /\ e \in R
  BY DEF ConnInv
<1>2. conn' = Append(conn, e)
  BY DEF newConnection
<1> HIDE DEF R, e
<1>3. /\ conn' \in Seq(R) /\ Len(conn') = n /\ conn'[n] = e
      /\ \A c \in 1..Len(conn) : conn'[c] = conn[c]
  BY <1>1, <1>2, AppendProperties
<1>4. /\ Conns' = 1..n /\ Conns = 1..Len(conn) /\ Len(conn) \in Nat
  BY <1>3, ConnsAre, LenProperties DEF Conns
<1>5. /\ AllGood(toAgent', Requests) /\ Len(toAgent') = n /\ toAgent'[n] = NewStream
      /\ \A c \in Conns : toAgent'[c] = toAgent[c]
  BY <1>4, AllGoodAppend DEF newConnection, StreamsInv
<1>6. /\ AllGood(toClient', Replies) /\ Len(toClient') = n /\ toClient'[n] = NewStream
      /\ \A c \in Conns : toClient'[c] = toClient[c]
  BY <1>4, AllGoodAppend DEF newConnection, StreamsInv
<1>7. Waiting(NewStream) = <<>>
  BY StreamNew
<1>8. StreamsInv'
  BY <1>3, <1>5, <1>6 DEF StreamsInv
<1>9. Conns' = Conns \cup {n}
  BY <1>4
<1>10. QED
  BY <1>3, <1>4, <1>5, <1>6, <1>7, <1>8, <1>9 DEF R, e, In, Out

LEMMA TakeFirst ==
  ASSUME NEW M, NEW S, AllGood(S, M), NEW c \in 1..Len(S), HasFrame(S[c]),
         NEW T, T = With(S, c, removeFrame(S[c]))
  PROVE  /\ AllGood(T, M) /\ Len(T) = Len(S)
         /\ Waiting(S[c]) \in Seq(M) /\ Waiting(S[c]) # <<>>
         /\ payload(S[c]) = Head(Waiting(S[c]))
         /\ Waiting(T[c]) = Tail(Waiting(S[c]))
         /\ \A d \in 1..Len(S) : d # c => T[d] = S[d]
<1>1. /\ Waiting(S[c]) \in Seq(M) /\ Waiting(S[c]) # <<>>
      /\ payload(S[c]) = Head(Waiting(S[c]))
      /\ Good(removeFrame(S[c]), M)
      /\ Waiting(removeFrame(S[c])) = Tail(Waiting(S[c]))
  BY AllGoodAt, StreamTake
<1>2. QED
  BY <1>1, AllGoodWith

LEMMA ReadSome ==
  ASSUME NEW M, NEW S, AllGood(S, M), NEW c \in 1..Len(S), NEW k \in 1..Len(S[c].wire),
         NEW T, T = With(S, c, readAll(S[c], k))
  PROVE  /\ AllGood(T, M) /\ Len(T) = Len(S)
         /\ \A d \in 1..Len(S) : Waiting(T[d]) = Waiting(S[d])
<1>1. Good(readAll(S[c], k), M) /\ Waiting(readAll(S[c], k)) = Waiting(S[c])
  BY AllGoodAt, StreamRead
<1>2. /\ AllGood(T, M) /\ Len(T) = Len(S)
      /\ \A d \in 1..Len(S) : T[d] = IF d = c THEN readAll(S[c], k) ELSE S[d]
  BY <1>1, AllGoodWith
<1>3. QED
  BY <1>1, <1>2

LEMMA ForgetOne ==
  ASSUME NEW M, NEW S, AllGood(S, M), NEW c \in 1..Len(S),
         NEW T, T = With(S, c, NewStream)
  PROVE  /\ AllGood(T, M) /\ Len(T) = Len(S)
         /\ Waiting(T[c]) = <<>>
         /\ \A d \in 1..Len(S) : d # c => T[d] = S[d]
<1>1. Good(NewStream, M) /\ Waiting(NewStream) = <<>>
  BY StreamNew
<1>2. QED
  BY <1>1, AllGoodWith

-----------------------------------------------------------------------------
(* Messages of one type in queue v are some of those in w: what was read    *)
(* off the front or lost is gone, what was appended is of another type.     *)
Keeps(v, w, type) ==
  \E k \in Nat : \A i \in DOMAIN v :
    v[i].type = type => i \in Nat /\ i + k \in DOMAIN w /\ v[i] = w[i + k]

LEMMA KeepsSame ==
  ASSUME NEW M, NEW w \in Seq(M), NEW type
  PROVE  Keeps(w, w, type) /\ Keeps(<<>>, w, type)
<1>1. DOMAIN w = 1..Len(w) /\ Len(w) \in Nat
  BY LenProperties
<1>2. \A i \in DOMAIN w : i \in Nat /\ i + 0 = i
  BY <1>1
<1>3. Keeps(w, w, type)
  BY <1>2 DEF Keeps
<1>4. Keeps(<<>>, w, type)
  BY DEF Keeps
<1>5. QED
  BY <1>3, <1>4

LEMMA KeepsTail ==
  ASSUME NEW M, NEW w \in Seq(M), w # <<>>, NEW type
  PROVE  Keeps(Tail(w), w, type)
<1>1. /\ Tail(w) \in Seq(M) /\ Len(Tail(w)) = Len(w) - 1
      /\ \A i \in 1..Len(Tail(w)) : Tail(w)[i] = w[i + 1]
  BY HeadTailProperties
<1>2. /\ DOMAIN Tail(w) = 1..(Len(w) - 1)
      /\ DOMAIN w = 1..Len(w) /\ Len(w) \in Nat
  BY <1>1, LenProperties
<1> DEFINE v == Tail(w)
<1> HIDE DEF v
<1>3. \A i \in DOMAIN v : i \in Nat /\ i + 1 \in DOMAIN w /\ v[i] = w[i + 1]
  BY <1>1, <1>2 DEF v
<1>4. Keeps(v, w, type)
  BY <1>3 DEF Keeps
<1>5. QED
  BY <1>4 DEF v

LEMMA KeepsConcat ==
  ASSUME NEW M, NEW w \in Seq(M), NEW ms \in Seq(M), NEW type,
         \A i \in 1..Len(ms) : ms[i].type # type
  PROVE  Keeps(w \o ms, w, type)
<1> DEFINE v == w \o ms
<1>1. /\ v \in Seq(M) /\ Len(v) = Len(w) + Len(ms)
      /\ Len(w) \in Nat /\ Len(ms) \in Nat /\ DOMAIN w = 1..Len(w)
      /\ \A i \in 1..(Len(w) + Len(ms)) : v[i] = IF i <= Len(w) THEN w[i] ELSE ms[i - Len(w)]
  BY ConcatProperties, LenProperties
<1> HIDE DEF v
<1>2. DOMAIN v = 1..(Len(w) + Len(ms))
  BY <1>1, LenProperties
<1>3. ASSUME NEW i \in DOMAIN v, v[i].type = type
      PROVE  i \in Nat /\ i + 0 \in DOMAIN w /\ v[i] = w[i + 0]
  <2>1. i \in Nat /\ i + 0 = i
    BY <1>1, <1>2
  <2>2. i <= Len(w)
    <3>1. SUFFICES ASSUME ~(i <= Len(w)) PROVE FALSE
      OBVIOUS
    <3>2. i - Len(w) \in 1..Len(ms) /\ v[i] = ms[i - Len(w)]
      BY <1>1, <1>2, <3>1
    <3>3. QED
      BY <1>3, <3>2
  <2>3. QED
    BY <1>1, <1>2, <2>1, <2>2
<1>4. Keeps(v, w, type)
  BY <1>3 DEF Keeps
<1>5. QED
  BY <1>4 DEF v

(* When requests only leave the queues of connections and their tests are   *)
(* not touched, they stay unique. *)
LEMMA RequestsKept ==
  ASSUME RequestInv, asked \subseteq asked',
         \A c \in Conns' : In(c)' = <<>> \/ (c \in Conns /\ Keeps(In(c)', In(c), "proxy.test")),
         \A c \in Conns' : \A i \in DOMAIN In(c)' :
           IsRequest(In(c)'[i]) => test'[In(c)'[i].test] = test[In(c)'[i].test]
  PROVE  RequestInv'
<1> SUFFICES ASSUME NEW c \in Conns', NEW i \in DOMAIN In(c)', IsRequest(In(c)'[i])
             PROVE  /\ In(c)'[i].test \in asked' /\ test'[In(c)'[i].test] = NoTest
                    /\ \A d \in Conns' : \A j \in DOMAIN In(d)' :
                         IsRequest(In(d)'[j]) /\ In(d)'[j].test = In(c)'[i].test
                           => d = c /\ j = i
  BY DEF RequestInv, IsRequest
<1>1. c \in Conns /\ Keeps(In(c)', In(c), "proxy.test")
  OBVIOUS
<1>2. PICK k \in Nat : \A j \in DOMAIN In(c)' : IsRequest(In(c)'[j]) =>
        j \in Nat /\ j + k \in DOMAIN In(c) /\ In(c)'[j] = In(c)[j + k]
  BY <1>1 DEF Keeps, IsRequest
<1>3. i \in Nat /\ i + k \in DOMAIN In(c) /\ In(c)'[i] = In(c)[i + k]
  BY <1>2
<1>4. In(c)'[i].test \in asked' /\ test'[In(c)'[i].test] = NoTest
  BY <1>1, <1>3 DEF RequestInv
<1>5. ASSUME NEW d \in Conns', NEW j \in DOMAIN In(d)',
             IsRequest(In(d)'[j]), In(d)'[j].test = In(c)'[i].test
      PROVE  d = c /\ j = i
  <2>1. d \in Conns /\ Keeps(In(d)', In(d), "proxy.test")
    BY <1>5
  <2>2. PICK l \in Nat : \A n \in DOMAIN In(d)' : IsRequest(In(d)'[n]) =>
          n \in Nat /\ n + l \in DOMAIN In(d) /\ In(d)'[n] = In(d)[n + l]
    BY <2>1 DEF Keeps, IsRequest
  <2>3. j + l \in DOMAIN In(d) /\ In(d)'[j] = In(d)[j + l]
    BY <1>5, <2>2
  <2>4. d = c
    BY <1>1, <1>3, <1>5, <2>1, <2>3 DEF RequestInv
  <2>5. j \in Nat /\ j + k \in DOMAIN In(c) /\ In(c)'[j] = In(c)[j + k]
    BY <1>2, <1>5, <2>4
  <2>6. j + k = i + k
    BY <1>1, <1>3, <1>5, <2>4, <2>5 DEF RequestInv
  <2>7. QED
    BY <1>3, <2>4, <2>5, <2>6
<1>6. QED
  BY <1>4, <1>5

LEMMA ResultsKept ==
  ASSUME ResultInv,
         \A c \in Conns' : Out(c)' = <<>> \/ (c \in Conns /\ Keeps(Out(c)', Out(c), "result")),
         \A c \in Conns' : \A i \in DOMAIN Out(c)' :
           IsResult(Out(c)'[i]) =>
             LET t == Out(c)'[i].test IN
             /\ test[t].sent => test'[t].sent /\ test'[t].asker = test[t].asker
             /\ answers'[t] = answers[t]
  PROVE  ResultInv'
<1> SUFFICES ASSUME NEW c \in Conns', NEW i \in DOMAIN Out(c)', IsResult(Out(c)'[i])
             PROVE  /\ test'[Out(c)'[i].test].sent
                    /\ test'[Out(c)'[i].test].asker = c
                    /\ answers'[Out(c)'[i].test] = 0
                    /\ \A d \in Conns' : \A j \in DOMAIN Out(d)' :
                         IsResult(Out(d)'[j]) /\ Out(d)'[j].test = Out(c)'[i].test
                           => d = c /\ j = i
  BY DEF ResultInv, IsResult
<1>1. c \in Conns /\ Keeps(Out(c)', Out(c), "result")
  OBVIOUS
<1>2. PICK k \in Nat : \A j \in DOMAIN Out(c)' : IsResult(Out(c)'[j]) =>
        j \in Nat /\ j + k \in DOMAIN Out(c) /\ Out(c)'[j] = Out(c)[j + k]
  BY <1>1 DEF Keeps, IsResult
<1>3. i \in Nat /\ i + k \in DOMAIN Out(c) /\ Out(c)'[i] = Out(c)[i + k]
  BY <1>2
<1>4. /\ test'[Out(c)'[i].test].sent
      /\ test'[Out(c)'[i].test].asker = c
      /\ answers'[Out(c)'[i].test] = 0
  BY <1>1, <1>3 DEF ResultInv
<1>5. ASSUME NEW d \in Conns', NEW j \in DOMAIN Out(d)',
             IsResult(Out(d)'[j]), Out(d)'[j].test = Out(c)'[i].test
      PROVE  d = c /\ j = i
  <2>1. d \in Conns /\ Keeps(Out(d)', Out(d), "result")
    BY <1>5
  <2>2. PICK l \in Nat : \A n \in DOMAIN Out(d)' : IsResult(Out(d)'[n]) =>
          n \in Nat /\ n + l \in DOMAIN Out(d) /\ Out(d)'[n] = Out(d)[n + l]
    BY <2>1 DEF Keeps, IsResult
  <2>3. j + l \in DOMAIN Out(d) /\ Out(d)'[j] = Out(d)[j + l]
    BY <1>5, <2>2
  <2>4. d = c
    BY <1>1, <1>3, <1>5, <2>1, <2>3 DEF ResultInv
  <2>5. j \in Nat /\ j + k \in DOMAIN Out(c) /\ Out(c)'[j] = Out(c)[j + k]
    BY <1>2, <1>5, <2>4
  <2>6. j + k = i + k
    BY <1>1, <1>3, <1>5, <2>4, <2>5 DEF ResultInv
  <2>7. QED
    BY <1>3, <2>4, <2>5, <2>6
<1>6. QED
  BY <1>4, <1>5

-----------------------------------------------------------------------------
(* Connections: the bookkeeping of both sides.                             *)

ConnRecords == [by : {"console", "other"}, state : {"pending", "open", "closed"}]

LEMMA HasLeast ==
  ASSUME NEW T \in SUBSET Nat, T # {}
  PROVE  \E x \in T : \A y \in T : x <= y
<1> DEFINE R == OpToRel(<, Nat)
<1>1. R = {ss \in Nat \X Nat : ss[1] < ss[2]}
  BY DEF OpToRel
<1> HIDE DEF R
<1>2. IsWellFoundedOn(R, Nat)
  BY NatLessThanWellFounded DEF R
<1>3. PICK x \in T : \A y \in T : <<y, x>> \notin R
  BY <1>2, WFMin
<1>4. \A y \in T : ~(y < x)
  BY <1>1, <1>3
<1>5. QED
  BY <1>4

LEMMA HasLast ==
  ASSUME NEW n \in Nat, NEW S \in SUBSET (1..n), S # {}
  PROVE  \E c \in S : \A d \in S : d <= c
<1> DEFINE T == {n - c : c \in S}
<1>1. T # {} /\ T \in SUBSET Nat
  <2>1. \A c \in S : n - c \in Nat
    OBVIOUS
  <2>2. QED
    BY <2>1
<1>2. PICK x \in T : \A y \in T : x <= y
  BY <1>1, HasLeast
<1>3. PICK c \in S : x = n - c
  BY <1>2
<1>4. \A d \in S : d <= c
  <2> SUFFICES ASSUME NEW d \in S PROVE d <= c
    OBVIOUS
  <2>1. n - c <= n - d
    BY <1>2, <1>3
  <2>2. c \in Nat /\ d \in Nat
    OBVIOUS
  <2>3. QED
    BY <2>1, <2>2
<1>5. QED
  BY <1>4

ConnsWhere(state) == {c \in Conns : conn[c].state = state}

LEMMA LastPending ==
  ASSUME ConnInv, NEW pending, pending = ConnsWhere("pending"), pending # {},
         NEW last, last = CHOOSE c \in pending : \A d \in pending : d <= c
  PROVE  last \in pending /\ \A d \in pending : d <= last
<1>1. pending \in SUBSET (1..Len(conn)) /\ Len(conn) \in Nat
  BY ConnsAre DEF ConnsWhere
<1>2. \E c \in pending : \A d \in pending : d <= c
  BY <1>1, HasLast
<1>3. QED
  BY <1>2

LEMMA ConnRecordsAre ==
  ASSUME ConnInv, NEW c \in Conns
  PROVE  /\ conn[c] \in ConnRecords
         /\ conn[c].by \in {"console", "other"}
         /\ conn[c].state \in {"pending", "open", "closed"}
         /\ \A s \in {"pending", "open", "closed"} :
              /\ [conn[c] EXCEPT !.state = s] \in ConnRecords
              /\ [conn[c] EXCEPT !.state = s].by = conn[c].by
              /\ [conn[c] EXCEPT !.state = s].state = s
<1>1. conn \in Seq(ConnRecords)
  BY DEF ConnInv, ConnRecords
<1>2. conn[c] \in ConnRecords
  BY <1>1, ConnsAre, ElementOfSeq
<1>3. QED
  BY <1>2 DEF ConnRecords

(* The states of some connections change, nothing else about them. *)
LEMMA ConnsMarked ==
  ASSUME ConnInv, NEW D, NEW s \in {"pending", "open", "closed"},
         conn' = [c \in Conns |-> IF c \in D THEN [conn[c] EXCEPT !.state = s] ELSE conn[c]]
  PROVE  /\ conn' \in Seq(ConnRecords) /\ Len(conn') = Len(conn) /\ Conns' = Conns
         /\ \A c \in Conns : /\ conn'[c].by = conn[c].by
                             /\ conn'[c].state = IF c \in D THEN s ELSE conn[c].state
<1> DEFINE e(c) == IF c \in D THEN [conn[c] EXCEPT !.state = s] ELSE conn[c]
<1>1. Conns = 1..Len(conn) /\ Len(conn) \in Nat
  BY ConnsAre
<1>2. \A c \in Conns : /\ e(c) \in ConnRecords
                       /\ e(c).by = conn[c].by
                       /\ e(c).state = IF c \in D THEN s ELSE conn[c].state
  BY ConnRecordsAre
<1>3. conn' = [c \in 1..Len(conn) |-> e(c)]
  BY <1>1
<1> HIDE DEF e
<1>4. conn' \in Seq(ConnRecords)
  BY <1>1, <1>2, <1>3, IsASeq
<1>5. Len(conn') = Len(conn) /\ Conns' = Conns
  BY <1>1, <1>3, <1>4, LenProperties DEF Conns
<1>6. QED
  BY <1>1, <1>2, <1>3, <1>4, <1>5

LEMMA DoomedSame ==
  ASSUME socket' = socket, Len(conn') = Len(conn),
         socket = 0 \/ (conn'[socket].state = "closed" <=> conn[socket].state = "closed")
  PROVE  Doomed' <=> Doomed
BY DEF Doomed

LEMMA ConnNewConnection ==
  ASSUME ConnInv, onNewConnection
  PROVE  /\ ConnInv' /\ Conns' = Conns /\ Len(conn') = Len(conn)
         /\ \A c \in Conns : conn'[c].by = conn[c].by
         /\ \A c \in Conns : conn'[c].state = IF conn[c].state = "pending" THEN "open" ELSE conn[c].state
<1> DEFINE pending == ConnsWhere("pending")
           last == CHOOSE c \in pending : \A d \in pending : d <= c
<1>1. /\ pending # {} /\ peer' = last
      /\ conn' = [c \in Conns |-> IF c \in pending THEN [conn[c] EXCEPT !.state = "open"] ELSE conn[c]]
      /\ old' = (old \cup pending \cup {peer}) \ {0, last}
      /\ UNCHANGED <<agentUp, faults, socket, connected, retry, requests, asked>>
  BY DEF onNewConnection, ConnsWhere, clientVars, userVars
<1>2. last \in pending /\ \A d \in pending : d <= last
  BY <1>1, LastPending
<1>3. /\ conn' \in Seq(ConnRecords) /\ Len(conn') = Len(conn) /\ Conns' = Conns
      /\ \A c \in Conns : /\ conn'[c].by = conn[c].by
                          /\ conn'[c].state = IF c \in pending THEN "open" ELSE conn[c].state
  BY <1>1, ConnsMarked
<1>4. Conns = 1..Len(conn) /\ Len(conn) \in Nat
  BY ConnsAre
<1>5. \A c \in Conns : c \in pending <=> conn[c].state = "pending"
  BY DEF ConnsWhere
<1>6. last \in Conns /\ pending \subseteq Conns
  BY <1>2 DEF ConnsWhere
<1> HIDE DEF pending, last
<1>7. peer < last /\ peer \in 0..Len(conn)
  BY <1>2, <1>5, <1>6 DEF ConnInv
<1>8. \A c \in old' : c \in Conns /\ c < Len(conn)
  <2> SUFFICES ASSUME NEW c \in old' PROVE c \in Conns /\ c < Len(conn)
    OBVIOUS
  <2>1. c \in old \/ c \in pending \/ (c = peer /\ c # 0)
    BY <1>1
  <2>2. CASE c \in old
    BY <2>2 DEF ConnInv
  <2>3. CASE c \in pending
    <3>1. c <= last /\ c # last /\ c \in Conns
      BY <1>1, <1>2, <1>6, <2>3
    <3>2. QED
      BY <1>4, <1>6, <3>1
  <2>4. CASE c = peer /\ c # 0
    BY <1>4, <1>6, <1>7, <2>4
  <2>5. QED
    BY <2>1, <2>2, <2>3, <2>4
<1>9. \A c \in Conns : conn'[c].state # "pending"
  BY <1>3, <1>5
<1>10. \A c \in Conns : conn'[c].state = "open" => c = last \/ c \in old'
  BY <1>1, <1>3, <1>4 DEF ConnInv
<1>11. Doomed' <=> Doomed
  <2>1. socket # 0 => socket \in Conns
    BY <1>4 DEF ConnInv
  <2>2. ASSUME socket # 0
        PROVE  conn'[socket].state = "closed" <=> conn[socket].state = "closed"
    <3>1. conn'[socket].state = IF socket \in pending THEN "open" ELSE conn[socket].state
      BY <1>3, <2>1, <2>2
    <3>2. socket \in pending <=> conn[socket].state = "pending"
      BY <1>5, <2>1, <2>2
    <3>3. QED
      BY <3>1, <3>2
  <2>3. QED
    BY <1>1, <1>3, <2>2, DoomedSame
<1>12. socket # 0 => socket \in Conns
  BY <1>4 DEF ConnInv
<1>13. ConnInv'
  BY <1>1, <1>3, <1>4, <1>5, <1>6, <1>8, <1>9, <1>10, <1>11, <1>12 DEF ConnInv, ConnRecords
<1>14. QED
  BY <1>3, <1>5, <1>13

LEMMA ConnDeletePeers ==
  ASSUME ConnInv, deletePeers
  PROVE  /\ ConnInv' /\ Conns' = Conns /\ Len(conn') = Len(conn)
         /\ \A c \in Conns : conn'[c].by = conn[c].by
         /\ \A c \in Conns : conn'[c].state = IF c \in old THEN "closed" ELSE conn[c].state
<1>1. /\ conn' = [c \in Conns |-> IF c \in old THEN [conn[c] EXCEPT !.state = "closed"] ELSE conn[c]]
      /\ old' = {}
      /\ UNCHANGED <<agentUp, faults, peer, socket, connected, retry, requests, asked>>
  BY DEF deletePeers, clientVars, userVars
<1>2. /\ conn' \in Seq(ConnRecords) /\ Len(conn') = Len(conn) /\ Conns' = Conns
      /\ \A c \in Conns : /\ conn'[c].by = conn[c].by
                          /\ conn'[c].state = IF c \in old THEN "closed" ELSE conn[c].state
  BY <1>1, ConnsMarked
<1>3. Conns = 1..Len(conn) /\ Len(conn) \in Nat
  BY ConnsAre
<1>4. socket # 0 => socket \in Conns
  BY <1>3 DEF ConnInv
<1>5. Doomed' <=> Doomed
  <2>1. CASE socket # 0 /\ socket \in old
    <3>1. socket < Len(conn) /\ Doomed
      BY <1>3, <2>1 DEF ConnInv, Doomed
    <3>2. Doomed'
      BY <1>1, <1>2, <1>3, <3>1 DEF Doomed
    <3>3. QED
      BY <3>1, <3>2
  <2>2. CASE ~(socket # 0 /\ socket \in old)
    <3>1. socket # 0 => conn'[socket].state = conn[socket].state
      BY <1>2, <1>4, <2>2
    <3>2. QED
      BY <1>1, <1>2, <3>1, DoomedSame
  <2>3. QED
    BY <2>1, <2>2
<1>6. ConnInv'
  BY <1>1, <1>2, <1>3, <1>4, <1>5 DEF ConnInv, ConnRecords
<1>7. QED
  BY <1>2, <1>6

LEMMA ConnAgentDies ==
  ASSUME ConnInv, agentDies
  PROVE  /\ ConnInv' /\ Conns' = Conns /\ Len(conn') = Len(conn)
         /\ \A c \in Conns : conn'[c].by = conn[c].by /\ conn'[c].state = "closed"
<1>1. /\ conn' = [c \in Conns |-> [conn[c] EXCEPT !.state = "closed"]]
      /\ agentUp' = FALSE /\ faults' = faults + 1 /\ peer' = 0 /\ old' = {}
      /\ WithinBound(1)
      /\ UNCHANGED <<socket, connected, retry, requests, asked>>
  BY DEF agentDies, clientVars, userVars
<1>2. conn' = [c \in Conns |-> IF c \in Conns THEN [conn[c] EXCEPT !.state = "closed"] ELSE conn[c]]
  BY <1>1
<1>3. /\ conn' \in Seq(ConnRecords) /\ Len(conn') = Len(conn) /\ Conns' = Conns
      /\ \A c \in Conns : conn'[c].by = conn[c].by /\ conn'[c].state = "closed"
  BY <1>2, ConnsMarked
<1>4. Conns = 1..Len(conn) /\ Len(conn) \in Nat
  BY ConnsAre
<1>5. socket # 0 => socket \in Conns
  BY <1>4 DEF ConnInv
<1>6. faults' \in 0..MaxEvents
  <2>1. Cardinality(asked) \in Nat
    BY FS_CardinalityType DEF ConnInv
  <2>2. QED
    BY <1>1, <2>1, AgentBound DEF WithinBound, ConnInv
<1>7. Len(conn) <= 2 * faults'
  BY <1>1, <1>4, AgentBound DEF ConnInv
<1>8. /\ conn' \in Seq(ConnRecords)
      /\ peer' \in 0..Len(conn') /\ socket' \in 0..Len(conn')
      /\ socket' # 0 => conn'[socket'].by = "console"
      /\ socket' # 0 => conn'[socket'].state = "closed"
      /\ connected' => socket' # 0
      /\ retry' => ~connected'
  BY <1>1, <1>3, <1>4, <1>5 DEF ConnInv
<1>9. Doomed' /\ Len(conn') <= 1 + 2 * faults' /\ Len(conn') <= 2 * faults'
  BY <1>3, <1>4, <1>6, <1>7, <1>8, AgentBound DEF Doomed
<1>10. \A c \in Conns' : conn'[c].state # "pending" /\ conn'[c].state # "open"
  BY <1>3
<1>11. /\ agentUp' \in BOOLEAN /\ connected' \in BOOLEAN /\ retry' \in BOOLEAN
       /\ requests' \in 0..MaxEvents /\ IsFiniteSet(asked') /\ asked' \subseteq Tests
       /\ old' = {}
  BY <1>1 DEF ConnInv
<1>12. ConnInv'
  BY <1>6, <1>8, <1>9, <1>10, <1>11 DEF ConnInv, ConnRecords
<1>13. QED
  BY <1>3, <1>12

(* A connection of the console takes the place of a lost one, and one of    *)
(* another client counts as a fault.                                        *)
LEMMA ConnAppended ==
  ASSUME ConnInv, NEW by \in {"console", "other"},
         conn' = Append(conn, [by |-> by, state |-> "pending"])
  PROVE  /\ conn' \in Seq(ConnRecords) /\ Len(conn') = Len(conn) + 1
         /\ Conns' = Conns \cup {Len(conn) + 1}
         /\ \A c \in Conns : conn'[c] = conn[c]
         /\ conn'[Len(conn) + 1] = [by |-> by, state |-> "pending"]
<1> DEFINE e == [by |-> by, state |-> "pending"]
           n == Len(conn) + 1
<1>1. conn \in Seq(ConnRecords) /\ e \in ConnRecords
  BY DEF ConnInv, ConnRecords
<1>2. conn' = Append(conn, e)
  OBVIOUS
<1> HIDE DEF e
<1>3. /\ conn' \in Seq(ConnRecords) /\ Len(conn') = n /\ conn'[n] = e
      /\ \A c \in 1..Len(conn) : conn'[c] = conn[c]
  BY <1>1, <1>2, AppendProperties
<1>4. Conns' = 1..n /\ Conns = 1..Len(conn) /\ Len(conn) \in Nat
  BY <1>3, ConnsAre, LenProperties DEF Conns
<1>5. QED
  BY <1>3, <1>4 DEF e

LEMMA ConnConnects ==
  ASSUME ConnInv, Doomed, conn' = Append(conn, [by |-> "console", state |-> "pending"]),
         socket' = Len(conn) + 1, connected' = TRUE, retry' = FALSE,
         UNCHANGED <<agentUp, faults, peer, old, requests, asked>>
  PROVE  ConnInv'
<1> DEFINE n == Len(conn) + 1
<1>1. /\ socket' = n /\ connected' = TRUE /\ retry' = FALSE
      /\ UNCHANGED <<agentUp, faults, peer, old, requests, asked>>
  OBVIOUS
<1>2. /\ conn' \in Seq(ConnRecords) /\ Len(conn') = n /\ Conns' = Conns \cup {n}
      /\ \A c \in Conns : conn'[c] = conn[c]
      /\ conn'[n] = [by |-> "console", state |-> "pending"]
  BY ConnAppended
<1>3. Conns = 1..Len(conn) /\ Len(conn) \in Nat
  BY ConnsAre
<1>4. Len(conn) <= 2 * faults
  BY DEF ConnInv
<1> HIDE DEF n
<1>5. n = Len(conn) + 1 /\ n \notin Conns
  BY <1>3 DEF n
<1>6. ~Doomed'
  <2>1. conn'[socket'].state = "pending" /\ socket' # 0 /\ socket' = Len(conn')
    BY <1>1, <1>2, <1>3, <1>5
  <2>2. QED
    BY <2>1 DEF Doomed
<1>7. \A c \in old' : c \in Conns' /\ c < Len(conn')
  BY <1>1, <1>2, <1>3, <1>5 DEF ConnInv
<1>8. \A c \in Conns' : /\ conn'[c].state = "pending" => peer' < c
                        /\ conn'[c].state = "open" => c = peer' \/ c \in old'
  <2>1. ASSUME NEW c \in Conns
        PROVE  /\ conn'[c].state = "pending" => peer' < c
               /\ conn'[c].state = "open" => c = peer' \/ c \in old'
    BY <1>1, <1>2, <2>1 DEF ConnInv
  <2>2. peer' < n /\ conn'[n].state = "pending"
    BY <1>1, <1>2, <1>3, <1>5 DEF ConnInv
  <2>3. QED
    BY <1>2, <2>1, <2>2
<1>9. /\ peer' \in 0..Len(conn') /\ socket' \in 0..Len(conn')
      /\ Len(conn') <= 1 + 2 * faults' /\ conn'[socket'].by = "console" /\ socket' # 0
  BY <1>1, <1>2, <1>3, <1>4, <1>5 DEF ConnInv
<1>10. /\ agentUp' \in BOOLEAN /\ connected' = TRUE /\ retry' = FALSE
       /\ requests' \in 0..MaxEvents /\ IsFiniteSet(asked') /\ asked' \subseteq Tests
       /\ faults' \in 0..MaxEvents
  BY <1>1 DEF ConnInv
<1>11. QED
  BY <1>2, <1>6, <1>7, <1>8, <1>9, <1>10 DEF ConnInv, ConnRecords

LEMMA ConnOtherConnects ==
  ASSUME ConnInv, StreamsInv, otherConnects
  PROVE  ConnInv'
<1> DEFINE n == Len(conn) + 1
<1>1. /\ newConnection("other") /\ WithinBound(1) /\ faults' = faults + 1
      /\ UNCHANGED <<agentUp, peer, old, socket, connected, retry, requests, asked>>
  BY DEF otherConnects, clientVars, userVars
<1>2. /\ conn' \in Seq(ConnRecords) /\ Len(conn') = n /\ Conns' = Conns \cup {n}
      /\ \A c \in Conns : conn'[c] = conn[c]
      /\ conn'[n] = [by |-> "other", state |-> "pending"]
  BY <1>1, NewConnection DEF ConnRecords
<1>3. Conns = 1..Len(conn) /\ Len(conn) \in Nat
  BY ConnsAre
<1>4. faults' \in 0..MaxEvents
  <2>1. Cardinality(asked) \in Nat
    BY FS_CardinalityType DEF ConnInv
  <2>2. QED
    BY <1>1, <2>1, AgentBound DEF WithinBound, ConnInv
<1>5. n = Len(conn) + 1 /\ n \notin Conns /\ n <= 2 * faults'
  BY <1>1, <1>3, AgentBound DEF ConnInv
<1> HIDE DEF n
<1>6. socket # 0 => socket \in Conns
  BY <1>3 DEF ConnInv
<1>7. \A c \in old' : c \in Conns' /\ c < Len(conn')
  BY <1>1, <1>2, <1>3, <1>5 DEF ConnInv
<1>8. \A c \in Conns' : /\ conn'[c].state = "pending" => peer' < c
                        /\ conn'[c].state = "open" => c = peer' \/ c \in old'
  <2>1. ASSUME NEW c \in Conns
        PROVE  /\ conn'[c].state = "pending" => peer' < c
               /\ conn'[c].state = "open" => c = peer' \/ c \in old'
    BY <1>1, <1>2, <2>1 DEF ConnInv
  <2>2. peer' < n /\ conn'[n].state = "pending"
    BY <1>1, <1>2, <1>3, <1>5 DEF ConnInv
  <2>3. QED
    BY <1>2, <2>1, <2>2
<1>9. /\ peer' \in 0..Len(conn') /\ socket' \in 0..Len(conn')
      /\ Len(conn') <= 1 + 2 * faults' /\ Len(conn') <= 2 * faults'
  BY <1>1, <1>2, <1>3, <1>4, <1>5, AgentBound DEF ConnInv
<1>10. /\ socket' # 0 => conn'[socket'] = conn[socket]
       /\ socket' # 0 => conn'[socket'].by = "console"
       /\ ~connected' => socket' = 0 \/ conn'[socket'].state = "closed"
  <2>1. socket' # 0 => conn'[socket'] = conn[socket]
    BY <1>1, <1>2, <1>6
  <2>2. QED
    BY <1>1, <2>1 DEF ConnInv
<1>11. ~connected' => Doomed'
  BY <1>10 DEF Doomed
<1>12. /\ agentUp' \in BOOLEAN /\ connected' \in BOOLEAN /\ retry' \in BOOLEAN
       /\ requests' \in 0..MaxEvents /\ IsFiniteSet(asked') /\ asked' \subseteq Tests
       /\ connected' => socket' # 0
       /\ retry' => ~connected'
  BY <1>1 DEF ConnInv
<1>13. QED
  BY <1>2, <1>4, <1>7, <1>8, <1>9, <1>10, <1>11, <1>12 DEF ConnInv, ConnRecords

LEMMA ConnOtherLeaves ==
  ASSUME ConnInv, NEW c \in Conns, otherLeaves(c)
  PROVE  /\ ConnInv' /\ Conns' = Conns /\ Len(conn') = Len(conn)
         /\ conn[c].by = "other"
         /\ \A d \in Conns : conn'[d].by = conn[d].by
         /\ \A d \in Conns : conn'[d].state = IF d = c THEN "closed" ELSE conn[d].state
<1>1. /\ conn' = [conn EXCEPT ![c].state = "closed"]
      /\ conn[c].by = "other"
      /\ UNCHANGED <<agentUp, faults, peer, old, socket, connected, retry, requests, asked>>
  BY DEF otherLeaves, serverVars, clientVars, userVars
<1>2. conn \in Seq(ConnRecords)
  BY DEF ConnInv, ConnRecords
<1>3. Conns = 1..Len(conn) /\ Len(conn) \in Nat
  BY ConnsAre
<1>4. conn' = [d \in Conns |-> IF d \in {c} THEN [conn[d] EXCEPT !.state = "closed"] ELSE conn[d]]
  BY <1>1, <1>2 DEF Conns
<1>5. /\ conn' \in Seq(ConnRecords) /\ Len(conn') = Len(conn) /\ Conns' = Conns
      /\ \A d \in Conns : /\ conn'[d].by = conn[d].by
                          /\ conn'[d].state = IF d \in {c} THEN "closed" ELSE conn[d].state
  BY <1>4, ConnsMarked
<1>6. socket # c /\ (socket # 0 => socket \in Conns)
  BY <1>1, <1>3 DEF ConnInv
<1>7. Doomed' <=> Doomed
  BY <1>1, <1>5, <1>6 DEF Doomed
<1>8. ConnInv'
  BY <1>1, <1>3, <1>5, <1>6, <1>7 DEF ConnInv, ConnRecords
<1>9. QED
  BY <1>1, <1>5, <1>8

LEMMA ConnUnchanged ==
  ASSUME ConnInv, UNCHANGED <<agentUp, faults, conn, peer, old, socket, connected, retry>>,
         requests' \in 0..MaxEvents, IsFiniteSet(asked'), asked' \subseteq Tests
  PROVE  ConnInv'
BY DEF ConnInv, Doomed, Conns
-----------------------------------------------------------------------------
(* Reports about OpenVPN processes                                         *)

RepliesOf(p, said)  == [i \in DOMAIN said |-> Status(p, said[i])]
ResultsOf(t, oks)   == [i \in DOMAIN oks |-> Result(t, oks[i])]

LEMMA ShortSeqs ==
  ASSUME NEW S
  PROVE  /\ <<>> \in Seq(S) /\ Len(<<>>) = 0 /\ DOMAIN <<>> = 1..0
         /\ \A x \in S : <<x>> \in Seq(S) /\ Len(<<x>>) = 1 /\ DOMAIN <<x>> = 1..1 /\ <<x>>[1] = x
         /\ \A x, y \in S : /\ <<x, y>> \in Seq(S) /\ Len(<<x, y>>) = 2 /\ DOMAIN <<x, y>> = 1..2
                            /\ <<x, y>>[1] = x /\ <<x, y>>[2] = y
OBVIOUS

LEMMA RepliesAre ==
  ASSUME NEW p \in Profiles, NEW said \in Said
  PROVE  /\ RepliesOf(p, said) \in Seq(Replies)
         /\ \A i \in 1..Len(RepliesOf(p, said)) : RepliesOf(p, said)[i].type # "result"
         /\ \A q : LastIsRunning(RepliesOf(p, said), q) => q = p /\ said = <<"running">>
         /\ \A q : Silent(RepliesOf(p, said), q) => q # p \/ said = <<>>
<1> DEFINE ms == RepliesOf(p, said)
<1>1. /\ said \in Seq(Statuses) /\ DOMAIN said = 1..Len(said) /\ Len(said) \in Nat
      /\ \A i \in DOMAIN said : said[i] = "running" => said = <<"running">>
      /\ said # <<>> => 1 \in DOMAIN said
  <2>1. CASE said = <<>>
    BY <2>1, ShortSeqs
  <2>2. ASSUME NEW x \in Statuses, said = <<x>> 
        PROVE  /\ said \in Seq(Statuses) /\ DOMAIN said = 1..Len(said) /\ Len(said) \in Nat
               /\ \A i \in DOMAIN said : said[i] = "running" => said = <<"running">>
               /\ 1 \in DOMAIN said
    BY <2>2, ShortSeqs
  <2>3. CASE said = <<"error", "crashed">>
    BY <2>3, ShortSeqs DEF Statuses
  <2>4. \/ said = <<>> \/ said = <<"error", "crashed">>
        \/ \E x \in Statuses : said = <<x>>
    BY DEF Said, Statuses
  <2>5. QED
    BY <2>1, <2>2, <2>3, <2>4
<1>2. /\ DOMAIN ms = 1..Len(said)
      /\ \A i \in 1..Len(said) : ms[i] = Status(p, said[i])
  BY <1>1 DEF RepliesOf
<1>3. \A i \in 1..Len(said) : said[i] \in Statuses
  BY <1>1, ElementOfSeq
<1>4. \A i \in 1..Len(said) : /\ Status(p, said[i]) \in Replies
                              /\ Status(p, said[i]).type = "vpn.status"
                              /\ Status(p, said[i]).profile = p
                              /\ Status(p, said[i]).status = said[i]
  BY <1>3 DEF Status, Replies
<1>5. ms \in Seq(Replies)
  <2>1. ms = [i \in 1..Len(said) |-> Status(p, said[i])]
    BY <1>1 DEF RepliesOf
  <2>2. QED
    BY <1>1, <1>4, <2>1, IsASeq
<1> HIDE DEF ms
<1>6. Len(ms) = Len(said)
  BY <1>1, <1>2, <1>5, LenProperties
<1>7. \A i \in 1..Len(ms) : ms[i].type # "result"
  BY <1>2, <1>4, <1>6
<1>8. ASSUME NEW q, LastIsRunning(ms, q) PROVE q = p /\ said = <<"running">>
  <2>1. PICK i \in 1..Len(said) : ms[i] = Status(q, "running")
    BY <1>2, <1>8 DEF LastIsRunning
  <2>2. ms[i].profile = p /\ ms[i].status = said[i]
    BY <1>2, <1>4
  <2>3. p = q /\ said[i] = "running"
    BY <2>1, <2>2 DEF Status
  <2>4. QED
    BY <1>1, <2>3
<1>9. ASSUME NEW q, Silent(ms, q), said # <<>> PROVE q # p
  <2>1. 1 \in 1..Len(said)
    BY <1>1, <1>9
  <2>2. ms[1].type = "vpn.status" /\ ms[1].profile = p
    BY <1>2, <1>4, <2>1
  <2>3. QED
    BY <1>2, <1>9, <2>1, <2>2 DEF Silent, IsStatus
<1>10. QED
  BY <1>5, <1>7, <1>8, <1>9 DEF ms

LEMMA ResultsAre ==
  ASSUME NEW t \in Tests, NEW oks \in Oks
  PROVE  /\ ResultsOf(t, oks) \in Seq(Replies)
         /\ Len(ResultsOf(t, oks)) = IF oks = <<>> THEN 0 ELSE 1
         /\ oks # <<>> => ResultsOf(t, oks)[1].type = "result" /\ ResultsOf(t, oks)[1].test = t
         /\ \A q : ~LastIsRunning(ResultsOf(t, oks), q)
<1> DEFINE ms == ResultsOf(t, oks)
<1>1. /\ oks \in Seq(BOOLEAN) /\ DOMAIN oks = 1..Len(oks)
      /\ Len(oks) = IF oks = <<>> THEN 0 ELSE 1
  BY ShortSeqs DEF Oks
<1>2. /\ DOMAIN ms = 1..Len(oks)
      /\ \A i \in 1..Len(oks) : ms[i] = Result(t, oks[i])
  BY <1>1 DEF ResultsOf
<1>3. \A i \in 1..Len(oks) : oks[i] \in BOOLEAN
  BY <1>1, ElementOfSeq
<1>4. \A i \in 1..Len(oks) : /\ Result(t, oks[i]) \in Replies
                             /\ Result(t, oks[i]).type = "result"
                             /\ Result(t, oks[i]).test = t
  BY <1>3 DEF Result, Replies
<1>5. ms \in Seq(Replies)
  <2>1. ms = [i \in 1..Len(oks) |-> Result(t, oks[i])]
    BY <1>1 DEF ResultsOf
  <2>2. Len(oks) \in Nat
    BY <1>1
  <2>3. QED
    BY <1>4, <2>1, <2>2, IsASeq
<1> HIDE DEF ms
<1>6. Len(ms) = Len(oks)
  BY <1>1, <1>2, <1>5, LenProperties
<1>7. ASSUME NEW q PROVE ~LastIsRunning(ms, q)
  <2>1. SUFFICES ASSUME NEW i \in 1..Len(oks), ms[i] = Status(q, "running") PROVE FALSE
    BY <1>2 DEF LastIsRunning
  <2>2. ms[i].type = "result" /\ Status(q, "running").type = "vpn.status"
    BY <1>2, <1>4 DEF Status
  <2>3. QED
    BY <2>1, <2>2
<1>8. oks # <<>> => ms[1].type = "result" /\ ms[1].test = t
  <2>1. oks # <<>> => 1 \in 1..Len(oks)
    BY <1>1
  <2>2. QED
    BY <1>2, <1>4, <2>1
<1>9. QED
  BY <1>1, <1>5, <1>6, <1>7, <1>8 DEF ms

(* What is appended has the last word, if it says anything of p. *)
LEMMA BelievedConcat ==
  ASSUME NEW w \in Seq(Replies), NEW ms \in Seq(Replies), NEW p, NEW status,
         Believed(w \o ms, p, status)
  PROVE  LastIsRunning(ms, p) \/ (Silent(ms, p) /\ Believed(w, p, status))
<1> DEFINE v == w \o ms
           n == Len(w)
           m == Len(ms)
<1>1. /\ v \in Seq(Replies) /\ Len(v) = n + m /\ n \in Nat /\ m \in Nat
      /\ DOMAIN w = 1..n /\ DOMAIN ms = 1..m
      /\ \A i \in 1..(n + m) : v[i] = IF i <= n THEN w[i] ELSE ms[i - n]
  BY ConcatProperties, LenProperties
<1>2. DOMAIN v = 1..(n + m)
  BY <1>1, LenProperties
<1> HIDE DEF v, n, m
<1>3. /\ \A i \in 1..n : i \in 1..(n + m) /\ v[i] = w[i]
      /\ \A i \in 1..m : n + i \in 1..(n + m) /\ v[n + i] = ms[i]
  <2>1. \A i \in 1..n : i \in 1..(n + m) /\ v[i] = w[i]
    BY <1>1
  <2>2. ASSUME NEW i \in 1..m PROVE n + i \in 1..(n + m) /\ v[n + i] = ms[i]
    <3>1. n + i \in 1..(n + m) /\ ~(n + i <= n) /\ (n + i) - n = i
      BY <1>1
    <3>2. QED
      BY <1>1, <3>1
  <2>3. QED
    BY <2>1, <2>2
<1>4. Believed(v, p, status)
  BY DEF v
<1>5. CASE LastIsRunning(v, p)
  <2>1. PICK i \in 1..(n + m) : /\ v[i] = Status(p, "running")
                                /\ \A j \in 1..(n + m) : IsStatus(v[j], p) => j <= i
    BY <1>2, <1>5 DEF LastIsRunning
  <2>2. CASE i <= n
    <3>1. \A j \in 1..m : ~IsStatus(ms[j], p)
      <4> SUFFICES ASSUME NEW j \in 1..m, IsStatus(ms[j], p) PROVE FALSE
        OBVIOUS
      <4>1. n + j \in 1..(n + m) /\ IsStatus(v[n + j], p)
        BY <1>3
      <4>2. n + j <= i
        BY <2>1, <4>1
      <4>3. QED
        BY <1>1, <2>2, <4>2
    <3>2. i \in 1..n /\ w[i] = Status(p, "running")
      BY <1>1, <1>3, <2>1, <2>2
    <3>3. \A j \in 1..n : IsStatus(w[j], p) => j <= i
      BY <1>3, <2>1
    <3>4. LastIsRunning(w, p)
      BY <1>1, <3>2, <3>3 DEF LastIsRunning
    <3>5. QED
      BY <1>1, <3>1, <3>4 DEF Silent, Believed
  <2>3. CASE ~(i <= n)
    <3> DEFINE k == i - n
    <3>1. k \in 1..m /\ n + k = i
      BY <1>1, <2>3
    <3>2. ms[k] = Status(p, "running")
      BY <1>3, <2>1, <3>1
    <3>3. ASSUME NEW j \in 1..m, IsStatus(ms[j], p) PROVE j <= k
      <4>1. n + j \in 1..(n + m) /\ IsStatus(v[n + j], p)
        BY <1>3, <3>3
      <4>2. n + j <= n + k
        BY <2>1, <3>1, <4>1
      <4>3. QED
        BY <1>1, <3>1, <4>2
    <3>4. QED
      BY <1>1, <3>1, <3>2, <3>3 DEF LastIsRunning
  <2>4. QED
    BY <2>2, <2>3
<1>6. CASE Silent(v, p) /\ status = "running"
  <2>1. Silent(w, p) /\ Silent(ms, p)
    BY <1>1, <1>2, <1>3, <1>6 DEF Silent
  <2>2. QED
    BY <1>6, <2>1 DEF Believed
<1>7. QED
  BY <1>4, <1>5, <1>6 DEF Believed

(* Reading a report and showing it changes nothing about what will be shown.*)
LEMMA BelievedTail ==
  ASSUME NEW w \in Seq(Replies), w # <<>>, NEW p, NEW status,
         Believed(Tail(w), p, IF IsStatus(Head(w), p) THEN Head(w).status ELSE status)
  PROVE  Believed(w, p, status)
<1> DEFINE v == Tail(w)
           n == Len(w)
<1>1. /\ v \in Seq(Replies) /\ Len(v) = n - 1
      /\ \A i \in 1..Len(v) : v[i] = w[i + 1]
      /\ Head(w) = w[1] /\ Head(w) \in Replies
      /\ n \in Nat \ {0} /\ DOMAIN w = 1..n
  BY HeadTailProperties, LenProperties, EmptySeq
<1>2. DOMAIN v = 1..(n - 1)
  BY <1>1, LenProperties
<1> HIDE DEF v, n
<1>3. \A j \in 1..n : j = 1 \/ (j - 1 \in 1..(n - 1) /\ v[j - 1] = w[j])
  <2> SUFFICES ASSUME NEW j \in 1..n, j # 1 PROVE j - 1 \in 1..(n - 1) /\ v[j - 1] = w[j]
    OBVIOUS
  <2>1. j - 1 \in 1..(n - 1) /\ (j - 1) + 1 = j
    BY <1>1
  <2>2. QED
    BY <1>1, <2>1
<1>4. CASE LastIsRunning(v, p)
  <2>1. PICK i \in 1..(n - 1) : /\ v[i] = Status(p, "running")
                                /\ \A j \in 1..(n - 1) : IsStatus(v[j], p) => j <= i
    BY <1>2, <1>4 DEF LastIsRunning
  <2>2. i + 1 \in 1..n /\ w[i + 1] = Status(p, "running")
    BY <1>1, <2>1
  <2>3. ASSUME NEW j \in 1..n, IsStatus(w[j], p) PROVE j <= i + 1
    <3>1. CASE j = 1
      BY <2>2, <3>1
    <3>2. CASE j # 1
      <4>1. j - 1 \in 1..(n - 1) /\ IsStatus(v[j - 1], p)
        BY <1>3, <2>3, <3>2
      <4>2. j - 1 <= i
        BY <2>1, <4>1
      <4>3. QED
        BY <4>2
    <3>3. QED
      BY <3>1, <3>2
  <2>4. QED
    BY <1>1, <2>2, <2>3 DEF LastIsRunning, Believed
<1>5. CASE Silent(v, p) /\ IsStatus(Head(w), p) /\ Head(w).status = "running"
  <2>1. w[1] = Status(p, "running")
    BY <1>1, <1>5 DEF Replies, IsStatus, Status
  <2>2. \A j \in 1..n : IsStatus(w[j], p) => j <= 1
    BY <1>2, <1>3, <1>5 DEF Silent
  <2>3. 1 \in 1..n
    BY <1>1
  <2>4. QED
    BY <1>1, <2>1, <2>2, <2>3 DEF LastIsRunning, Believed
<1>6. CASE Silent(v, p) /\ ~IsStatus(Head(w), p) /\ status = "running"
  <2>1. \A j \in 1..n : ~IsStatus(w[j], p)
    BY <1>1, <1>2, <1>3, <1>6 DEF Silent
  <2>2. QED
    BY <1>1, <1>6, <2>1 DEF Silent, Believed
<1>7. QED
  BY <1>4, <1>5, <1>6 DEF Believed, v
(* Nothing is said, and no connection becomes what the console waits for. *)
LEMMA ReportsQuiet ==
  ASSUME ReportsInv, ConnInv, shown' = shown, Len(conn') = Len(conn), Conns' = Conns,
         \A c \in Conns :
           /\ conn'[c].by = conn[c].by
           /\ conn'[c].state = "pending" => conn[c].state = "pending"
           /\ conn'[c].state = "open" => conn[c].state \in {"pending", "open"}
           /\ conn'[c].state # "closed" => Out(c)' = Out(c),
         \A c \in Conns : conn'[c].state = "open" => \A p \in Profiles : HasOpenVpn(p) => HasOpenVpn(p)'
  PROVE  ReportsInv'
<1>1. Conns = 1..Len(conn) /\ Len(conn) \in Nat
  BY ConnsAre
<1>2. \A c \in Conns : conn'[c].state = "pending" => Out(c)' = <<>>
  BY DEF ReportsInv
<1>3. ASSUME Len(conn') = 0 \/ (Len(conn') = 1 /\ conn'[1].state = "pending")
      PROVE  \A p \in Profiles : shown'[p] # "running"
  <2>1. Len(conn) = 0 \/ (Len(conn) = 1 /\ conn[1].state = "pending")
    BY <1>1, <1>3
  <2>2. QED
    BY <2>1 DEF ReportsInv
<1>4. ASSUME Len(conn') = 1, conn'[1] = [by |-> "console", state |-> "open"],
             NEW p \in Profiles, Believed(Out(1)', p, shown'[p])
      PROVE  HasOpenVpn(p)'
  <2>1. 1 \in Conns /\ conn'[1].state = "open" /\ conn'[1].by = "console"
    BY <1>1, <1>4
  <2>2. Out(1)' = Out(1) /\ conn[1].by = "console" /\ conn[1].state \in {"pending", "open"}
    BY <2>1
  <2>3. Believed(Out(1), p, shown[p])
    BY <1>4, <2>2
  <2>4. CASE conn[1].state = "pending"
    <3>1. Out(1) = <<>> /\ shown[p] # "running"
      BY <1>4, <2>1, <2>4 DEF ReportsInv
    <3>2. QED
      BY <2>3, <3>1 DEF Believed, LastIsRunning
  <2>5. CASE conn[1].state = "open"
    <3>1. conn[1] = [by |-> "console", state |-> "open"]
      BY <2>1, <2>2, <2>5, ConnRecordsAre DEF ConnRecords
    <3>2. HasOpenVpn(p)
      BY <1>4, <2>3, <3>1 DEF ReportsInv
    <3>3. QED
      BY <2>1, <3>2
  <2>6. QED
    BY <2>2, <2>4, <2>5
<1>5. shown' \in [Profiles -> Statuses]
  BY DEF ReportsInv
<1>6. \A c \in Conns' : conn'[c].state = "pending" => Out(c)' = <<>>
  BY <1>2
<1>7. QED
  BY <1>3, <1>4, <1>5, <1>6 DEF ReportsInv

(* A connection is added that nothing was said on yet. *)
LEMMA ReportsConnected ==
  ASSUME ReportsInv, ConnInv, shown' = shown, Len(conn') = Len(conn) + 1,
         Conns' = Conns \cup {Len(conn) + 1},
         \A c \in Conns : conn'[c] = conn[c] /\ (Out(c)' = Out(c) \/ Out(c)' = <<>>),
         conn'[Len(conn) + 1].state = "pending", Waiting(toClient'[Len(conn) + 1]) = <<>>
  PROVE  ReportsInv'
<1> DEFINE n == Len(conn) + 1
<1>1. Conns = 1..Len(conn) /\ Len(conn) \in Nat
  BY ConnsAre
<1>2. ASSUME NEW c \in Conns', conn'[c].state = "pending" PROVE Out(c)' = <<>>
  <2>1. CASE c \in Conns
    BY <1>2, <2>1 DEF ReportsInv
  <2>2. CASE c = n
    BY <2>2 DEF Out
  <2>3. QED
    BY <2>1, <2>2
<1>3. ASSUME Len(conn') = 0 \/ Len(conn') = 1
      PROVE  \A p \in Profiles : shown'[p] # "running"
  <2>1. Len(conn) = 0
    BY <1>1, <1>3
  <2>2. QED
    BY <2>1 DEF ReportsInv
<1>4. Len(conn') = 1 => conn'[1].state = "pending"
  <2>1. Len(conn') = 1 => n = 1
    BY <1>1
  <2>2. QED
    BY <2>1
<1>5. shown' \in [Profiles -> Statuses]
  BY DEF ReportsInv
<1>6. QED
  BY <1>2, <1>3, <1>4, <1>5 DEF ReportsInv

(* The agent sends, to its peer what it has to say of OpenVPN. *)
LEMMA ReportsSent ==
  ASSUME ReportsInv, ConnInv, StreamsInv, NEW c \in 0..Len(conn), NEW ms \in Seq(Replies),
         sendTo(c, ms), conn' = conn, shown' = shown,
         \A p \in Profiles : LastIsRunning(ms, p) => HasOpenVpn(p)',
         \A p \in Profiles : c # peer \/ Silent(ms, p) => (HasOpenVpn(p) => HasOpenVpn(p)')
  PROVE  ReportsInv'
<1>1. Conns = 1..Len(conn) /\ Len(conn) \in Nat /\ Conns' = Conns
  BY ConnsAre DEF Conns
<1>2. \A d \in Conns : Out(d)' = IF d = c /\ IsOpen(c) THEN Out(d) \o ms ELSE Out(d)
  BY SendTo
<1>3. ASSUME NEW d \in Conns, conn[d].state = "pending" PROVE Out(d)' = <<>>
  <2>1. ~(d = c /\ IsOpen(c))
    BY <1>3 DEF IsOpen
  <2>2. QED
    BY <1>2, <1>3, <2>1 DEF ReportsInv
<1>4. ASSUME Len(conn) = 1, conn[1] = [by |-> "console", state |-> "open"],
             NEW p \in Profiles, Believed(Out(1)', p, shown[p])
      PROVE  HasOpenVpn(p)'
  <2>1. 1 \in Conns /\ conn[1].state = "open"
    BY <1>1, <1>4
  <2>2. 1 \notin old
    BY <1>4 DEF ConnInv
  <2>3. peer = 1
    BY <2>1, <2>2 DEF ConnInv
  <2>4. CASE c = 1
    <3>1. Out(1)' = Out(1) \o ms
      BY <1>2, <2>1, <2>4 DEF IsOpen
    <3>2. Out(1) \in Seq(Replies)
      BY <2>1, InOut
    <3>3. LastIsRunning(ms, p) \/ (Silent(ms, p) /\ Believed(Out(1), p, shown[p]))
      BY <1>4, <3>1, <3>2, BelievedConcat
    <3>4. Believed(Out(1), p, shown[p]) => HasOpenVpn(p)
      BY <1>4 DEF ReportsInv
    <3>5. QED
      BY <3>3, <3>4
  <2>5. CASE c # 1
    <3>1. Out(1)' = Out(1)
      BY <1>2, <2>1, <2>5
    <3>2. HasOpenVpn(p)
      BY <1>4, <3>1 DEF ReportsInv
    <3>3. QED
      BY <2>3, <2>5, <3>2
  <2>6. QED
    BY <2>4, <2>5
<1>5. shown' \in [Profiles -> Statuses]
  BY DEF ReportsInv
<1>6. Len(conn) = 0 \/ (Len(conn) = 1 /\ conn[1].state = "pending")
        => \A p \in Profiles : shown[p] # "running"
  BY DEF ReportsInv
<1>7. QED
  BY <1>1, <1>3, <1>4, <1>5, <1>6 DEF ReportsInv

(* The console reads a message and shows what it says. *)
LEMMA ReportsRead ==
  ASSUME ReportsInv, ConnInv, StreamsInv, NEW s \in Conns, Out(s) # <<>>,
         Out(s)' = Tail(Out(s)),
         \A c \in Conns : c # s => Out(c)' = Out(c),
         conn' = conn, launch' = launch,
         LET m == Head(Out(s)) IN
         \/ m.type = "vpn.status" /\ shown' = [shown EXCEPT ![m.profile] = m.status]
         \/ m.type # "vpn.status" /\ shown' = shown
  PROVE  ReportsInv'
<1> DEFINE w == Out(s)
           m == Head(w)
<1>1. Conns = 1..Len(conn) /\ Len(conn) \in Nat /\ Conns' = Conns
  BY ConnsAre DEF Conns
<1>2. w \in Seq(Replies) /\ w # <<>> /\ m \in Replies
  BY InOut, HeadTailProperties
<1> HIDE DEF w, m
<1>3. m.type = "vpn.status" => m.profile \in Profiles /\ m.status \in Statuses
  BY <1>2 DEF Replies
<1>4. /\ shown' \in [Profiles -> Statuses]
      /\ \A p \in Profiles : shown'[p] = IF IsStatus(m, p) THEN m.status ELSE shown[p]
  <2>1. CASE m.type = "vpn.status" /\ shown' = [shown EXCEPT ![m.profile] = m.status]
    BY <1>3, <2>1 DEF ReportsInv, IsStatus
  <2>2. CASE m.type # "vpn.status" /\ shown' = shown
    BY <2>2 DEF ReportsInv, IsStatus
  <2>3. QED
    BY <2>1, <2>2 DEF m, w
<1>5. conn[s].state # "pending"
  BY DEF ReportsInv
<1>6. \A c \in Conns : conn[c].state = "pending" => Out(c)' = <<>>
  BY <1>5 DEF ReportsInv
<1>7. ~(Len(conn) = 0 \/ (Len(conn) = 1 /\ conn[1].state = "pending"))
  BY <1>1, <1>5
<1>8. ASSUME Len(conn) = 1, conn[1] = [by |-> "console", state |-> "open"],
             NEW p \in Profiles, Believed(Out(1)', p, shown'[p])
      PROVE  HasOpenVpn(p)'
  <2>1. s = 1
    BY <1>1, <1>8
  <2>2. Believed(Tail(w), p, IF IsStatus(m, p) THEN m.status ELSE shown[p])
    BY <1>4, <1>8, <2>1 DEF w
  <2>3. Believed(w, p, shown[p])
    BY <1>2, <2>2, BelievedTail DEF m
  <2>4. HasOpenVpn(p)
    BY <1>8, <2>1, <2>3 DEF ReportsInv, w
  <2>5. QED
    BY <2>4, SameLaunches
<1>9. QED
  BY <1>1, <1>4, <1>6, <1>7, <1>8 DEF ReportsInv

-----------------------------------------------------------------------------
(* Tests                                                                   *)

TestRecords(askers) ==
  [asker : askers, attempt : 0..Urls, flying : SUBSET (1..Urls), sent : BOOLEAN]

LEMMA TestsAre ==
  ASSUME TestBase, NEW t \in Tests
  PROVE  /\ test[t] \in TestRecords(0..Len(conn))
         /\ test[t].asker \in 0..Len(conn)
         /\ test[t].sent \in BOOLEAN
         /\ test[t].flying \subseteq 1..Urls
         /\ test[t].attempt \in 0..Urls
BY DEF TestBase, TestTypeOK, TestRecords

LEMMA TestBaseSame ==
  ASSUME TestBase, ConnInv, Len(conn) <= Len(conn'), Len(conn') \in Nat,
         test' = test, answers' = answers, asked \subseteq asked'
  PROVE  TestBase'
<1>1. 0..Len(conn) \subseteq 0..Len(conn')
  BY ConnsAre
<1>2. TestTypeOK(0..Len(conn))'
  BY <1>1 DEF TestBase, TestTypeOK
<1>3. QED
  BY <1>2 DEF TestBase

(* Nothing happens to the tests, whatever else happens to the connections. *)
LEMMA TestsQuiet ==
  ASSUME TestInv, ConnInv, ConnInv', Len(conn) <= Len(conn'),
         test' = test, answers' = answers, asked \subseteq asked',
         \A c \in Conns' : In(c)' = <<>> \/ (c \in Conns /\ Keeps(In(c)', In(c), "proxy.test")),
         \A c \in Conns' : Out(c)' = <<>> \/ (c \in Conns /\ Keeps(Out(c)', Out(c), "result"))
  PROVE  TestInv'
<1>1. Len(conn') \in Nat
  BY LenProperties DEF ConnInv
<1>2. TestBase'
  BY <1>1, TestBaseSame DEF TestInv
<1>3. RequestInv'
  BY RequestsKept DEF TestInv
<1>4. ResultInv'
  BY ResultsKept DEF TestInv
<1>5. QED
  BY <1>2, <1>3, <1>4 DEF TestInv

LEMMA AttemptIs ==
  ASSUME NEW A, NEW r \in TestRecords(A)
  PROVE  /\ doAttempt(r) \in TestRecords(A)
         /\ doAttempt(r).asker = r.asker
         /\ r.sent => doAttempt(r).sent
<1> DEFINE a == [r EXCEPT !.flying = {}]
           b == [r EXCEPT !.flying = {}, !.sent = TRUE]
           d == [r EXCEPT !.attempt = @ + 1, !.flying = @ \cup {r.attempt + 1}]
<1>1. /\ r.attempt \in 0..Urls /\ r.flying \subseteq 1..Urls /\ r.sent \in BOOLEAN
      /\ r.asker \in A
  BY DEF TestRecords
<1>2. a \in TestRecords(A) /\ a.asker = r.asker /\ a.sent = r.sent
  BY DEF TestRecords
<1>3. b \in TestRecords(A) /\ b.asker = r.asker /\ b.sent
  BY DEF TestRecords
<1>4. ~(r.attempt >= Urls) => d \in TestRecords(A) /\ d.asker = r.asker
  <2>1. SUFFICES ASSUME ~(r.attempt >= Urls) PROVE d \in TestRecords(A) /\ d.asker = r.asker
    OBVIOUS
  <2>2. r.attempt + 1 \in 1..Urls /\ r.attempt + 1 \in 0..Urls
    BY <1>1, <2>1, UrlsAssumption
  <2>3. r.flying \cup {r.attempt + 1} \in SUBSET (1..Urls)
    BY <1>1, <2>2
  <2>4. QED
    BY <2>2, <2>3 DEF TestRecords
<1>5. doAttempt(r) = IF r.sent THEN a ELSE IF r.attempt >= Urls THEN b ELSE d
  BY DEF doAttempt
<1> HIDE DEF a, b, d
<1>6. QED
  BY <1>2, <1>3, <1>4, <1>5

(* What the end of a fetch may do to the tests: only its own changes, it    *)
(* keeps its asker, and it gives a result when it is the first one.         *)
TestStep(t, oks) ==
  /\ \A u \in Tests : u # t => test'[u] = test[u]
  /\ TestTypeOK(0..Len(conn))'
  /\ test[t].sent => test'[t].sent /\ test'[t].asker = test[t].asker /\ oks = <<>>
  /\ oks # <<>> => test'[t].sent

LEMMA TestStepIs ==
  ASSUME TestBase, NEW t \in Tests, NEW r \in TestRecords(0..Len(conn)),
         test' = [test EXCEPT ![t] = r], conn' = conn, NEW oks,
         test[t].sent => r.sent /\ r.asker = test[t].asker /\ oks = <<>>,
         oks # <<>> => r.sent
  PROVE  TestStep(t, oks) /\ test'[t] = r
<1>1. test \in [Tests -> TestRecords(0..Len(conn))]
  BY DEF TestBase, TestTypeOK, TestRecords
<1>2. test'[t] = r /\ \A u \in Tests : u # t => test'[u] = test[u]
  BY <1>1
<1>3. test' \in [Tests -> TestRecords(0..Len(conn))]
  BY <1>1
<1>4. QED
  BY <1>2, <1>3 DEF TestStep, TestTypeOK, TestRecords

LEMMA FetchEnds ==
  ASSUME TestBase, NEW t \in Tests, NEW k, NEW oks,
         finished(t, k, oks) \/ timeout(t, k, oks), conn' = conn
  PROVE  /\ test[t] # NoTest
         /\ TestStep(t, oks)
         /\ test'[t].asker = test[t].asker
<1> DEFINE left == [test[t] EXCEPT !.flying = @ \ {k}]
           A == 0..Len(conn)
           sent == [left EXCEPT !.sent = TRUE]
<1>1. test[t] \in TestRecords(A) /\ k \in test[t].flying
  BY TestsAre DEF finished, timeout
<1>2. test[t] # NoTest
  BY <1>1 DEF NoTest
<1>3. left \in TestRecords(A) /\ left.asker = test[t].asker /\ left.sent = test[t].sent
  BY <1>1 DEF TestRecords
<1>4. sent \in TestRecords(A) /\ sent.asker = test[t].asker /\ sent.sent
  BY <1>1 DEF TestRecords
<1>5. /\ doAttempt(left) \in TestRecords(A) /\ doAttempt(left).asker = left.asker
      /\ left.sent => doAttempt(left).sent
  BY <1>3, AttemptIs
<1>6. /\ doAttempt(doAttempt(left)) \in TestRecords(A)
      /\ doAttempt(doAttempt(left)).asker = left.asker
  BY <1>5, AttemptIs
<1>7. \/ Gives(t, left, oks)
      \/ ~test[t].sent /\ Gives(t, doAttempt(left), oks)
      \/ ~test[t].sent /\ Gives(t, doAttempt(doAttempt(left)), oks)
      \/ ~test[t].sent /\ test' = [test EXCEPT ![t] = sent] /\ oks = <<TRUE>>
  <2>1. CASE finished(t, k, oks)
    BY <2>1 DEF finished, firstAnswer
  <2>2. CASE timeout(t, k, oks)
    BY <1>3, <2>2 DEF timeout
  <2>3. QED
    BY <2>1, <2>2
<1> HIDE DEF left, sent, A
<1>8. PICK r \in TestRecords(A) :
        /\ test' = [test EXCEPT ![t] = r]
        /\ r.asker = test[t].asker
        /\ test[t].sent => r.sent /\ oks = <<>>
        /\ oks # <<>> => r.sent
  <2>1. CASE Gives(t, left, oks)
    BY <1>3, <2>1 DEF Gives
  <2>2. CASE ~test[t].sent /\ Gives(t, doAttempt(left), oks)
    BY <1>3, <1>5, <2>2 DEF Gives
  <2>3. CASE ~test[t].sent /\ Gives(t, doAttempt(doAttempt(left)), oks)
    BY <1>3, <1>6, <2>3 DEF Gives
  <2>4. CASE ~test[t].sent /\ test' = [test EXCEPT ![t] = sent] /\ oks = <<TRUE>>
    BY <1>4, <2>4
  <2>5. QED
    BY <1>7, <2>1, <2>2, <2>3, <2>4
<1>9. TestStep(t, oks) /\ test'[t] = r
  BY <1>8, TestStepIs DEF A
<1>10. QED
  BY <1>2, <1>8, <1>9

LEMMA TestStarts ==
  ASSUME TestBase, ConnInv, NEW t \in Tests, NEW oks, start(t, peer, oks), conn' = conn,
         test[t] = NoTest
  PROVE  TestStep(t, oks) /\ test'[t].asker = peer
<1> DEFINE A == 0..Len(conn)
           new == [NoTest EXCEPT !.asker = peer]
           refused == [NoTest EXCEPT !.asker = peer, !.sent = TRUE]
<1>1. peer \in A /\ ~test[t].sent
  BY DEF ConnInv, NoTest
<1>2. NoTest \in TestRecords(A)
  <2>1. 0 \in 0..Urls /\ {} \in SUBSET (1..Urls) /\ 0 \in A
    BY ConnsAre, UrlsAssumption
  <2>2. QED
    BY <2>1 DEF TestRecords, NoTest
<1>3. /\ new \in TestRecords(A) /\ new.asker = peer
      /\ refused \in TestRecords(A) /\ refused.asker = peer
  BY <1>1, <1>2 DEF TestRecords
<1>4. doAttempt(new) \in TestRecords(A) /\ doAttempt(new).asker = peer
  BY <1>3, AttemptIs
<1>5. Gives(t, refused, oks) \/ Gives(t, doAttempt(new), oks)
  BY DEF start
<1> HIDE DEF A, new, refused
<1>6. PICK r \in TestRecords(A) :
        /\ test' = [test EXCEPT ![t] = r]
        /\ r.asker = peer
        /\ oks # <<>> => r.sent
  BY <1>3, <1>4, <1>5 DEF Gives
<1>7. TestStep(t, oks) /\ test'[t] = r
  BY <1>1, <1>6, TestStepIs DEF A
<1>8. QED
  BY <1>6, <1>7
LEMMA AppendOne ==
  ASSUME NEW M, NEW w \in Seq(M), NEW ms \in Seq(M), Len(ms) = 1,
         NEW i \in DOMAIN (w \o ms)
  PROVE  \/ i \in DOMAIN w /\ (w \o ms)[i] = w[i]
         \/ i = Len(w) + 1 /\ (w \o ms)[i] = ms[1]
<1> DEFINE v == w \o ms
           n == Len(w)
<1>1. /\ v \in Seq(M) /\ Len(v) = n + 1 /\ n \in Nat
      /\ DOMAIN w = 1..n
      /\ \A j \in 1..(n + 1) : v[j] = IF j <= n THEN w[j] ELSE ms[j - n]
  <2>1. /\ v \in Seq(M) /\ Len(v) = n + Len(ms)
        /\ \A j \in 1..(n + Len(ms)) : v[j] = IF j <= n THEN w[j] ELSE ms[j - n]
    BY ConcatProperties
  <2>2. n \in Nat /\ DOMAIN w = 1..n
    BY LenProperties
  <2> HIDE DEF v, n
  <2>3. QED
    BY <2>1, <2>2
<1>2. DOMAIN v = 1..(n + 1)
  BY <1>1, LenProperties
<1> HIDE DEF v, n
<1>3. i \in DOMAIN v
  BY DEF v
<1>4. \/ i \in 1..n /\ v[i] = w[i]
      \/ i = n + 1 /\ v[i] = ms[1]
  <2>1. CASE i <= n
    BY <1>1, <1>2, <1>3, <2>1
  <2>2. CASE ~(i <= n)
    <3>1. i = n + 1 /\ i - n = 1
      BY <1>1, <1>2, <1>3, <2>2
    <3>2. QED
      BY <1>1, <1>2, <1>3, <2>2, <3>1
  <2>3. QED
    BY <2>1, <2>2
<1>5. QED
  BY <1>1, <1>4 DEF v, n

LEMMA FirstPlaces ==
  ASSUME NEW M, NEW w \in Seq(M), NEW ms \in Seq(M), NEW j \in DOMAIN w
  PROVE  j \in DOMAIN (w \o ms) /\ (w \o ms)[j] = w[j]
<1> DEFINE v == w \o ms
<1>1. /\ v \in Seq(M) /\ Len(v) = Len(w) + Len(ms)
      /\ \A i \in 1..(Len(w) + Len(ms)) : v[i] = IF i <= Len(w) THEN w[i] ELSE ms[i - Len(w)]
  BY ConcatProperties
<1>2. Len(w) \in Nat /\ DOMAIN w = 1..Len(w) /\ Len(ms) \in Nat
  BY LenProperties
<1>3. DOMAIN v = 1..Len(v)
  BY <1>1, LenProperties
<1> HIDE DEF v
<1>4. j \in DOMAIN v /\ v[j] = w[j]
  BY <1>1, <1>2, <1>3
<1>5. QED
  BY <1>4 DEF v

(* A test that was not asked for is asked for once. *)
LEMMA RequestAdded ==
  ASSUME RequestInv, TestBase, NEW t \in Tests, t \notin asked,
         asked' = asked \cup {t}, test' = test, Conns' = Conns,
         NEW s \in Conns, NEW ms \in Seq(Requests), Len(ms) = 1,
         ms[1] = [type |-> "proxy.test", test |-> t],
         \A c \in Conns : /\ In(c) \in Seq(Requests)
                          /\ In(c)' = IF c = s THEN In(c) \o ms ELSE In(c)
  PROVE  RequestInv'
<1>1. test[t] = NoTest
  BY DEF TestBase
<1>2. ASSUME NEW c \in Conns, NEW i \in DOMAIN In(c)'
      PROVE  \/ i \in DOMAIN In(c) /\ In(c)'[i] = In(c)[i]
             \/ c = s /\ i = Len(In(s)) + 1 /\ In(c)'[i].test = t
  <2>1. CASE c = s
    <3>1. In(s) \in Seq(Requests) /\ i \in DOMAIN (In(s) \o ms) /\ In(c)' = In(s) \o ms
      BY <1>2, <2>1
    <3>2. \/ i \in DOMAIN In(s) /\ (In(s) \o ms)[i] = In(s)[i]
          \/ i = Len(In(s)) + 1 /\ (In(s) \o ms)[i] = ms[1]
      BY <3>1, AppendOne
    <3>3. ms[1].test = t
      OBVIOUS
    <3>4. QED
      BY <2>1, <3>1, <3>2, <3>3
  <2>2. CASE c # s
    BY <1>2, <2>2
  <2>3. QED
    BY <2>1, <2>2
<1>3. ASSUME NEW c \in Conns, NEW i \in DOMAIN In(c), IsRequest(In(c)[i])
      PROVE  In(c)[i].test # t /\ In(c)[i].test \in asked /\ test[In(c)[i].test] = NoTest
  BY <1>3 DEF RequestInv
<1> SUFFICES ASSUME NEW c \in Conns, NEW i \in DOMAIN In(c)', IsRequest(In(c)'[i])
             PROVE  /\ In(c)'[i].test \in asked' /\ test'[In(c)'[i].test] = NoTest
                    /\ \A d \in Conns : \A j \in DOMAIN In(d)' :
                         IsRequest(In(d)'[j]) /\ In(d)'[j].test = In(c)'[i].test
                           => d = c /\ j = i
  BY DEF RequestInv, IsRequest
<1>4. In(c)'[i].test \in asked' /\ test'[In(c)'[i].test] = NoTest
  BY <1>1, <1>2, <1>3
<1>5. ASSUME NEW d \in Conns, NEW j \in DOMAIN In(d)',
             IsRequest(In(d)'[j]), In(d)'[j].test = In(c)'[i].test
      PROVE  d = c /\ j = i
  <2>1. CASE i \in DOMAIN In(c) /\ In(c)'[i] = In(c)[i]
    <3>1. In(c)[i].test # t
      BY <1>3, <2>1
    <3>2. j \in DOMAIN In(d) /\ In(d)'[j] = In(d)[j]
      BY <1>2, <1>5, <2>1, <3>1
    <3>3. QED
      BY <1>5, <2>1, <3>2 DEF RequestInv
  <2>2. CASE c = s /\ i = Len(In(s)) + 1 /\ In(c)'[i].test = t
    <3>1. d = s /\ j = Len(In(s)) + 1
      BY <1>2, <1>3, <1>5, <2>2
    <3>2. QED
      BY <2>2, <3>1
  <2>3. QED
    BY <1>2, <2>1, <2>2
<1>6. QED
  BY <1>4, <1>5

(* A test that gave no result gives one, to its asker. *)
LEMMA ResultAdded ==
  ASSUME ResultInv, TestBase, NEW t \in Tests, ~test[t].sent,
         test'[t].sent, \A u \in Tests : u # t => test'[u] = test[u],
         answers' = answers, Conns' = Conns,
         NEW a \in Conns, test'[t].asker = a,
         NEW ms \in Seq(Replies), Len(ms) = 1, ms[1].test = t,
         \A c \in Conns : /\ Out(c) \in Seq(Replies)
                          /\ Out(c)' = IF c = a THEN Out(c) \o ms ELSE Out(c)
  PROVE  ResultInv'
<1>1. answers[t] = 0
  BY DEF TestBase
<1>2. ASSUME NEW c \in Conns, NEW i \in DOMAIN Out(c)'
      PROVE  \/ i \in DOMAIN Out(c) /\ Out(c)'[i] = Out(c)[i]
             \/ c = a /\ i = Len(Out(a)) + 1 /\ Out(c)'[i].test = t
  <2>1. CASE c = a
    BY <1>2, <2>1, AppendOne
  <2>2. CASE c # a
    BY <1>2, <2>2
  <2>3. QED
    BY <2>1, <2>2
<1>3. ASSUME NEW c \in Conns, NEW i \in DOMAIN Out(c), IsResult(Out(c)[i])
      PROVE  LET u == Out(c)[i].test IN
             u # t /\ u \in Tests /\ test[u].sent /\ test[u].asker = c /\ answers[u] = 0
  <2>1. Out(c)[i] \in Replies
    BY ElementOfSeq, LenProperties
  <2>2. Out(c)[i].test \in Tests
    BY <1>3, <2>1 DEF Replies, IsResult
  <2>3. QED
    BY <1>3, <2>2 DEF ResultInv
<1> SUFFICES ASSUME NEW c \in Conns, NEW i \in DOMAIN Out(c)', IsResult(Out(c)'[i])
             PROVE  /\ test'[Out(c)'[i].test].sent
                    /\ test'[Out(c)'[i].test].asker = c
                    /\ answers'[Out(c)'[i].test] = 0
                    /\ \A d \in Conns : \A j \in DOMAIN Out(d)' :
                         IsResult(Out(d)'[j]) /\ Out(d)'[j].test = Out(c)'[i].test
                           => d = c /\ j = i
  BY DEF ResultInv, IsResult
<1>4. /\ test'[Out(c)'[i].test].sent
      /\ test'[Out(c)'[i].test].asker = c
      /\ answers'[Out(c)'[i].test] = 0
  BY <1>1, <1>2, <1>3
<1>5. ASSUME NEW d \in Conns, NEW j \in DOMAIN Out(d)',
             IsResult(Out(d)'[j]), Out(d)'[j].test = Out(c)'[i].test
      PROVE  d = c /\ j = i
  <2>1. CASE i \in DOMAIN Out(c) /\ Out(c)'[i] = Out(c)[i]
    <3>1. Out(c)[i].test # t
      BY <1>3, <2>1
    <3>2. j \in DOMAIN Out(d) /\ Out(d)'[j] = Out(d)[j]
      BY <1>2, <1>5, <2>1, <3>1
    <3>3. QED
      BY <1>5, <2>1, <3>2 DEF ResultInv
  <2>2. CASE c = a /\ i = Len(Out(a)) + 1 /\ Out(c)'[i].test = t
    <3>1. d = a /\ j = Len(Out(a)) + 1
      BY <1>2, <1>3, <1>5, <2>2
    <3>2. QED
      BY <2>2, <3>1
  <2>3. QED
    BY <1>2, <2>1, <2>2
<1>6. QED
  BY <1>4, <1>5

(* A step of test t, and its result, keep the results where they belong. *)
LEMMA ResultsAfterStep ==
  ASSUME TestInv, ConnInv, StreamsInv, NEW t \in Tests, NEW oks \in Oks, NEW a \in 0..Len(conn),
         TestStep(t, oks), test'[t].asker = a, toAsker(t, a, oks),
         answers' = answers, conn' = conn
  PROVE  ResultInv'
<1> DEFINE ms == ResultsOf(t, oks)
<1>1. Conns' = Conns /\ Conns = 1..Len(conn)
  BY ConnsAre DEF Conns
<1>2. /\ ms \in Seq(Replies) /\ Len(ms) = IF oks = <<>> THEN 0 ELSE 1
      /\ oks # <<>> => ms[1].type = "result" /\ ms[1].test = t
  BY ResultsAre
<1>3. sendTo(a, ms)
  BY DEF toAsker, ResultsOf
<1> HIDE DEF ms
<1>4. \A d \in Conns : Out(d)' = IF d = a /\ IsOpen(a) THEN Out(d) \o ms ELSE Out(d)
  BY <1>2, <1>3, SendTo
<1>5. \A d \in Conns : Out(d) \in Seq(Replies)
  BY InOut
<1>6. CASE oks # <<>> /\ IsOpen(a)
  <2>1. a \in Conns
    BY <1>1, <1>6 DEF IsOpen
  <2>2. ~test[t].sent /\ test'[t].sent
    BY <1>6, TestsAre DEF TestStep, TestInv
  <2>3. \A u \in Tests : u # t => test'[u] = test[u]
    BY DEF TestStep
  <2>4. \A c \in Conns : /\ Out(c) \in Seq(Replies)
                         /\ Out(c)' = IF c = a THEN Out(c) \o ms ELSE Out(c)
    BY <1>4, <1>5, <1>6
  <2>5. Len(ms) = 1 /\ ms[1].test = t /\ ms \in Seq(Replies)
    BY <1>2, <1>6
  <2>6. ResultInv /\ TestBase /\ Conns' = Conns
    BY <1>1 DEF TestInv
  <2>7. QED
    BY <2>1, <2>2, <2>3, <2>4, <2>5, <2>6, ResultAdded
<1>7. CASE ~(oks # <<>> /\ IsOpen(a))
  <2>1. \A c \in Conns : Out(c)' = Out(c)
    <3>1. oks = <<>> => ms = <<>>
      BY <1>2, EmptySeq
    <3>2. \A c \in Conns : ms = <<>> => Out(c) \o ms = Out(c)
      BY <1>5, ConcatEmptySeq
    <3>3. QED
      BY <1>4, <1>7, <3>1, <3>2
  <2>2. \A c \in Conns' : c \in Conns /\ Keeps(Out(c)', Out(c), "result")
    BY <1>1, <1>5, <2>1, KeepsSame
  <2>3. ASSUME NEW c \in Conns', NEW i \in DOMAIN Out(c)', IsResult(Out(c)'[i])
        PROVE  LET u == Out(c)'[i].test IN
               /\ test[u].sent => test'[u].sent /\ test'[u].asker = test[u].asker
               /\ answers'[u] = answers[u]
    <3>1. Out(c)'[i] \in Replies
      BY <1>1, <1>5, <2>1, ElementOfSeq, LenProperties
    <3>2. Out(c)'[i].test \in Tests
      BY <2>3, <3>1 DEF Replies, IsResult
    <3>3. QED
      BY <3>2 DEF TestStep
  <2>4. QED
    BY <2>2, <2>3, ResultsKept DEF TestInv
<1>8. QED
  BY <1>6, <1>7
-----------------------------------------------------------------------------
(* Every step preserves the invariant.                                     *)

LEMMA VpnSame ==
  ASSUME VpnInv, UNCHANGED vpnVars
  PROVE  VpnInv' /\ \A p \in Profiles : HasOpenVpn(p)' = HasOpenVpn(p)
<1>1. VpnInv'
  BY DEF vpnVars, VpnInv, VpnTypeOK, OneOpenVpn, PasswordFiles, VpnTables, Launches, IsAlive
<1>2. QED
  BY <1>1, SameLaunches DEF vpnVars

LEMMA QueuesAre ==
  ASSUME ConnInv, StreamsInv, NEW c \in Conns
  PROVE  /\ Keeps(In(c), In(c), "proxy.test") /\ Keeps(Out(c), Out(c), "result")
BY InOut, KeepsSame

LEMMA InsSame ==
  ASSUME StreamsInv, toAgent' = toAgent, Len(conn') = Len(conn)
  PROVE  /\ AllGood(toAgent, Requests)' /\ Len(toAgent') = Len(conn')
         /\ \A c \in Conns : In(c)' = In(c)
BY DEF StreamsInv, AllGood, In

LEMMA OutsSame ==
  ASSUME StreamsInv, toClient' = toClient, Len(conn') = Len(conn)
  PROVE  /\ AllGood(toClient, Replies)' /\ Len(toClient') = Len(conn')
         /\ \A c \in Conns : Out(c)' = Out(c)
BY DEF StreamsInv, AllGood, Out

(* No request and no result is added to what was on its way.                *)
NothingAdded ==
  /\ \A c \in Conns' : In(c)' = <<>> \/ (c \in Conns /\ Keeps(In(c)', In(c), "proxy.test"))
  /\ \A c \in Conns' : Out(c)' = <<>> \/ (c \in Conns /\ Keeps(Out(c)', Out(c), "result"))

(* What only moves bytes or changes how connections are.  The agent keeps   *)
(* its processes, unless no connection is left open.                        *)
LEMMA QuietStep ==
  ASSUME IInv, VpnInv', StreamsInv', ConnInv', Conns' = Conns, Len(conn') = Len(conn),
         UNCHANGED <<test, answers, shown>>, asked \subseteq asked',
         \A c \in Conns :
           /\ conn'[c].by = conn[c].by
           /\ conn'[c].state = "pending" => conn[c].state = "pending"
           /\ conn'[c].state = "open" => conn[c].state \in {"pending", "open"}
           /\ conn'[c].state = "open" => \A p \in Profiles : HasOpenVpn(p) => HasOpenVpn(p)'
           /\ In(c)' = <<>> \/ Keeps(In(c)', In(c), "proxy.test")
           /\ Out(c)' = Out(c) \/ (Out(c)' = <<>> /\ conn'[c].state = "closed")
  PROVE  TestInv' /\ ReportsInv' /\ NothingAdded
<1>1. ConnInv /\ StreamsInv /\ TestInv /\ ReportsInv
  BY DEF IInv
<1>2. Len(conn) <= Len(conn')
  BY <1>1, ConnsAre
<1>3. \A c \in Conns' : Out(c)' = <<>> \/ (c \in Conns /\ Keeps(Out(c)', Out(c), "result"))
  BY <1>1, QueuesAre
<1>4. \A c \in Conns' : In(c)' = <<>> \/ (c \in Conns /\ Keeps(In(c)', In(c), "proxy.test"))
  OBVIOUS
<1>5. TestInv'
  BY <1>1, <1>2, <1>3, <1>4, TestsQuiet
<1>6. \A c \in Conns :
        /\ conn'[c].by = conn[c].by
        /\ conn'[c].state = "pending" => conn[c].state = "pending"
        /\ conn'[c].state = "open" => conn[c].state \in {"pending", "open"}
        /\ conn'[c].state # "closed" => Out(c)' = Out(c)
  OBVIOUS
<1>7. \A c \in Conns : conn'[c].state = "open" => \A p \in Profiles : HasOpenVpn(p) => HasOpenVpn(p)'
  OBVIOUS
<1>8. ReportsInv'
  BY <1>1, <1>6, <1>7, ReportsQuiet
<1>9. NothingAdded
  BY <1>3, <1>4 DEF NothingAdded
<1>10. QED
  BY <1>5, <1>8, <1>9

LEMMA NewConnectionStep ==
  ASSUME IInv, onNewConnection
  PROVE  IInv' /\ NothingAdded
<1>1. VpnInv /\ ConnInv /\ StreamsInv
  BY DEF IInv
<1>2. /\ UNCHANGED <<toAgent, toClient, test, answers, shown, asked>>
      /\ UNCHANGED vpnVars
  BY DEF onNewConnection, wires, userVars
<1>3. /\ ConnInv' /\ Conns' = Conns /\ Len(conn') = Len(conn)
      /\ \A c \in Conns : conn'[c].by = conn[c].by
      /\ \A c \in Conns : conn'[c].state = IF conn[c].state = "pending" THEN "open" ELSE conn[c].state
  BY <1>1, ConnNewConnection
<1>4. VpnInv' /\ \A p \in Profiles : HasOpenVpn(p)' = HasOpenVpn(p)
  BY <1>1, <1>2, VpnSame
<1>5. StreamsInv' /\ \A c \in Conns : In(c)' = In(c) /\ Out(c)' = Out(c)
  BY <1>1, <1>2, <1>3, InsSame, OutsSame DEF StreamsInv
<1>6. \A c \in Conns :
        /\ conn'[c].by = conn[c].by
        /\ conn'[c].state = "pending" => conn[c].state = "pending"
        /\ conn'[c].state = "open" => conn[c].state \in {"pending", "open"}
        /\ conn'[c].state = "open" => \A p \in Profiles : HasOpenVpn(p) => HasOpenVpn(p)'
        /\ In(c)' = <<>> \/ Keeps(In(c)', In(c), "proxy.test")
        /\ Out(c)' = Out(c) \/ (Out(c)' = <<>> /\ conn'[c].state = "closed")
  BY <1>1, <1>3, <1>4, <1>5, QueuesAre
<1>7. TestInv' /\ ReportsInv' /\ NothingAdded
  BY <1>2, <1>3, <1>4, <1>5, <1>6, QuietStep
<1>8. QED
  BY <1>3, <1>4, <1>5, <1>7 DEF IInv

LEMMA DeletePeersStep ==
  ASSUME IInv, deletePeers
  PROVE  IInv' /\ NothingAdded
<1>1. VpnInv /\ ConnInv /\ StreamsInv
  BY DEF IInv
<1>2. /\ UNCHANGED <<toClient, test, answers, shown, asked>>
      /\ UNCHANGED vpnVars
      /\ toAgent' = [c \in Conns |-> IF c \in old THEN NewStream ELSE toAgent[c]]
  BY DEF deletePeers, userVars
<1>3. /\ ConnInv' /\ Conns' = Conns /\ Len(conn') = Len(conn)
      /\ \A c \in Conns : conn'[c].by = conn[c].by
      /\ \A c \in Conns : conn'[c].state = IF c \in old THEN "closed" ELSE conn[c].state
  BY <1>1, ConnDeletePeers
<1>4. VpnInv' /\ \A p \in Profiles : HasOpenVpn(p)' = HasOpenVpn(p)
  BY <1>1, <1>2, VpnSame
<1>5. /\ AllGood(toAgent', Requests) /\ Len(toAgent') = Len(conn)
      /\ \A c \in Conns : toAgent'[c] = IF c \in old THEN NewStream ELSE toAgent[c]
  <2>1. /\ Conns = 1..Len(conn) /\ Len(conn) \in Nat /\ Len(conn) = Len(toAgent)
        /\ AllGood(toAgent, Requests)
    BY <1>1, ConnsAre DEF StreamsInv
  <2>2. QED
    BY <1>2, <2>1, AllGoodClear
<1>6. \A c \in Conns : In(c)' = IF c \in old THEN <<>> ELSE In(c)
  BY <1>5, StreamNew DEF In
<1>7. StreamsInv' /\ \A c \in Conns : Out(c)' = Out(c)
  BY <1>1, <1>2, <1>3, <1>5, OutsSame DEF StreamsInv
<1>8. \A c \in Conns :
        /\ conn'[c].by = conn[c].by
        /\ conn'[c].state = "pending" => conn[c].state = "pending"
        /\ conn'[c].state = "open" => conn[c].state \in {"pending", "open"}
        /\ conn'[c].state = "open" => \A p \in Profiles : HasOpenVpn(p) => HasOpenVpn(p)'
        /\ In(c)' = <<>> \/ Keeps(In(c)', In(c), "proxy.test")
        /\ Out(c)' = Out(c) \/ (Out(c)' = <<>> /\ conn'[c].state = "closed")
  BY <1>1, <1>3, <1>4, <1>6, <1>7, QueuesAre
<1>9. TestInv' /\ ReportsInv' /\ NothingAdded
  BY <1>2, <1>3, <1>4, <1>7, <1>8, QuietStep
<1>10. QED
  BY <1>3, <1>4, <1>7, <1>9 DEF IInv

LEMMA AgentDiesStep ==
  ASSUME IInv, agentDies
  PROVE  IInv' /\ NothingAdded
<1>1. VpnInv /\ ConnInv /\ StreamsInv /\ TestInv /\ ReportsInv
  BY DEF IInv
<1>2. /\ UNCHANGED <<toClient, answers, shown, asked>>
      /\ abandonOpenVpn /\ abandonTests
      /\ toAgent' = [c \in Conns |-> NewStream]
  BY DEF agentDies, userVars
<1>3. /\ ConnInv' /\ Conns' = Conns /\ Len(conn') = Len(conn)
      /\ \A c \in Conns : conn'[c].by = conn[c].by /\ conn'[c].state = "closed"
  BY <1>1, ConnAgentDies
<1>4. VpnInv'
  BY <1>1, <1>2, VpnAbandon
<1>5. /\ AllGood(toAgent', Requests) /\ Len(toAgent') = Len(conn)
      /\ \A c \in Conns : toAgent'[c] = NewStream
  <2>1. /\ Conns = 1..Len(conn) /\ Len(conn) \in Nat /\ Len(conn) = Len(toAgent)
        /\ AllGood(toAgent, Requests)
    BY <1>1, ConnsAre DEF StreamsInv
  <2>2. toAgent' = [c \in 1..Len(conn) |-> IF c \in Conns THEN NewStream ELSE toAgent[c]]
    BY <1>2, <2>1
  <2>3. QED
    BY <2>1, <2>2, AllGoodClear
<1>6. \A c \in Conns : In(c)' = <<>>
  BY <1>5, StreamNew DEF In
<1>7. StreamsInv' /\ \A c \in Conns : Out(c)' = Out(c)
  BY <1>1, <1>2, <1>3, <1>5, OutsSame DEF StreamsInv
<1>8. ReportsInv'
  <2>1. \A c \in Conns :
          /\ conn'[c].by = conn[c].by
          /\ conn'[c].state = "pending" => conn[c].state = "pending"
          /\ conn'[c].state = "open" => conn[c].state \in {"pending", "open"}
          /\ conn'[c].state # "closed" => Out(c)' = Out(c)
    BY <1>3
  <2>2. \A c \in Conns : conn'[c].state = "open" => \A p \in Profiles : HasOpenVpn(p) => HasOpenVpn(p)'
    BY <1>3
  <2>3. shown' = shown
    BY <1>2
  <2>4. QED
    BY <1>1, <1>3, <2>1, <2>2, <2>3, ReportsQuiet
<1>9. /\ test' \in [Tests -> TestRecords(0..Len(conn))]
      /\ \A t \in Tests :
           /\ test[t].asker = 0 => test'[t] = test[t]
           /\ test[t].asker # 0 => test'[t].sent
           /\ test'[t].asker = test[t].asker
  <2>1. \A t \in Tests : [test[t] EXCEPT !.flying = {}, !.sent = TRUE] \in TestRecords(0..Len(conn))
    BY <1>1, TestsAre DEF TestInv, TestRecords
  <2>2. \A t \in Tests : /\ [test[t] EXCEPT !.flying = {}, !.sent = TRUE].sent
                         /\ [test[t] EXCEPT !.flying = {}, !.sent = TRUE].asker = test[t].asker
    BY <1>1, TestsAre DEF TestInv, TestRecords
  <2>3. \A t \in Tests : test[t] \in TestRecords(0..Len(conn))
    BY <1>1, TestsAre DEF TestInv
  <2>4. QED
    BY <1>2, <2>1, <2>2, <2>3 DEF abandonTests
<1>10. TestBase'
  <2>1. TestTypeOK(0..Len(conn))'
    BY <1>3, <1>9 DEF TestTypeOK, TestRecords
  <2>2. ASSUME NEW t \in Tests
        PROVE  /\ t \notin asked' => test'[t] = NoTest
               /\ ~test'[t].sent => answers'[t] = 0
    <3>1. t \notin asked => test[t] = NoTest /\ test[t].asker = 0
      BY <1>1 DEF TestInv, TestBase, NoTest
    <3>2. ~test[t].sent => answers[t] = 0
      BY <1>1 DEF TestInv, TestBase
    <3>3. QED
      BY <1>2, <1>9, <3>1, <3>2
  <2>3. QED
    BY <1>1, <1>2, <2>1, <2>2 DEF TestInv, TestBase
<1>11. RequestInv'
  <2>1. \A c \in Conns' : \A i \in DOMAIN In(c)' : FALSE
    BY <1>3, <1>6
  <2>2. QED
    BY <2>1 DEF RequestInv
<1>12. ResultInv'
  <2>1. \A c \in Conns' : c \in Conns /\ Keeps(Out(c)', Out(c), "result")
    BY <1>1, <1>3, <1>7, QueuesAre
  <2>2. ASSUME NEW c \in Conns', NEW i \in DOMAIN Out(c)', IsResult(Out(c)'[i])
        PROVE  LET u == Out(c)'[i].test IN
               /\ test[u].sent => test'[u].sent /\ test'[u].asker = test[u].asker
               /\ answers'[u] = answers[u]
    <3>1. Out(c)' \in Seq(Replies)
      BY <1>1, <1>3, <1>7, InOut
    <3>2. Out(c)'[i].test \in Tests
      BY <2>2, <3>1, ElementOfSeq, LenProperties DEF Replies, IsResult
    <3>3. QED
      BY <1>2, <1>9, <3>2
  <2>3. QED
    BY <1>1, <2>1, <2>2, ResultsKept DEF TestInv
<1>13. NothingAdded
  BY <1>1, <1>3, <1>6, <1>7, QueuesAre DEF NothingAdded
<1>14. QED
  BY <1>3, <1>4, <1>7, <1>8, <1>10, <1>11, <1>12, <1>13 DEF IInv, TestInv

(* The connections stay as they are, and nothing is said of OpenVPN. *)
LEMMA QuietConnStep ==
  ASSUME IInv, VpnInv', StreamsInv', ConnInv', conn' = conn,
         UNCHANGED <<test, answers, shown>>, asked \subseteq asked',
         \A p \in Profiles : HasOpenVpn(p) => HasOpenVpn(p)',
         \A c \in Conns :
           /\ Keeps(In(c)', In(c), "proxy.test")
           /\ Out(c)' = Out(c) \/ (Out(c)' = <<>> /\ conn[c].state = "closed")
  PROVE  IInv' /\ NothingAdded
<1>1. Conns' = Conns /\ ConnInv
  BY DEF Conns, IInv
<1>2. \A c \in Conns :
        /\ conn'[c].by = conn[c].by
        /\ conn'[c].state = "pending" => conn[c].state = "pending"
        /\ conn'[c].state = "open" => conn[c].state \in {"pending", "open"}
        /\ conn'[c].state = "open" => \A p \in Profiles : HasOpenVpn(p) => HasOpenVpn(p)'
        /\ In(c)' = <<>> \/ Keeps(In(c)', In(c), "proxy.test")
        /\ Out(c)' = Out(c) \/ (Out(c)' = <<>> /\ conn'[c].state = "closed")
  BY <1>1
<1>3. TestInv' /\ ReportsInv' /\ NothingAdded
  BY <1>1, <1>2, QuietStep
<1>4. QED
  BY <1>3 DEF IInv

LEMMA StartAgentStep ==
  ASSUME IInv, startAgent
  PROVE  IInv' /\ NothingAdded
<1>1. VpnInv /\ ConnInv /\ StreamsInv
  BY DEF IInv
<1>2. /\ UNCHANGED <<conn, toAgent, toClient, test, answers, shown, requests, asked>>
      /\ UNCHANGED <<faults, peer, old, socket, connected>>
      /\ agentUp' = TRUE /\ retry' = ~connected
      /\ UNCHANGED vpnVars
  BY DEF startAgent, wires, userVars
<1>3. ConnInv'
  BY <1>1, <1>2 DEF ConnInv, Doomed, Conns
<1>4. VpnInv' /\ \A p \in Profiles : HasOpenVpn(p)' = HasOpenVpn(p)
  BY <1>1, <1>2, VpnSame
<1>5. StreamsInv' /\ \A c \in Conns : In(c)' = In(c) /\ Out(c)' = Out(c)
  BY <1>1, <1>2, InsSame, OutsSame DEF StreamsInv
<1>6. \A c \in Conns : Keeps(In(c)', In(c), "proxy.test")
  BY <1>1, <1>5, QueuesAre
<1>7. QED
  BY <1>2, <1>3, <1>4, <1>5, <1>6, QuietConnStep

LEMMA AgentReadsStep ==
  ASSUME IInv, NEW c \in Conns, agentReads(c)
  PROVE  IInv' /\ NothingAdded
<1>1. VpnInv /\ ConnInv /\ StreamsInv
  BY DEF IInv
<1>2. PICK k \in 1..Len(toAgent[c].wire) : toAgent' = [toAgent EXCEPT ![c] = readAll(@, k)]
  BY DEF agentReads
<1>3. /\ UNCHANGED <<conn, toClient, test, answers, shown, requests, asked>>
      /\ UNCHANGED <<agentUp, faults, peer, old, socket, connected, retry>>
      /\ UNCHANGED vpnVars
  BY DEF agentReads, serverVars, clientVars, userVars
<1>4. ConnInv'
  BY <1>1, <1>3, ConnUnchanged DEF ConnInv
<1>5. VpnInv' /\ \A p \in Profiles : HasOpenVpn(p)' = HasOpenVpn(p)
  BY <1>1, <1>3, VpnSame
<1>6. /\ AllGood(toAgent', Requests) /\ Len(toAgent') = Len(conn)
      /\ \A d \in Conns : In(d)' = In(d)
  <2>1. /\ AllGood(toAgent, Requests) /\ Len(conn) = Len(toAgent)
        /\ Conns = 1..Len(toAgent)
    BY <1>1, ConnsAre DEF StreamsInv
  <2>2. toAgent' = With(toAgent, c, readAll(toAgent[c], k))
    BY <1>2 DEF With
  <2>3. /\ AllGood(toAgent', Requests) /\ Len(toAgent') = Len(toAgent)
        /\ \A d \in 1..Len(toAgent) : Waiting(toAgent'[d]) = Waiting(toAgent[d])
    BY <2>1, <2>2, ReadSome
  <2>4. QED
    BY <2>1, <2>3 DEF In
<1>7. StreamsInv' /\ \A d \in Conns : Out(d)' = Out(d)
  BY <1>1, <1>3, <1>6, OutsSame DEF StreamsInv
<1>8. \A d \in Conns : Keeps(In(d)', In(d), "proxy.test")
  BY <1>1, <1>6, QueuesAre
<1>9. QED
  BY <1>3, <1>4, <1>5, <1>7, <1>8, QuietConnStep

LEMMA ConsoleReadsStep ==
  ASSUME IInv, consoleReads
  PROVE  IInv' /\ NothingAdded
<1>1. VpnInv /\ ConnInv /\ StreamsInv
  BY DEF IInv
<1>2. PICK k \in 1..Len(toClient[socket].wire) : toClient' = [toClient EXCEPT ![socket] = readAll(@, k)]
  BY DEF consoleReads
<1>3. /\ UNCHANGED <<conn, toAgent, test, answers, shown, requests, asked>>
      /\ UNCHANGED <<agentUp, faults, peer, old, socket, connected, retry>>
      /\ UNCHANGED vpnVars
  BY DEF consoleReads, serverVars, clientVars, userVars
<1>4. ConnInv'
  BY <1>1, <1>3, ConnUnchanged DEF ConnInv
<1>5. VpnInv' /\ \A p \in Profiles : HasOpenVpn(p)' = HasOpenVpn(p)
  BY <1>1, <1>3, VpnSame
<1>6. /\ AllGood(toClient', Replies) /\ Len(toClient') = Len(conn)
      /\ \A d \in Conns : Out(d)' = Out(d)
  <2>1. /\ AllGood(toClient, Replies) /\ Len(conn) = Len(toClient)
        /\ Conns = 1..Len(toClient)
    BY <1>1, ConnsAre DEF StreamsInv
  <2>2. toClient' = With(toClient, socket, readAll(toClient[socket], k))
    BY <1>2 DEF With
  <2>3. socket \in 1..Len(toClient)
    BY <1>1, <2>1, ConnsAre DEF consoleReads, ConnInv
  <2>4. /\ AllGood(toClient', Replies) /\ Len(toClient') = Len(toClient)
        /\ \A d \in 1..Len(toClient) : Waiting(toClient'[d]) = Waiting(toClient[d])
    BY <2>1, <2>2, <2>3, ReadSome
  <2>5. QED
    BY <2>1, <2>4 DEF Out
<1>7. StreamsInv' /\ \A d \in Conns : In(d)' = In(d)
  BY <1>1, <1>3, <1>6, InsSame DEF StreamsInv
<1>8. \A d \in Conns : Keeps(In(d)', In(d), "proxy.test")
  BY <1>1, <1>7, QueuesAre
<1>9. QED
  BY <1>3, <1>4, <1>5, <1>6, <1>7, <1>8, QuietConnStep

LEMMA StopTimerStep ==
  ASSUME IInv, NEW n \in Launches, StopTimer(n)
  PROVE  IInv' /\ NothingAdded
<1>1. VpnInv /\ ConnInv /\ StreamsInv
  BY DEF IInv
<1>2. /\ UNCHANGED <<conn, toAgent, toClient, test, answers, shown, requests, asked>>
      /\ UNCHANGED <<agentUp, faults, peer, old, socket, connected, retry>>
      /\ stopTimeout(n)
  BY DEF StopTimer, serverVars, clientVars, userVars, wires
<1>3. ConnInv'
  BY <1>1, <1>2, ConnUnchanged DEF ConnInv
<1>4. VpnInv' /\ \A p \in Profiles : HasOpenVpn(p) => HasOpenVpn(p)'
  BY <1>1, <1>2, VpnStopTimeout
<1>5. StreamsInv' /\ \A c \in Conns : In(c)' = In(c) /\ Out(c)' = Out(c)
  BY <1>1, <1>2, InsSame, OutsSame DEF StreamsInv
<1>6. \A c \in Conns : Keeps(In(c)', In(c), "proxy.test")
  BY <1>1, <1>5, QueuesAre
<1>7. QED
  BY <1>2, <1>3, <1>4, <1>5, <1>6, QuietConnStep

LEMMA OtherLeavesStep ==
  ASSUME IInv, NEW c \in Conns, otherLeaves(c)
  PROVE  IInv' /\ NothingAdded
<1>1. VpnInv /\ ConnInv /\ StreamsInv
  BY DEF IInv
<1>2. /\ UNCHANGED <<toAgent, test, answers, shown, asked>>
      /\ UNCHANGED vpnVars
      /\ conn[c].state = "open"
      /\ toClient' = [toClient EXCEPT ![c] = NewStream]
  BY DEF otherLeaves, IsOpen, userVars
<1>3. /\ ConnInv' /\ Conns' = Conns /\ Len(conn') = Len(conn)
      /\ \A d \in Conns : conn'[d].by = conn[d].by
      /\ \A d \in Conns : conn'[d].state = IF d = c THEN "closed" ELSE conn[d].state
  BY <1>1, ConnOtherLeaves
<1>4. VpnInv' /\ \A p \in Profiles : HasOpenVpn(p)' = HasOpenVpn(p)
  BY <1>1, <1>2, VpnSame
<1>5. /\ AllGood(toClient', Replies) /\ Len(toClient') = Len(conn)
      /\ \A d \in Conns : Out(d)' = IF d = c THEN <<>> ELSE Out(d)
  <2>1. /\ AllGood(toClient, Replies) /\ Len(conn) = Len(toClient)
        /\ Conns = 1..Len(toClient)
    BY <1>1, ConnsAre DEF StreamsInv
  <2>2. toClient' = With(toClient, c, NewStream)
    BY <1>2 DEF With
  <2>3. /\ AllGood(toClient', Replies) /\ Len(toClient') = Len(toClient)
        /\ Waiting(toClient'[c]) = <<>>
        /\ \A d \in 1..Len(toClient) : d # c => toClient'[d] = toClient[d]
    BY <2>1, <2>2, ForgetOne
  <2>4. QED
    BY <2>1, <2>3 DEF Out
<1>6. StreamsInv' /\ \A d \in Conns : In(d)' = In(d)
  BY <1>1, <1>2, <1>3, <1>5, InsSame DEF StreamsInv
<1>7. \A d \in Conns :
        /\ conn'[d].by = conn[d].by
        /\ conn'[d].state = "pending" => conn[d].state = "pending"
        /\ conn'[d].state = "open" => conn[d].state \in {"pending", "open"}
        /\ conn'[d].state = "open" => \A p \in Profiles : HasOpenVpn(p) => HasOpenVpn(p)'
        /\ In(d)' = <<>> \/ Keeps(In(d)', In(d), "proxy.test")
        /\ Out(d)' = Out(d) \/ (Out(d)' = <<>> /\ conn'[d].state = "closed")
  BY <1>1, <1>3, <1>4, <1>5, <1>6, QueuesAre
<1>8. TestInv' /\ ReportsInv' /\ NothingAdded
  BY <1>2, <1>3, <1>4, <1>6, <1>7, QuietStep
<1>9. QED
  BY <1>3, <1>4, <1>6, <1>8 DEF IInv

(* A connection that did not exist before. *)
LEMMA ConnectedStep ==
  ASSUME IInv, VpnInv', ConnInv', StreamsInv', UNCHANGED <<test, answers, shown, asked>>,
         Len(conn') = Len(conn) + 1, Conns' = Conns \cup {Len(conn) + 1},
         \A c \in Conns : /\ conn'[c] = conn[c]
                          /\ In(c)' = In(c)
                          /\ Out(c)' = Out(c) \/ Out(c)' = <<>>,
         conn'[Len(conn) + 1].state = "pending",
         Waiting(toAgent'[Len(conn) + 1]) = <<>>,
         Waiting(toClient'[Len(conn) + 1]) = <<>>
  PROVE  IInv' /\ NothingAdded
<1>1. ConnInv /\ StreamsInv /\ TestInv /\ ReportsInv /\ Len(conn) \in Nat
  BY ConnsAre DEF IInv
<1>2. \A c \in Conns' : c \in Conns \/ (In(c)' = <<>> /\ Out(c)' = <<>>)
  BY DEF In, Out
<1>3. \A c \in Conns' : In(c)' = <<>> \/ (c \in Conns /\ Keeps(In(c)', In(c), "proxy.test"))
  BY <1>1, <1>2, QueuesAre
<1>4. \A c \in Conns' : Out(c)' = <<>> \/ (c \in Conns /\ Keeps(Out(c)', Out(c), "result"))
  BY <1>1, <1>2, QueuesAre
<1>5. TestInv'
  <2>1. Len(conn) <= Len(conn')
    BY <1>1
  <2>2. QED
    BY <1>1, <1>3, <1>4, <2>1, TestsQuiet
<1>6. ReportsInv'
  <2>1. \A c \in Conns : conn'[c] = conn[c] /\ (Out(c)' = Out(c) \/ Out(c)' = <<>>)
    OBVIOUS
  <2>2. shown' = shown
    OBVIOUS
  <2>3. QED
    BY <1>1, <2>1, <2>2, ReportsConnected
<1>7. NothingAdded
  BY <1>3, <1>4 DEF NothingAdded
<1>8. QED
  BY <1>5, <1>6, <1>7 DEF IInv

LEMMA ConnectStep ==
  ASSUME IInv, tryConnectOnce \/ otherConnects
  PROVE  IInv' /\ NothingAdded
<1>1. VpnInv /\ ConnInv /\ StreamsInv
  BY DEF IInv
<1>2. /\ UNCHANGED <<test, answers, shown, asked>>
      /\ UNCHANGED vpnVars
      /\ newConnection("console") \/ newConnection("other")
  BY DEF tryConnectOnce, attachSocket, otherConnects, userVars
<1>3. PICK by \in {"console", "other"} : newConnection(by)
  BY <1>2
<1>4. ConnInv'
  <2>1. CASE tryConnectOnce
    <3>1. Doomed
      BY <1>1, <2>1 DEF tryConnectOnce, ConnInv
    <3>2. QED
      BY <1>1, <2>1, <3>1, ConnConnects
         DEF tryConnectOnce, attachSocket, newConnection, serverVars, userVars
  <2>2. CASE otherConnects
    BY <1>1, <2>2, ConnOtherConnects
  <2>3. QED
    BY <2>1, <2>2
<1>5. VpnInv'
  BY <1>1, <1>2, VpnSame
<1>6. /\ StreamsInv' /\ Len(conn') = Len(conn) + 1
      /\ Conns' = Conns \cup {Len(conn) + 1}
      /\ \A c \in Conns : conn'[c] = conn[c] /\ In(c)' = In(c) /\ Out(c)' = Out(c)
      /\ conn'[Len(conn) + 1] = [by |-> by, state |-> "pending"]
      /\ Waiting(toAgent'[Len(conn) + 1]) = <<>> /\ Waiting(toClient'[Len(conn) + 1]) = <<>>
  BY <1>1, <1>3, NewConnection
<1>7. QED
  BY <1>2, <1>4, <1>5, <1>6, ConnectedStep
(* A lost connection of the console: tried again at once, or by the timer.  *)
LEMMA DisconnectedStep ==
  ASSUME IInv, onDisconnected
  PROVE  IInv' /\ NothingAdded
<1> DEFINE n == Len(conn) + 1
           cleared == With(toClient, socket, NewStream)
<1>1. VpnInv /\ ConnInv /\ StreamsInv
  BY DEF IInv
<1>2. /\ UNCHANGED <<agentUp, faults, peer, old, test, answers, shown, requests, asked>>
      /\ UNCHANGED vpnVars
      /\ connected /\ conn[socket].state = "closed"
  BY DEF onDisconnected, serverVars, userVars
<1>3. Conns = 1..Len(conn) /\ Len(conn) \in Nat
  BY <1>1, ConnsAre
<1>4. socket \in Conns /\ Doomed /\ retry = FALSE /\ connected = TRUE
  BY <1>1, <1>2, <1>3 DEF ConnInv, Doomed
<1>5. VpnInv' /\ \A p \in Profiles : HasOpenVpn(p)' = HasOpenVpn(p)
  BY <1>1, <1>2, VpnSame
<1>6. /\ AllGood(cleared, Replies) /\ Len(cleared) = Len(conn)
      /\ \A c \in Conns : Waiting(cleared[c]) = IF c = socket THEN <<>> ELSE Out(c)
  <2>1. /\ AllGood(toClient, Replies) /\ Len(conn) = Len(toClient) /\ Conns = 1..Len(toClient)
    BY <1>1, <1>3 DEF StreamsInv
  <2>2. /\ AllGood(cleared, Replies) /\ Len(cleared) = Len(toClient)
        /\ Waiting(cleared[socket]) = <<>>
        /\ \A d \in 1..Len(toClient) : d # socket => cleared[d] = toClient[d]
    BY <1>4, <2>1, ForgetOne
  <2>3. QED
    BY <2>1, <2>2 DEF Out
<1> HIDE DEF cleared, n
<1>7. CASE /\ conn' = Append(conn, [by |-> "console", state |-> "pending"])
           /\ toAgent' = Append(toAgent, NewStream)
           /\ toClient' = Append(cleared, NewStream)
           /\ socket' = Len(conn) + 1
           /\ UNCHANGED <<connected, retry>>
  <2>1. ConnInv'
    BY <1>1, <1>2, <1>4, <1>7, ConnConnects
  <2>2. /\ Len(conn') = n /\ Conns' = Conns \cup {n}
        /\ \A c \in Conns : conn'[c] = conn[c]
        /\ conn'[n].state = "pending"
    <3>1. conn' = Append(conn, [by |-> "console", state |-> "pending"])
      BY <1>7
    <3>2. /\ Len(conn') = Len(conn) + 1 /\ Conns' = Conns \cup {Len(conn) + 1}
          /\ \A c \in Conns : conn'[c] = conn[c]
          /\ conn'[Len(conn) + 1] = [by |-> "console", state |-> "pending"]
      BY <1>1, <3>1, ConnAppended
    <3>3. QED
      BY <3>2 DEF n
  <2>3. /\ AllGood(toAgent', Requests) /\ Len(toAgent') = n /\ toAgent'[n] = NewStream
        /\ \A c \in Conns : toAgent'[c] = toAgent[c]
    BY <1>1, <1>3, <1>7, AllGoodAppend DEF StreamsInv, n
  <2>4. /\ AllGood(toClient', Replies) /\ Len(toClient') = n /\ toClient'[n] = NewStream
        /\ \A c \in Conns : toClient'[c] = cleared[c]
    BY <1>3, <1>6, <1>7, AllGoodAppend DEF n
  <2>5. StreamsInv'
    BY <2>2, <2>3, <2>4 DEF StreamsInv
  <2>6. \A c \in Conns : /\ conn'[c] = conn[c]
                         /\ In(c)' = In(c)
                         /\ Out(c)' = Out(c) \/ Out(c)' = <<>>
    BY <1>6, <2>2, <2>3, <2>4 DEF In, Out
  <2>7. Waiting(toAgent'[n]) = <<>> /\ Waiting(toClient'[n]) = <<>>
    BY <2>3, <2>4, StreamNew
  <2>8. UNCHANGED <<test, answers, shown, asked>>
    BY <1>2
  <2>9. QED
    BY <1>5, <2>1, <2>2, <2>5, <2>6, <2>7, <2>8, ConnectedStep DEF n
<1>8. CASE /\ toClient' = cleared
           /\ connected' = FALSE
           /\ retry' = TRUE
           /\ UNCHANGED <<conn, toAgent, socket>>
  <2>1. ConnInv'
    BY <1>1, <1>2, <1>4, <1>8 DEF ConnInv, Doomed, Conns
  <2>2. StreamsInv'
    BY <1>1, <1>6, <1>8 DEF StreamsInv, AllGood
  <2>3. \A c \in Conns : /\ Keeps(In(c)', In(c), "proxy.test")
                         /\ Out(c)' = Out(c) \/ (Out(c)' = <<>> /\ conn[c].state = "closed")
    <3>1. \A c \in Conns : In(c)' = In(c) /\ Out(c)' = IF c = socket THEN <<>> ELSE Out(c)
      BY <1>6, <1>8 DEF In, Out
    <3>2. QED
      BY <1>1, <1>2, <3>1, QueuesAre
  <2>4. QED
    BY <1>2, <1>5, <1>8, <2>1, <2>2, <2>3, QuietConnStep
<1>9. QED
  BY <1>7, <1>8 DEF onDisconnected, cleared, With

(* The console sends. *)
LEMMA SendsIs ==
  ASSUME ConnInv, StreamsInv, NEW ms \in Seq(Requests), Sends(ms)
  PROVE  /\ StreamsInv'
         /\ UNCHANGED <<agentUp, faults, conn, peer, old, socket, connected, retry>>
         /\ UNCHANGED <<answers, shown, test>>
         /\ UNCHANGED vpnVars
         /\ socket \in Conns
         /\ \A c \in Conns :
              /\ In(c)' = IF c = socket /\ conn[socket].state # "closed" THEN In(c) \o ms ELSE In(c)
              /\ Out(c)' = Out(c)
<1>1. /\ UNCHANGED <<agentUp, faults, conn, peer, old, socket, connected, retry>>
      /\ UNCHANGED <<answers, shown, test, toClient>>
      /\ UNCHANGED vpnVars
      /\ connected
      /\ toAgent' = IF conn[socket].state = "closed" THEN toAgent
                    ELSE With(toAgent, socket, send(toAgent[socket], ms))
  BY DEF Sends, serverVars, clientVars, With
<1>2. /\ Conns = 1..Len(conn) /\ socket \in Conns /\ Conns = 1..Len(toAgent)
      /\ AllGood(toAgent, Requests) /\ Len(toAgent) = Len(conn)
  BY <1>1, ConnsAre DEF ConnInv, StreamsInv
<1>3. \A c \in Conns : Out(c)' = Out(c)
  BY <1>1 DEF Out
<1>4. CASE conn[socket].state = "closed"
  BY <1>1, <1>2, <1>3, <1>4 DEF StreamsInv, AllGood, In
<1>5. CASE conn[socket].state # "closed"
  <2> DEFINE s == send(toAgent[socket], ms)
  <2>1. Good(s, Requests) /\ Waiting(s) = In(socket) \o ms
    BY <1>2, InOut, StreamSend DEF In
  <2>2. toAgent' = With(toAgent, socket, s)
    BY <1>1, <1>5
  <2> HIDE DEF s
  <2>3. /\ AllGood(toAgent', Requests) /\ Len(toAgent') = Len(toAgent)
        /\ \A d \in 1..Len(toAgent) : toAgent'[d] = IF d = socket THEN s ELSE toAgent[d]
    BY <1>2, <2>1, <2>2, AllGoodWith
  <2>4. StreamsInv'
    BY <1>1, <1>2, <2>3 DEF StreamsInv, AllGood
  <2>5. \A c \in Conns : In(c)' = IF c = socket THEN In(c) \o ms ELSE In(c)
    BY <1>2, <2>1, <2>3 DEF In
  <2>6. QED
    BY <1>1, <1>2, <1>3, <1>5, <2>4, <2>5
<1>6. QED
  BY <1>4, <1>5

LEMMA VpnRequestStep ==
  ASSUME IInv, NEW ms \in Seq(Requests), Sends(ms),
         \A i \in 1..Len(ms) : ms[i].type # "proxy.test",
         requests' \in 0..MaxEvents, asked' = asked
  PROVE  IInv' /\ NothingAdded
<1>1. VpnInv /\ ConnInv /\ StreamsInv
  BY DEF IInv
<1>2. /\ StreamsInv'
      /\ UNCHANGED <<agentUp, faults, conn, peer, old, socket, connected, retry>>
      /\ UNCHANGED <<answers, shown, test>>
      /\ UNCHANGED vpnVars
      /\ \A c \in Conns :
           /\ In(c)' = IF c = socket /\ conn[socket].state # "closed" THEN In(c) \o ms ELSE In(c)
           /\ Out(c)' = Out(c)
  BY <1>1, SendsIs
<1>3. ConnInv'
  BY <1>1, <1>2, ConnUnchanged DEF ConnInv
<1>4. VpnInv' /\ \A p \in Profiles : HasOpenVpn(p)' = HasOpenVpn(p)
  BY <1>1, <1>2, VpnSame
<1>5. \A c \in Conns : /\ Keeps(In(c)', In(c), "proxy.test")
                       /\ Out(c)' = Out(c) \/ (Out(c)' = <<>> /\ conn[c].state = "closed")
  <2> SUFFICES ASSUME NEW c \in Conns PROVE Keeps(In(c)', In(c), "proxy.test")
    BY <1>2
  <2>1. In(c) \in Seq(Requests)
    BY <1>1, InOut
  <2>2. Keeps(In(c) \o ms, In(c), "proxy.test")
    BY <2>1, KeepsConcat
  <2>3. QED
    BY <1>1, <1>2, <2>2, QueuesAre
<1>6. QED
  BY <1>2, <1>3, <1>4, <1>5, QuietConnStep

LEMMA TargetsAre ==
  ASSUME NEW targets \in Targets
  PROVE  /\ targets \in Seq(Profiles) /\ Len(targets) \in Nat
         /\ DOMAIN targets = 1..Len(targets)
         /\ \A i \in 1..Len(targets) : targets[i] \in Profiles
<1>1. PICK n \in 1..Cardinality(Profiles) : targets \in [1..n -> Profiles]
  BY DEF Targets
<1>2. targets \in Seq(Profiles)
  BY <1>1
<1>3. QED
  BY <1>2, LenProperties, ElementOfSeq

LEMMA StillWithinBound ==
  ASSUME ConnInv, NEW k \in Nat, WithinBound(k)
  PROVE  requests + k \in 0..MaxEvents
<1>1. Cardinality(asked) \in Nat
  BY FS_CardinalityType DEF ConnInv
<1>2. QED
  BY <1>1, AgentBound DEF WithinBound, ConnInv

LEMMA CheckedVpnsStep ==
  ASSUME IInv, NEW targets \in Targets, startCheckedVpns(targets) \/ stopCheckedVpns(targets)
  PROVE  IInv' /\ NothingAdded
<1>1. /\ Len(targets) \in Nat /\ DOMAIN targets = 1..Len(targets)
      /\ \A i \in 1..Len(targets) : targets[i] \in Profiles
  BY TargetsAre
<1>2. ConnInv /\ WithinBound(Len(targets))
  BY DEF IInv, startCheckedVpns, stopCheckedVpns
<1>3. asked' = asked /\ requests' \in 0..MaxEvents
  BY <1>1, <1>2, StillWithinBound DEF startCheckedVpns, stopCheckedVpns
<1>4. CASE startCheckedVpns(targets)
  <2>1. PICK r \in [DOMAIN targets -> StartRequests] :
          Sends([i \in DOMAIN targets |->
                  [type |-> "vpn.start", profile |-> targets[i], request |-> r[i]]])
    BY <1>4 DEF startCheckedVpns
  <2> DEFINE m(i) == [type |-> "vpn.start", profile |-> targets[i], request |-> r[i]]
             ms == [i \in 1..Len(targets) |-> m(i)]
  <2>2. \A i \in 1..Len(targets) : m(i) \in Requests /\ m(i).type # "proxy.test"
    BY <1>1 DEF Requests
  <2>3. Sends(ms)
    BY <1>1, <2>1
  <2> HIDE DEF m
  <2>4. ms \in Seq(Requests)
    BY <1>1, <2>2, IsASeq
  <2>5. \A i \in 1..Len(ms) : ms[i].type # "proxy.test"
    BY <1>1, <2>2, <2>4, LenProperties
  <2>6. QED
    BY <1>3, <2>3, <2>4, <2>5, VpnRequestStep
<1>5. CASE stopCheckedVpns(targets)
  <2> DEFINE m(i) == [type |-> "vpn.stop", profile |-> targets[i]]
             ms == [i \in 1..Len(targets) |-> m(i)]
  <2>1. \A i \in 1..Len(targets) : m(i) \in Requests /\ m(i).type # "proxy.test"
    BY <1>1 DEF Requests
  <2>2. Sends(ms)
    BY <1>1, <1>5 DEF stopCheckedVpns
  <2> HIDE DEF m
  <2>3. ms \in Seq(Requests)
    BY <1>1, <2>1, IsASeq
  <2>4. \A i \in 1..Len(ms) : ms[i].type # "proxy.test"
    BY <1>1, <2>1, <2>3, LenProperties
  <2>5. QED
    BY <1>3, <2>2, <2>3, <2>4, VpnRequestStep
<1>6. QED
  BY <1>4, <1>5
LEMMA TestRequestStep == ASSUME IInv, NEW t \in Tests, sendProxyTestRequest(t) PROVE IInv'
<1> DEFINE m == [type |-> "proxy.test", test |-> t]
           ms == <<m>>
<1>1. VpnInv /\ ConnInv /\ StreamsInv /\ TestInv /\ ReportsInv
  BY DEF IInv
<1>2. /\ Sends(ms) /\ t \notin asked /\ WithinBound(1)
      /\ asked' = asked \cup {t} /\ requests' = requests
  BY DEF sendProxyTestRequest
<1>3. m \in Requests
  BY DEF Requests
<1>4. ms \in Seq(Requests) /\ Len(ms) = 1 /\ ms[1] = m
  <2> HIDE DEF m
  <2>1. QED
    BY <1>3, ShortSeqs
<1> HIDE DEF ms
<1>5. /\ StreamsInv'
      /\ UNCHANGED <<agentUp, faults, conn, peer, old, socket, connected, retry>>
      /\ UNCHANGED <<answers, shown, test>>
      /\ UNCHANGED vpnVars
      /\ socket \in Conns
      /\ \A c \in Conns :
           /\ In(c)' = IF c = socket /\ conn[socket].state # "closed" THEN In(c) \o ms ELSE In(c)
           /\ Out(c)' = Out(c)
  BY <1>1, <1>2, <1>4, SendsIs
<1>6. IsFiniteSet(asked') /\ asked' \subseteq Tests /\ requests' \in 0..MaxEvents
  BY <1>1, <1>2, FS_AddElement DEF ConnInv
<1>7. ConnInv'
  BY <1>1, <1>5, <1>6, ConnUnchanged
<1>8. VpnInv' /\ \A p \in Profiles : HasOpenVpn(p)' = HasOpenVpn(p)
  BY <1>1, <1>5, VpnSame
<1>9. CASE conn[socket].state = "closed"
  <2>1. \A c \in Conns : /\ Keeps(In(c)', In(c), "proxy.test")
                         /\ Out(c)' = Out(c) \/ (Out(c)' = <<>> /\ conn[c].state = "closed")
    BY <1>1, <1>5, <1>9, QueuesAre
  <2>2. asked \subseteq asked'
    BY <1>2
  <2>3. QED
    BY <1>5, <1>7, <1>8, <2>1, <2>2, QuietConnStep
<1>10. CASE conn[socket].state # "closed"
  <2>1. Conns' = Conns /\ Len(conn') = Len(conn) /\ Len(conn) \in Nat
    BY <1>1, <1>5, ConnsAre DEF Conns
  <2>2. TestBase'
    BY <1>1, <1>2, <1>5, <2>1, TestBaseSame DEF TestInv
  <2>3. RequestInv'
    <3>1. \A c \in Conns : /\ In(c) \in Seq(Requests)
                           /\ In(c)' = IF c = socket THEN In(c) \o ms ELSE In(c)
      BY <1>1, <1>5, <1>10, InOut
    <3>2. ms[1] = [type |-> "proxy.test", test |-> t]
      BY <1>4
    <3>3. RequestInv /\ TestBase /\ test' = test
      BY <1>1, <1>5 DEF TestInv
    <3>4. QED
      BY <1>2, <1>4, <1>5, <2>1, <3>1, <3>2, <3>3, RequestAdded
  <2>4. ResultInv'
    <3>1. \A c \in Conns' : c \in Conns /\ Keeps(Out(c)', Out(c), "result")
      BY <1>1, <1>5, <2>1, QueuesAre
    <3>2. \A c \in Conns' : \A i \in DOMAIN Out(c)' :
            IsResult(Out(c)'[i]) =>
              LET u == Out(c)'[i].test IN
              /\ test[u].sent => test'[u].sent /\ test'[u].asker = test[u].asker
              /\ answers'[u] = answers[u]
      BY <1>5
    <3>3. QED
      BY <1>1, <3>1, <3>2, ResultsKept DEF TestInv
  <2>5. ReportsInv'
    <3>1. \A c \in Conns :
            /\ conn'[c].by = conn[c].by
            /\ conn'[c].state = "pending" => conn[c].state = "pending"
            /\ conn'[c].state = "open" => conn[c].state \in {"pending", "open"}
            /\ conn'[c].state # "closed" => Out(c)' = Out(c)
      BY <1>5
    <3>2. \A c \in Conns : conn'[c].state = "open" => \A p \in Profiles : HasOpenVpn(p) => HasOpenVpn(p)'
      BY <1>8
    <3>3. shown' = shown
      BY <1>5
    <3>4. QED
      BY <1>1, <2>1, <3>1, <3>2, <3>3, ReportsQuiet
  <2>6. QED
    BY <1>5, <1>7, <1>8, <2>2, <2>3, <2>4, <2>5 DEF IInv, TestInv
<1>11. QED
  BY <1>9, <1>10

(* The agent says something of an OpenVPN, and nothing else happens but     *)
(* that a request may be read.                                              *)
LEMMA SaidStep ==
  ASSUME IInv, VpnInv', conn' = conn, UNCHANGED <<test, answers, shown, asked, requests>>,
         UNCHANGED <<agentUp, faults, peer, old, socket, connected, retry>>,
         NEW p \in Profiles, NEW said \in Said, toPeer(p, said), SaysRight(p, said),
         AllGood(toAgent', Requests), Len(toAgent') = Len(conn),
         \A c \in Conns : Keeps(In(c)', In(c), "proxy.test")
  PROVE  IInv' /\ NothingAdded
<1> DEFINE ms == RepliesOf(p, said)
<1>1. ConnInv /\ StreamsInv /\ TestInv /\ ReportsInv
  BY DEF IInv
<1>2. /\ ms \in Seq(Replies) /\ \A i \in 1..Len(ms) : ms[i].type # "result"
      /\ \A q : LastIsRunning(ms, q) => q = p /\ said = <<"running">>
      /\ \A q : Silent(ms, q) => q # p \/ said = <<>>
  BY RepliesAre
<1>3. sendTo(peer, ms)
  BY DEF toPeer, RepliesOf
<1> HIDE DEF ms
<1>4. peer \in 0..Len(conn)
  BY <1>1 DEF ConnInv
<1>5. /\ AllGood(toClient', Replies) /\ Len(toClient') = Len(conn)
      /\ \A d \in Conns : Out(d)' = IF d = peer /\ IsOpen(peer) THEN Out(d) \o ms ELSE Out(d)
  BY <1>1, <1>2, <1>3, <1>4, SendTo
<1>6. ConnInv'
  BY <1>1, ConnUnchanged DEF ConnInv
<1>7. Conns' = Conns /\ Len(conn') = Len(conn) /\ Len(conn) \in Nat
  BY <1>1, ConnsAre DEF Conns
<1>8. StreamsInv'
  BY <1>5 DEF StreamsInv, AllGood
<1>9. TestInv' /\ NothingAdded
  <2>1. ASSUME NEW c \in Conns PROVE Keeps(Out(c)', Out(c), "result")
    <3>1. Out(c) \in Seq(Replies)
      BY <1>1, InOut
    <3>2. Keeps(Out(c) \o ms, Out(c), "result")
      BY <1>2, <3>1, KeepsConcat
    <3>3. Keeps(Out(c), Out(c), "result")
      BY <1>1, QueuesAre
    <3>4. QED
      BY <1>5, <3>2, <3>3
  <2>2. /\ \A c \in Conns' : In(c)' = <<>> \/ (c \in Conns /\ Keeps(In(c)', In(c), "proxy.test"))
        /\ \A c \in Conns' : Out(c)' = <<>> \/ (c \in Conns /\ Keeps(Out(c)', Out(c), "result"))
    BY <1>7, <2>1
  <2>3. Len(conn) <= Len(conn')
    BY <1>7
  <2>4. QED
    BY <1>1, <1>6, <2>2, <2>3, TestsQuiet DEF NothingAdded
<1>10. ReportsInv'
  <2>1. \A q \in Profiles : LastIsRunning(ms, q) => HasOpenVpn(q)'
    <3>1. said = <<"running">> => HasOpenVpn(p)'
      BY DEF SaysRight
    <3>2. ASSUME NEW q \in Profiles, LastIsRunning(ms, q) PROVE HasOpenVpn(q)'
      <4>1. q = p /\ said = <<"running">>
        BY <1>2, <3>2
      <4>2. QED
        BY <3>1, <4>1
    <3>3. QED
      BY <3>2
  <2>2. \A q \in Profiles : peer # peer \/ Silent(ms, q) => (HasOpenVpn(q) => HasOpenVpn(q)')
    BY <1>2 DEF SaysRight
  <2>3. QED
    BY <1>1, <1>2, <1>3, <1>4, <2>1, <2>2, ReportsSent
<1>11. QED
  BY <1>6, <1>8, <1>9, <1>10 DEF IInv

LEMMA VpnEventStep ==
  ASSUME IInv, NEW n \in Launches, VpnEvent(n)
  PROVE  IInv' /\ NothingAdded
<1>1. VpnInv /\ ConnInv /\ StreamsInv
  BY DEF IInv
<1>2. PICK said \in Said :
        /\ vpnStarted(n, said) \/ vpnFailedToStart(n, said) \/ vpnFinished(n, said)
        /\ toPeer(launch[n].profile, said)
  BY DEF VpnEvent
<1>3. /\ UNCHANGED <<conn, toAgent, test, answers, shown, requests, asked>>
      /\ UNCHANGED <<agentUp, faults, peer, old, socket, connected, retry>>
  BY DEF VpnEvent, serverVars, clientVars, userVars
<1>4. launch[n].profile \in Profiles
  BY <1>1, LaunchesAre DEF VpnInv
<1>5. VpnInv' /\ SaysRight(launch[n].profile, said)
  BY <1>1, <1>2, VpnStartedOrFailed, VpnFinished, EventSaysRight
<1>6. /\ AllGood(toAgent', Requests) /\ Len(toAgent') = Len(conn)
      /\ \A c \in Conns : Keeps(In(c)', In(c), "proxy.test")
  BY <1>1, <1>3, InsSame, QueuesAre DEF StreamsInv, In
<1>7. QED
  BY <1>2, <1>3, <1>4, <1>5, <1>6, SaidStep
(* A fetch ends, and the result goes to the asker. *)
LEMMA TestEventStep == ASSUME IInv, NEW t \in Tests, NEW k, TestEvent(t, k) PROVE IInv'
<1>1. VpnInv /\ ConnInv /\ StreamsInv /\ TestInv /\ TestBase /\ RequestInv /\ ReportsInv
  BY DEF IInv, TestInv
<1>2. PICK oks \in Oks :
        /\ finished(t, k, oks) \/ timeout(t, k, oks)
        /\ toAsker(t, test[t].asker, oks)
  BY DEF TestEvent
<1>3. /\ UNCHANGED <<conn, toAgent, answers, shown, requests, asked>>
      /\ UNCHANGED <<agentUp, faults, peer, old, socket, connected, retry>>
      /\ UNCHANGED vpnVars
  BY DEF TestEvent, serverVars, clientVars, userVars
<1> DEFINE a == test[t].asker
           ms == ResultsOf(t, oks)
<1>4. test[t] # NoTest /\ TestStep(t, oks) /\ test'[t].asker = a
  BY <1>1, <1>2, <1>3, FetchEnds
<1>5. a \in 0..Len(conn)
  BY <1>1, TestsAre
<1>6. ResultInv'
  BY <1>1, <1>2, <1>3, <1>4, <1>5, ResultsAfterStep
<1> HIDE DEF a
<1>7. TestBase'
  <2>1. TestTypeOK(0..Len(conn))'
    BY <1>4 DEF TestStep
  <2>2. ASSUME NEW u \in Tests
        PROVE  /\ u \notin asked' => test'[u] = NoTest
               /\ ~test'[u].sent => answers'[u] = 0
    <3>1. CASE u = t
      <4>1. t \in asked
        BY <1>1, <1>4 DEF TestBase
      <4>2. ~test'[t].sent => ~test[t].sent
        BY <1>4 DEF TestStep
      <4>3. QED
        BY <1>1, <1>3, <3>1, <4>1, <4>2 DEF TestBase
    <3>2. CASE u # t
      BY <1>1, <1>3, <1>4, <3>2 DEF TestBase, TestStep
    <3>3. QED
      BY <3>1, <3>2
  <2>3. QED
    BY <1>1, <1>3, <2>1, <2>2 DEF TestBase
<1>8. Conns' = Conns /\ \A c \in Conns : In(c)' = In(c)
  BY <1>3 DEF Conns, In
<1>9. RequestInv'
  <2>1. \A c \in Conns' : c \in Conns /\ Keeps(In(c)', In(c), "proxy.test")
    BY <1>1, <1>8, QueuesAre
  <2>2. ASSUME NEW c \in Conns', NEW i \in DOMAIN In(c)', IsRequest(In(c)'[i])
        PROVE  test'[In(c)'[i].test] = test[In(c)'[i].test]
    <3>1. In(c) \in Seq(Requests) /\ In(c)' = In(c)
      BY <1>1, <1>8, InOut
    <3>2. In(c)[i].test \in Tests
      BY <2>2, <3>1, ElementOfSeq, LenProperties DEF Requests, IsRequest
    <3>3. test[In(c)[i].test] = NoTest
      BY <1>1, <1>8, <2>2, <3>1 DEF RequestInv
    <3>4. QED
      BY <1>4, <3>1, <3>2, <3>3 DEF TestStep
  <2>3. QED
    BY <1>1, <1>3, <2>1, <2>2, RequestsKept
<1>10. ms \in Seq(Replies) /\ \A q : ~LastIsRunning(ms, q)
  BY ResultsAre
<1>11. sendTo(a, ms)
  BY <1>2 DEF toAsker, ResultsOf, a
<1> HIDE DEF ms
<1>12. AllGood(toClient', Replies) /\ Len(toClient') = Len(conn)
  BY <1>1, <1>5, <1>10, <1>11, SendTo
<1>13. ConnInv'
  BY <1>1, <1>3, ConnUnchanged DEF ConnInv
<1>14. StreamsInv'
  BY <1>1, <1>3, <1>12 DEF StreamsInv, AllGood
<1>15. VpnInv' /\ \A p \in Profiles : HasOpenVpn(p)' = HasOpenVpn(p)
  BY <1>1, <1>3, VpnSame
<1>16. ReportsInv'
  <2>1. /\ \A p \in Profiles : LastIsRunning(ms, p) => HasOpenVpn(p)'
        /\ \A p \in Profiles : a # peer \/ Silent(ms, p) => (HasOpenVpn(p) => HasOpenVpn(p)')
    BY <1>10, <1>15
  <2>2. conn' = conn /\ shown' = shown
    BY <1>3
  <2>3. QED
    BY <1>1, <1>5, <1>10, <1>11, <2>1, <2>2, ReportsSent
<1>17. QED
  BY <1>6, <1>7, <1>9, <1>13, <1>14, <1>15, <1>16 DEF IInv, TestInv

(* What reading one frame leaves. *)
LEMMA AgentTakes ==
  ASSUME ConnInv, StreamsInv, NEW c \in Conns, HasFrame(toAgent[c]),
         toAgent' = [toAgent EXCEPT ![c] = removeFrame(@)]
  PROVE  /\ AllGood(toAgent', Requests) /\ Len(toAgent') = Len(conn)
         /\ In(c) \in Seq(Requests) /\ In(c) # <<>>
         /\ payload(toAgent[c]) = Head(In(c)) /\ payload(toAgent[c]) \in Requests
         /\ \A d \in Conns : In(d)' = IF d = c THEN Tail(In(c)) ELSE In(d)
<1>1. /\ AllGood(toAgent, Requests) /\ Len(toAgent) = Len(conn) /\ Conns = 1..Len(toAgent)
  BY ConnsAre DEF StreamsInv
<1>2. toAgent' = With(toAgent, c, removeFrame(toAgent[c]))
  BY DEF With
<1> DEFINE S == toAgent
           T == toAgent'
<1>3. /\ AllGood(T, Requests) /\ Len(T) = Len(S)
      /\ Waiting(S[c]) \in Seq(Requests) /\ Waiting(S[c]) # <<>>
      /\ payload(S[c]) = Head(Waiting(S[c]))
      /\ Waiting(T[c]) = Tail(Waiting(S[c]))
      /\ \A d \in 1..Len(S) : d # c => T[d] = S[d]
  <2>1. /\ AllGood(S, Requests) /\ c \in 1..Len(S) /\ HasFrame(S[c])
        /\ T = With(S, c, removeFrame(S[c]))
    BY <1>1, <1>2
  <2> HIDE DEF S, T
  <2>2. QED
    BY <2>1, TakeFirst
<1>4. Head(In(c)) \in Requests
  BY <1>3, HeadTailProperties DEF In
<1>5. \A d \in Conns : In(d)' = IF d = c THEN Tail(In(c)) ELSE In(d)
  <2>1. ASSUME NEW d \in Conns PROVE In(d)' = IF d = c THEN Tail(In(c)) ELSE In(d)
    <3>1. CASE d = c
      BY <1>3, <3>1 DEF In
    <3>2. CASE d # c
      BY <1>1, <1>3, <3>2 DEF In
    <3>3. QED
      BY <3>1, <3>2
  <2>2. QED
    BY <2>1
<1>6. QED
  BY <1>1, <1>3, <1>4, <1>5 DEF In

LEMMA ConsoleTakes ==
  ASSUME ConnInv, StreamsInv, NEW s \in Conns, s = socket, HasFrame(toClient[socket]),
         toClient' = [toClient EXCEPT ![socket] = removeFrame(@)]
  PROVE  /\ AllGood(toClient', Replies) /\ Len(toClient') = Len(conn)
         /\ Out(s) \in Seq(Replies) /\ Out(s) # <<>>
         /\ payload(toClient[socket]) = Head(Out(s)) /\ payload(toClient[socket]) \in Replies
         /\ Out(s)' = Tail(Out(s))
         /\ \A d \in Conns : d # s => Out(d)' = Out(d)
<1> DEFINE S == toClient
           T == toClient'
<1>1. /\ AllGood(S, Replies) /\ Len(S) = Len(conn) /\ s \in 1..Len(S) /\ HasFrame(S[s])
      /\ T = With(S, s, removeFrame(S[s])) /\ Conns = 1..Len(S)
  BY ConnsAre DEF StreamsInv, With
<1>2. /\ AllGood(T, Replies) /\ Len(T) = Len(S)
      /\ Waiting(S[s]) \in Seq(Replies) /\ Waiting(S[s]) # <<>>
      /\ payload(S[s]) = Head(Waiting(S[s]))
      /\ Waiting(T[s]) = Tail(Waiting(S[s]))
      /\ \A d \in 1..Len(S) : d # s => T[d] = S[d]
  <2> HIDE DEF S, T
  <2>1. QED
    BY <1>1, TakeFirst
<1>3. Head(Waiting(S[s])) \in Replies
  BY <1>2, HeadTailProperties
<1>4. QED
  BY <1>1, <1>2, <1>3 DEF Out

LEMMA VpnMessageStep ==
  ASSUME IInv, NEW c \in Conns, onPeerJson(c), payload(toAgent[c]).type \in {"vpn.start", "vpn.stop"}
  PROVE  IInv' /\ NothingAdded
<1> DEFINE obj == payload(toAgent[c])
<1>1. VpnInv /\ ConnInv /\ StreamsInv
  BY DEF IInv
<1>2. /\ HasFrame(toAgent[c]) /\ toAgent' = [toAgent EXCEPT ![c] = removeFrame(@)]
      /\ UNCHANGED <<conn, answers, shown, requests, asked>>
      /\ UNCHANGED <<agentUp, faults, peer, old, socket, connected, retry>>
  BY DEF onPeerJson, serverVars, clientVars, userVars
<1>3. test' = test /\ \E said \in Said :
        /\ \/ obj.type = "vpn.start" /\ startOpenVpn(obj.profile, obj.request, said)
           \/ obj.type = "vpn.stop" /\ stopOpenVpn(obj.profile, said)
        /\ toPeer(obj.profile, said)
  BY DEF onPeerJson
<1>4. PICK said \in Said :
        /\ \/ obj.type = "vpn.start" /\ startOpenVpn(obj.profile, obj.request, said)
           \/ obj.type = "vpn.stop" /\ stopOpenVpn(obj.profile, said)
        /\ toPeer(obj.profile, said)
  BY <1>3
<1>5. /\ AllGood(toAgent', Requests) /\ Len(toAgent') = Len(conn)
      /\ In(c) \in Seq(Requests) /\ In(c) # <<>> /\ obj \in Requests
      /\ \A d \in Conns : In(d)' = IF d = c THEN Tail(In(c)) ELSE In(d)
  BY <1>1, <1>2, AgentTakes
<1>6. \A d \in Conns : Keeps(In(d)', In(d), "proxy.test")
  <2>1. Keeps(Tail(In(c)), In(c), "proxy.test")
    BY <1>5, KeepsTail
  <2>2. QED
    BY <1>1, <1>5, <2>1, QueuesAre
<1>7. /\ obj.profile \in Profiles
      /\ obj.type = "vpn.start" => obj.request \in StartRequests
  BY <1>5 DEF Requests
<1> HIDE DEF obj
<1>8. VpnInv' /\ SaysRight(obj.profile, said)
  BY <1>1, <1>4, <1>7, VpnStart, VpnStop, StartSaysRight, StopSaysRight
<1>9. QED
  BY <1>2, <1>3, <1>4, <1>5, <1>6, <1>7, <1>8, SaidStep
LEMMA TailPlaces ==
  ASSUME NEW M, NEW w \in Seq(M), w # <<>>
  PROVE  /\ 1 \in DOMAIN w /\ Head(w) = w[1]
         /\ \A i \in DOMAIN Tail(w) : /\ Tail(w)[i] = w[i + 1]
                                      /\ i + 1 \in DOMAIN w /\ i + 1 # 1
         /\ \A j \in DOMAIN w : j # 1 => \E i \in DOMAIN Tail(w) : Tail(w)[i] = w[j]
<1> DEFINE v == Tail(w)
<1>1. /\ v \in Seq(M) /\ Len(v) = Len(w) - 1
      /\ \A i \in 1..Len(v) : v[i] = w[i + 1]
      /\ Head(w) = w[1]
      /\ DOMAIN w = 1..Len(w) /\ Len(w) \in Nat \ {0}
  BY HeadTailProperties, LenProperties, EmptySeq
<1>2. DOMAIN v = 1..(Len(w) - 1)
  BY <1>1, LenProperties
<1> HIDE DEF v
<1>3. \A i \in DOMAIN v : v[i] = w[i + 1] /\ i + 1 \in DOMAIN w /\ i + 1 # 1
  BY <1>1, <1>2
<1>4. 1 \in DOMAIN w
  BY <1>1
<1>5. ASSUME NEW j \in DOMAIN w, j # 1
      PROVE  \E i \in DOMAIN v : v[i] = w[j]
  <2>1. /\ j - 1 \in DOMAIN v /\ j - 1 \in 1..Len(v) /\ (j - 1) + 1 = j
    BY <1>1, <1>2, <1>5
  <2>2. QED
    BY <1>1, <2>1
<1>6. QED
  BY <1>1, <1>3, <1>4, <1>5 DEF v

(* The agent reads the request of a test; it was the only one of that test. *)
LEMMA TestMessageStep ==
  ASSUME IInv, NEW c \in Conns, onPeerJson(c), payload(toAgent[c]).type = "proxy.test"
  PROVE  IInv'
<1> DEFINE t == payload(toAgent[c]).test
<1>1. VpnInv /\ ConnInv /\ StreamsInv /\ TestInv /\ TestBase /\ RequestInv /\ ReportsInv
  BY DEF IInv, TestInv
<1>2. /\ HasFrame(toAgent[c]) /\ toAgent' = [toAgent EXCEPT ![c] = removeFrame(@)]
      /\ UNCHANGED <<conn, answers, shown, requests, asked>>
      /\ UNCHANGED <<agentUp, faults, peer, old, socket, connected, retry>>
  BY DEF onPeerJson, serverVars, clientVars, userVars
<1>3. UNCHANGED vpnVars /\ \E oks \in Oks : start(t, peer, oks) /\ toAsker(t, peer, oks)
  BY DEF onPeerJson
<1>4. PICK oks \in Oks : start(t, peer, oks) /\ toAsker(t, peer, oks)
  BY <1>3
<1>5. /\ AllGood(toAgent', Requests) /\ Len(toAgent') = Len(conn)
      /\ In(c) \in Seq(Requests) /\ In(c) # <<>>
      /\ payload(toAgent[c]) = Head(In(c)) /\ payload(toAgent[c]) \in Requests
      /\ \A d \in Conns : In(d)' = IF d = c THEN Tail(In(c)) ELSE In(d)
  BY <1>1, <1>2, AgentTakes
<1>6. /\ 1 \in DOMAIN In(c) /\ payload(toAgent[c]) = In(c)[1]
      /\ \A i \in DOMAIN Tail(In(c)) : /\ Tail(In(c))[i] = In(c)[i + 1]
                                       /\ i + 1 \in DOMAIN In(c) /\ i + 1 # 1
  BY <1>5, TailPlaces
<1>7. IsRequest(In(c)[1]) /\ In(c)[1].test = t
  BY <1>6 DEF IsRequest
<1>8. t \in Tests
  BY <1>5 DEF Requests
<1> DEFINE ms == ResultsOf(t, oks)
<1> HIDE DEF t
<1>9. /\ t \in asked /\ test[t] = NoTest
      /\ \A d \in Conns : \A j \in DOMAIN In(d) :
           IsRequest(In(d)[j]) /\ In(d)[j].test = t => d = c /\ j = 1
  BY <1>1, <1>6, <1>7 DEF RequestInv
<1>10. TestStep(t, oks) /\ test'[t].asker = peer
  BY <1>1, <1>2, <1>4, <1>8, <1>9, TestStarts
<1>11. peer \in 0..Len(conn)
  BY <1>1 DEF ConnInv
<1>12. ResultInv'
  BY <1>1, <1>2, <1>4, <1>8, <1>10, <1>11, ResultsAfterStep
<1>13. TestBase'
  <2>1. TestTypeOK(0..Len(conn))'
    BY <1>10 DEF TestStep
  <2>2. ASSUME NEW u \in Tests
        PROVE  /\ u \notin asked' => test'[u] = NoTest
               /\ ~test'[u].sent => answers'[u] = 0
    <3>1. CASE u = t
      <4>1. ~test[t].sent
        BY <1>9 DEF NoTest
      <4>2. QED
        BY <1>1, <1>2, <1>8, <1>9, <3>1, <4>1 DEF TestBase
    <3>2. CASE u # t
      BY <1>1, <1>2, <1>10, <3>2 DEF TestBase, TestStep
    <3>3. QED
      BY <3>1, <3>2
  <2>3. QED
    BY <1>1, <1>2, <2>1, <2>2 DEF TestBase
<1>14. RequestInv'
  <2>1. ASSUME NEW d \in Conns, NEW i \in DOMAIN In(d)', IsRequest(In(d)'[i])
        PROVE  In(d)'[i].test \in Tests /\ In(d)'[i].test # t
    <3>1. PICK j \in DOMAIN In(d) : In(d)[j] = In(d)'[i] /\ ~(d = c /\ j = 1)
      BY <1>5, <1>6, <2>1
    <3>2. In(d)[j] \in Requests
      BY <1>1, InOut, ElementOfSeq, LenProperties
    <3>3. In(d)[j].test \in Tests
      BY <2>1, <3>1, <3>2 DEF Requests, IsRequest
    <3>4. QED
      BY <1>9, <2>1, <3>1, <3>3
  <2>2. \A d \in Conns' : d \in Conns /\ Keeps(In(d)', In(d), "proxy.test")
    <3>1. Keeps(Tail(In(c)), In(c), "proxy.test")
      BY <1>5, KeepsTail
    <3>2. Conns' = Conns
      BY <1>2 DEF Conns
    <3>3. QED
      BY <1>1, <1>5, <3>1, <3>2, QueuesAre
  <2>3. \A d \in Conns' : \A i \in DOMAIN In(d)' :
          IsRequest(In(d)'[i]) => test'[In(d)'[i].test] = test[In(d)'[i].test]
    BY <1>10, <2>1, <2>2 DEF TestStep
  <2>4. QED
    BY <1>1, <1>2, <2>2, <2>3, RequestsKept
<1>15. ms \in Seq(Replies) /\ \A q : ~LastIsRunning(ms, q)
  BY <1>8, ResultsAre
<1>16. sendTo(peer, ms)
  BY <1>4 DEF toAsker, ResultsOf
<1> HIDE DEF ms
<1>17. AllGood(toClient', Replies) /\ Len(toClient') = Len(conn)
  BY <1>1, <1>11, <1>15, <1>16, SendTo
<1>18. ConnInv'
  BY <1>1, <1>2, ConnUnchanged DEF ConnInv
<1>19. StreamsInv'
  BY <1>2, <1>5, <1>17 DEF StreamsInv, AllGood
<1>20. VpnInv' /\ \A p \in Profiles : HasOpenVpn(p)' = HasOpenVpn(p)
  BY <1>1, <1>3, VpnSame
<1>21. ReportsInv'
  <2>1. /\ \A p \in Profiles : LastIsRunning(ms, p) => HasOpenVpn(p)'
        /\ \A p \in Profiles : peer # peer \/ Silent(ms, p) => (HasOpenVpn(p) => HasOpenVpn(p)')
    BY <1>15, <1>20
  <2>2. conn' = conn /\ shown' = shown
    BY <1>2
  <2>3. QED
    BY <1>1, <1>11, <1>15, <1>16, <2>1, <2>2, ReportsSent
<1>22. QED
  BY <1>12, <1>13, <1>14, <1>18, <1>19, <1>20, <1>21 DEF IInv, TestInv

(* The console reads a status or a result; the result was the only one of   *)
(* its test.                                                                *)
LEMMA JsonReceivedStep ==
  ASSUME IInv, onJsonReceived
  PROVE  IInv' /\ NothingAdded
<1> DEFINE m == payload(toClient[socket])
<1>1. VpnInv /\ ConnInv /\ StreamsInv /\ TestInv /\ TestBase /\ ResultInv /\ ReportsInv
  BY DEF IInv, TestInv
<1>2. /\ socket # 0 /\ HasFrame(toClient[socket])
      /\ toClient' = [toClient EXCEPT ![socket] = removeFrame(@)]
      /\ UNCHANGED <<conn, toAgent, requests, asked, test>>
      /\ UNCHANGED <<agentUp, faults, peer, old, socket, connected, retry>>
      /\ UNCHANGED vpnVars
      /\ \/ /\ m.type = "vpn.status"
            /\ shown' = [shown EXCEPT ![m.profile] = m.status] /\ answers' = answers
         \/ /\ m.type = "result"
            /\ answers' = [answers EXCEPT ![m.test] = @ + 1] /\ shown' = shown
  BY DEF onJsonReceived, ConsoleIdle, serverVars, clientVars
<1> HIDE DEF m
<1>3. PICK s \in Conns : s = socket
  BY <1>1, <1>2, ConnsAre DEF ConnInv
<1>4. AllGood(toClient', Replies) /\ Len(toClient') = Len(conn)
  BY <1>1, <1>2, <1>3, ConsoleTakes
<1>5. /\ Out(s) \in Seq(Replies) /\ Out(s) # <<>> /\ m = Head(Out(s))
      /\ m \in Replies
  BY <1>1, <1>2, <1>3, ConsoleTakes DEF m
<1>6. Out(s)' = Tail(Out(s)) /\ \A d \in Conns : d # s => Out(d)' = Out(d)
  BY <1>1, <1>2, <1>3, ConsoleTakes
<1>7. /\ 1 \in DOMAIN Out(s) /\ m = Out(s)[1]
      /\ \A i \in DOMAIN Tail(Out(s)) : /\ Tail(Out(s))[i] = Out(s)[i + 1]
                                        /\ i + 1 \in DOMAIN Out(s) /\ i + 1 # 1
  BY <1>5, TailPlaces
<1>8. StreamsInv'
  BY <1>1, <1>2, <1>4 DEF StreamsInv, AllGood
<1>9. ConnInv'
  BY <1>1, <1>2, ConnUnchanged DEF ConnInv
<1>10. VpnInv'
  BY <1>1, <1>2, VpnSame
<1>11. ReportsInv'
  <2>1. \/ m.type = "vpn.status" /\ shown' = [shown EXCEPT ![m.profile] = m.status]
        \/ m.type # "vpn.status" /\ shown' = shown
    BY <1>2
  <2>2. conn' = conn /\ launch' = launch
    BY <1>2 DEF vpnVars
  <2>3. QED
    BY <1>1, <1>5, <1>6, <2>1, <2>2, ReportsRead
<1>12. Conns' = Conns /\ \A c \in Conns : In(c)' = In(c)
  BY <1>2 DEF Conns, In
<1>13. RequestInv'
  <2>1. \A c \in Conns' : c \in Conns /\ Keeps(In(c)', In(c), "proxy.test")
    BY <1>1, <1>12, QueuesAre
  <2>2. RequestInv /\ test' = test /\ asked \subseteq asked'
    BY <1>1, <1>2 DEF TestInv
  <2>3. QED
    BY <2>1, <2>2, RequestsKept
<1>14. \A c \in Conns' : c \in Conns /\ Keeps(Out(c)', Out(c), "result")
  <2>1. Keeps(Tail(Out(s)), Out(s), "result")
    BY <1>5, KeepsTail
  <2>2. QED
    BY <1>1, <1>6, <1>12, <2>1, QueuesAre
<1>15. NothingAdded
  BY <1>1, <1>12, <1>14, QueuesAre DEF NothingAdded
<1>16. CASE m.type = "vpn.status" /\ answers' = answers
  <2>1. ResultInv'
    BY <1>1, <1>2, <1>14, <1>16, ResultsKept
  <2>2. TestBase'
    BY <1>1, <1>2, <1>16, ConnsAre, TestBaseSame
  <2>3. QED
    BY <1>8, <1>9, <1>10, <1>11, <1>13, <1>15, <2>1, <2>2 DEF IInv, TestInv
<1>17. CASE m.type = "result" /\ answers' = [answers EXCEPT ![m.test] = @ + 1]
  <2> DEFINE t == m.test
  <2>1. t \in Tests
    BY <1>5, <1>17 DEF Replies
  <2>2. IsResult(Out(s)[1]) /\ Out(s)[1].test = t
    BY <1>7, <1>17 DEF IsResult
  <2> HIDE DEF t
  <2>3. /\ test[t].sent /\ answers[t] = 0
        /\ \A d \in Conns : \A j \in DOMAIN Out(d) :
             IsResult(Out(d)[j]) /\ Out(d)[j].test = t => d = s /\ j = 1
    BY <1>1, <1>7, <2>2 DEF ResultInv
  <2>4. /\ answers' \in [Tests -> 0..1] /\ answers'[t] = 1
        /\ \A u \in Tests : u # t => answers'[u] = answers[u]
    <3>1. answers' = [answers EXCEPT ![t] = 1]
      BY <1>1, <1>17, <2>1, <2>3 DEF TestBase, t
    <3>2. QED
      BY <1>1, <2>1, <3>1 DEF TestBase
  <2>5. TestBase'
    <3>1. TestTypeOK(0..Len(conn))'
      BY <1>1, <1>2 DEF TestBase, TestTypeOK
    <3>2. \A u \in Tests : /\ u \notin asked' => test'[u] = NoTest
                           /\ ~test'[u].sent => answers'[u] = 0
      BY <1>1, <1>2, <2>3, <2>4 DEF TestBase
    <3>3. QED
      BY <2>4, <3>1, <3>2 DEF TestBase
  <2>6. ASSUME NEW d \in Conns, NEW i \in DOMAIN Out(d)', IsResult(Out(d)'[i])
        PROVE  Out(d)'[i].test \in Tests /\ Out(d)'[i].test # t
    <3>1. PICK j \in DOMAIN Out(d) : Out(d)[j] = Out(d)'[i] /\ ~(d = s /\ j = 1)
      BY <1>6, <1>7, <2>6
    <3>2. Out(d)[j] \in Replies
      BY <1>1, InOut, ElementOfSeq, LenProperties
    <3>3. Out(d)[j].test \in Tests
      BY <2>6, <3>1, <3>2 DEF Replies, IsResult
    <3>4. QED
      BY <2>3, <2>6, <3>1, <3>3
  <2>7. \A d \in Conns' : \A i \in DOMAIN Out(d)' :
          IsResult(Out(d)'[i]) =>
            LET u == Out(d)'[i].test IN
            /\ test[u].sent => test'[u].sent /\ test'[u].asker = test[u].asker
            /\ answers'[u] = answers[u]
    BY <1>2, <1>12, <2>4, <2>6
  <2>8. ResultInv'
    BY <1>1, <1>14, <2>7, ResultsKept
  <2>9. QED
    BY <1>8, <1>9, <1>10, <1>11, <1>13, <1>15, <2>5, <2>8 DEF IInv, TestInv
<1>18. QED
  BY <1>2, <1>16, <1>17
LEMMA InitInv == Init => IInv
<1> SUFFICES ASSUME Init PROVE IInv
  OBVIOUS
<1>1. /\ conn = <<>> /\ toAgent = <<>> /\ toClient = <<>> /\ launch = <<>>
      /\ agentUp = FALSE /\ faults = 0 /\ peer = 0 /\ old = {}
      /\ socket = 0 /\ connected = FALSE /\ retry = FALSE /\ requests = 0 /\ asked = {}
      /\ answers = [t \in Tests |-> 0]
      /\ shown = [p \in Profiles |-> "stopped"]
      /\ test = [t \in Tests |-> NoTest]
  BY DEF Init, TestInit, VpnInit
<1>2. /\ vpnProcess = [p \in Profiles |-> 0] /\ vpnFile = [p \in Profiles |-> 0]
      /\ files = {} /\ stopTimer = {}
  BY DEF Init, VpnInit
<1>3. Conns = {} /\ Len(conn) = 0 /\ Launches = {}
  BY <1>1, ShortSeqs DEF Conns, Launches
<1>4. VpnInv
  <2>1. VpnTypeOK
    BY <1>1, <1>2, <1>3, ShortSeqs DEF VpnTypeOK
  <2>2. OneOpenVpn /\ PasswordFiles
    BY <1>2, <1>3 DEF OneOpenVpn, PasswordFiles
  <2>3. VpnTables /\ \A n \in files : launch[n].state # "ended"
    BY <1>2 DEF VpnTables
  <2>4. QED
    BY <2>1, <2>2, <2>3 DEF VpnInv
<1>5. StreamsInv
  BY <1>1, ShortSeqs DEF StreamsInv, AllGood
<1>6. ConnInv
  <2>1. IsFiniteSet(asked) /\ asked \subseteq Tests
    BY <1>1, FS_EmptySet
  <2>2. conn \in Seq([by : {"console", "other"}, state : {"pending", "open", "closed"}])
    BY <1>1, ShortSeqs
  <2>3. /\ agentUp \in BOOLEAN /\ connected \in BOOLEAN /\ retry \in BOOLEAN
        /\ faults \in 0..MaxEvents /\ requests \in 0..MaxEvents
    <3>1. 0 \in 0..MaxEvents
      BY AgentBound
    <3>2. faults \in 0..MaxEvents /\ requests \in 0..MaxEvents
      BY <1>1, <3>1, Zenon
    <3>3. agentUp \in BOOLEAN /\ connected \in BOOLEAN /\ retry \in BOOLEAN
      BY <1>1, Zenon
    <3>4. QED
      BY <3>2, <3>3
  <2>4. peer \in 0..Len(conn) /\ socket \in 0..Len(conn)
    BY <1>1, <1>3
  <2>5. /\ \A c \in old : c \in Conns /\ c < Len(conn)
        /\ \A c \in Conns : /\ conn[c].state = "pending" => peer < c
                            /\ conn[c].state = "open" => c = peer \/ c \in old
    BY <1>1, <1>3
  <2>6. /\ socket # 0 => conn[socket].by = "console"
        /\ connected => socket # 0
        /\ ~connected => Doomed
        /\ ~connected => socket = 0 \/ conn[socket].state = "closed"
        /\ retry => ~connected
    BY <1>1 DEF Doomed
  <2>7. Len(conn) <= 1 + 2 * faults /\ Len(conn) <= 2 * faults
    BY <1>1, <1>3
  <2>8. QED
    BY <2>1, <2>2, <2>3, <2>4, <2>5, <2>6, <2>7 DEF ConnInv
<1>7. TestInv
  <2>1. NoTest \in TestRecords(0..Len(conn))
    <3>1. 0 \in 0..Urls /\ {} \in SUBSET (1..Urls) /\ 0 \in 0..Len(conn)
      BY <1>3, UrlsAssumption
    <3>2. QED
      BY <3>1 DEF TestRecords, NoTest
  <2>2. TestTypeOK(0..Len(conn))
    BY <1>1, <2>1 DEF TestTypeOK, TestRecords
  <2>3. TestBase
    BY <1>1, <2>2 DEF TestBase
  <2>4. RequestInv /\ ResultInv
    BY <1>3 DEF RequestInv, ResultInv
  <2>5. QED
    BY <2>3, <2>4 DEF TestInv
<1>8. ReportsInv
  BY <1>1, <1>3 DEF ReportsInv, Statuses
<1>9. QED
  BY <1>4, <1>5, <1>6, <1>7, <1>8 DEF IInv

LEMMA StutterStep == ASSUME IInv, UNCHANGED vars PROVE IInv'
<1>1. VpnInv /\ ConnInv /\ StreamsInv
  BY DEF IInv
<1>2. /\ UNCHANGED <<conn, toAgent, toClient, test, answers, shown, requests, asked>>
      /\ UNCHANGED <<agentUp, faults, peer, old, socket, connected, retry>>
      /\ UNCHANGED vpnVars
  BY DEF vars, serverVars, clientVars, userVars, wires
<1>3. ConnInv'
  BY <1>1, <1>2, ConnUnchanged DEF ConnInv
<1>4. VpnInv' /\ \A p \in Profiles : HasOpenVpn(p)' = HasOpenVpn(p)
  BY <1>1, <1>2, VpnSame
<1>5. StreamsInv' /\ \A c \in Conns : In(c)' = In(c) /\ Out(c)' = Out(c)
  BY <1>1, <1>2, InsSame, OutsSame DEF StreamsInv
<1>6. \A c \in Conns : Keeps(In(c)', In(c), "proxy.test")
  BY <1>1, <1>5, QueuesAre
<1>7. QED
  BY <1>2, <1>3, <1>4, <1>5, <1>6, QuietConnStep

LEMMA NextInv == IInv /\ [Next]_vars => IInv'
<1> SUFFICES ASSUME IInv, [Next]_vars PROVE IInv'
  OBVIOUS
<1>1. CASE onNewConnection
  BY <1>1, NewConnectionStep
<1>2. CASE deletePeers
  BY <1>2, DeletePeersStep
<1>3. CASE agentDies
  BY <1>3, AgentDiesStep
<1>4. CASE startAgent
  BY <1>4, StartAgentStep
<1>5. CASE tryConnectOnce \/ otherConnects
  BY <1>5, ConnectStep
<1>6. CASE onDisconnected
  BY <1>6, DisconnectedStep
<1>7. CASE consoleReads
  BY <1>7, ConsoleReadsStep
<1>8. CASE onJsonReceived
  BY <1>8, JsonReceivedStep
<1>9. ASSUME NEW c \in Conns, agentReads(c) PROVE IInv'
  BY <1>9, AgentReadsStep
<1>10. ASSUME NEW c \in Conns, onPeerJson(c) PROVE IInv'
  <2>1. payload(toAgent[c]).type \in {"vpn.start", "vpn.stop"} \/ payload(toAgent[c]).type = "proxy.test"
    BY <1>10 DEF onPeerJson
  <2>2. QED
    BY <1>10, <2>1, VpnMessageStep, TestMessageStep
<1>11. ASSUME NEW c \in Conns, otherLeaves(c) PROVE IInv'
  BY <1>11, OtherLeavesStep
<1>12. ASSUME NEW n \in Launches, VpnEvent(n) PROVE IInv'
  BY <1>12, VpnEventStep
<1>13. ASSUME NEW n \in Launches, StopTimer(n) PROVE IInv'
  BY <1>13, StopTimerStep
<1>14. ASSUME NEW t \in Tests, sendProxyTestRequest(t) PROVE IInv'
  BY <1>14, TestRequestStep
<1>15. ASSUME NEW t \in Tests, NEW k \in 1..Urls, TestEvent(t, k) PROVE IInv'
  BY <1>15, TestEventStep
<1>16. ASSUME NEW targets \in Targets, startCheckedVpns(targets) \/ stopCheckedVpns(targets)
       PROVE  IInv'
  BY <1>16, CheckedVpnsStep
<1>17. CASE UNCHANGED vars
  BY <1>17, StutterStep
<1>18. QED
  BY <1>1, <1>2, <1>3, <1>4, <1>5, <1>6, <1>7, <1>8, <1>9, <1>10, <1>11, <1>12, <1>13,
     <1>14, <1>15, <1>16, <1>17 DEF Next

(* The inductive invariant holds in every reachable state. *)
THEOREM Invariance == Spec => []IInv
BY InitInv, NextInv, PTL DEF Spec

-----------------------------------------------------------------------------
(* What follows from it                                                    *)

(* Connections, queues and tables have their types, and there are no more   *)
(* connections than faults account for.                                     *)
THEOREM TypeCorrect == Spec => []TypeOK
<1>1. IInv => TypeOK
  <2> SUFFICES ASSUME IInv PROVE TypeOK
    OBVIOUS
  <2>1. ConnInv /\ StreamsInv /\ TestBase /\ ReportsInv /\ VpnTypeOK
    BY DEF IInv, TestInv, VpnInv
  <2>2. Len(conn) <= MaxConns
    <3>1. Len(conn) \in Nat /\ Len(conn) <= 1 + 2 * faults /\ faults \in 0..MaxEvents
      BY <2>1, ConnsAre DEF ConnInv
    <3>2. QED
      BY <3>1, AgentBound DEF MaxConns
  <2>3. answers \in [Tests -> Nat]
    BY <2>1 DEF TestBase
  <2>4. old \subseteq Conns
    BY <2>1 DEF ConnInv
  <2>5. /\ toAgent \in Seq(Streams(Requests)) /\ Len(toAgent) = Len(conn)
        /\ toClient \in Seq(Streams(Replies)) /\ Len(toClient) = Len(conn)
    BY <2>1 DEF StreamsInv, AllGood
  <2>6. shown \in [Profiles -> Statuses] /\ TestTypeOK(0..Len(conn))
    BY <2>1 DEF ReportsInv, TestBase
  <2>7. QED
    BY <2>1, <2>2, <2>3, <2>4, <2>5, <2>6 DEF TypeOK, ConnInv
<1>2. QED
  BY <1>1, Invariance, PTL

(* OpenVpnManager.cpp:81: a profile has at most one OpenVPN process of this *)
(* agent, and the table points to it.                                       *)
THEOREM OneOpenVpnPerProfile == Spec => []OneOpenVpn
<1>1. IInv => OneOpenVpn
  BY DEF IInv, VpnInv
<1>2. QED
  BY <1>1, Invariance, PTL

(* OpenVpnManager.cpp:106, 155: a process that may still read its password  *)
(* file finds it, and no file is left but of a launch that never ran or of  *)
(* an agent that died.                                                      *)
THEOREM PasswordFilesKept == Spec => []PasswordFiles
<1>1. IInv => PasswordFiles
  BY DEF IInv, VpnInv
<1>2. QED
  BY <1>1, Invariance, PTL

(* FramedJsonSocket.cpp:58-82: however the bytes are cut, no frame is torn. *)
THEOREM NoTornFrames == Spec => []FramesWhole
<1>1. IInv => FramesWhole
  BY ConnsAre DEF IInv, FramesWhole, StreamsInv, AllGood
<1>2. QED
  BY <1>1, Invariance, PTL

(* IpcServer.cpp:212, 223: a result is only on its way to the connection    *)
(* that was the peer when its request was read.                             *)
THEOREM ResultsGoToAsker == Spec => []ResultToAsker
<1>1. IInv => ResultToAsker
  BY DEF IInv, TestInv, ResultInv, ResultToAsker, IsResult, Out
<1>2. QED
  BY <1>1, Invariance, PTL

(* AppController.cpp:336, OpenVpnManager.cpp:82, 153: over its first        *)
(* connection the console shows no profile as running that has no process.  *)
THEOREM ShownRunningIsRunning == Spec => []RunningIsRunning
<1>1. IInv => RunningIsRunning
  <2> SUFFICES ASSUME IInv, NEW p \in Profiles,
                      Conns = {1}, conn[1] = [by |-> "console", state |-> "open"],
                      toClient[1] = NewStream, shown[p] = "running"
               PROVE  HasOpenVpn(p)
    BY DEF RunningIsRunning, HasOpenVpn
  <2>1. ConnInv /\ ReportsInv
    BY DEF IInv
  <2>2. Len(conn) = 1
    <3>1. Conns = 1..Len(conn) /\ Len(conn) \in Nat
      BY <2>1, ConnsAre
    <3> DEFINE n == Len(conn)
    <3>2. n \in Nat /\ 1..n = {1}
      BY <3>1
    <3> HIDE DEF n
    <3>3. 1 \in 1..n
      BY <3>2
    <3>4. 1 <= n
      BY <3>2, <3>3
    <3>5. n \in 1..n
      BY <3>2, <3>4
    <3>6. n = 1
      BY <3>2, <3>5
    <3>7. QED
      BY <3>6 DEF n
  <2>3. Out(1) = <<>>
    BY StreamNew DEF Out
  <2>4. Believed(Out(1), p, shown[p])
    BY <2>3, ShortSeqs DEF Believed, Silent
  <2>5. QED
    BY <2>1, <2>2, <2>4 DEF ReportsInv
<1>2. QED
  BY <1>1, Invariance, PTL

(* OpenVpnManager.cpp:185: a kill hits only the launch whose own stop was   *)
(* asked for, never one started since.                                      *)
THEOREM KillsOnlyWhatWasStopped == Spec => KillsOnlyStopped
<1>1. IInv /\ [Next]_vars =>
        [\A n \in Launches :
           launch'[n].state = "killed" /\ launch[n].state # "killed" => n \in stopTimer]_vpnVars
  <2> SUFFICES ASSUME IInv, [Next]_vars, NEW n \in Launches,
                      launch'[n].state = "killed", launch[n].state # "killed"
               PROVE  n \in stopTimer
    OBVIOUS
  <2>1. VpnInv
    BY DEF IInv
  <2>2. ConnInv /\ StreamsInv
    BY DEF IInv
  <2>3. \/ UNCHANGED vpnVars
        \/ \E p \in Profiles, r \in StartRequests, said \in Said : startOpenVpn(p, r, said)
        \/ \E p \in Profiles, said \in Said : stopOpenVpn(p, said)
        \/ \E m \in Launches, said \in Said :
             vpnStarted(m, said) \/ vpnFailedToStart(m, said) \/ vpnFinished(m, said)
        \/ \E m \in Launches : stopTimeout(m)
        \/ abandonOpenVpn
    <3>1. ASSUME NEW c \in Conns, onPeerJson(c), payload(toAgent[c]).type \in {"vpn.start", "vpn.stop"}
          PROVE  \/ \E p \in Profiles, r \in StartRequests, said \in Said : startOpenVpn(p, r, said)
                 \/ \E p \in Profiles, said \in Said : stopOpenVpn(p, said)
      <4> DEFINE obj == payload(toAgent[c])
      <4>1. obj \in Requests
        BY <2>2, <3>1, AgentTakes DEF onPeerJson
      <4>2. /\ obj.profile \in Profiles
            /\ obj.type = "vpn.start" => obj.request \in StartRequests
        BY <3>1, <4>1 DEF Requests
      <4>3. \E said \in Said :
              \/ obj.type = "vpn.start" /\ startOpenVpn(obj.profile, obj.request, said)
              \/ obj.type = "vpn.stop" /\ stopOpenVpn(obj.profile, said)
        BY <3>1 DEF onPeerJson
      <4> HIDE DEF obj
      <4>4. QED
        BY <4>2, <4>3
    <3>2. ASSUME NEW c \in Conns, onPeerJson(c), payload(toAgent[c]).type = "proxy.test"
          PROVE  UNCHANGED vpnVars
      BY <3>2 DEF onPeerJson
    <3>3. ASSUME NEW c \in Conns, onPeerJson(c)
          PROVE  payload(toAgent[c]).type \in {"vpn.start", "vpn.stop"} \/ payload(toAgent[c]).type = "proxy.test"
      BY <3>3 DEF onPeerJson
    <3>4. ASSUME NEW m \in Launches, VpnEvent(m)
          PROVE  \E said \in Said :
                   vpnStarted(m, said) \/ vpnFailedToStart(m, said) \/ vpnFinished(m, said)
      BY <3>4 DEF VpnEvent
    <3>5. ASSUME NEW m \in Launches, StopTimer(m) PROVE stopTimeout(m)
      BY <3>5 DEF StopTimer
    <3>6. agentDies => abandonOpenVpn
      BY DEF agentDies
    <3>7. /\ onNewConnection \/ deletePeers \/ startAgent \/ tryConnectOnce \/ onDisconnected
             \/ consoleReads \/ onJsonReceived \/ otherConnects => UNCHANGED vpnVars
          /\ \A c \in Conns : agentReads(c) \/ otherLeaves(c) => UNCHANGED vpnVars
          /\ \A t \in Tests, k \in 1..Urls : TestEvent(t, k) => UNCHANGED vpnVars
          /\ \A t \in Tests : sendProxyTestRequest(t) => UNCHANGED vpnVars
          /\ \A targets \in Targets :
               startCheckedVpns(targets) \/ stopCheckedVpns(targets) => UNCHANGED vpnVars
          /\ UNCHANGED vars => UNCHANGED vpnVars
      BY DEF onNewConnection, deletePeers, startAgent, tryConnectOnce, onDisconnected,
             consoleReads, onJsonReceived, otherConnects, agentReads, otherLeaves, TestEvent,
             sendProxyTestRequest, startCheckedVpns, stopCheckedVpns, Sends, vars
    <3>8. QED
      BY <3>1, <3>2, <3>3, <3>4, <3>5, <3>6, <3>7 DEF Next
  <2>4. QED
    BY <2>1, <2>3, KillStep
<1>2. QED
  BY <1>1, Invariance, PTL DEF Spec, KillsOnlyStopped

-----------------------------------------------------------------------------
(* The tests of proxies, as ProxyTestCall has them: all but that they       *)
(* settle in the end.                                                       *)

(* An asker was the peer, so its connection is one the agent has taken.     *)
AskerInv == \A t \in Tests : test[t].asker # 0 => conn[test[t].asker].state # "pending"

CallStep == Call!CallNext \/ UNCHANGED [t \in Tests |-> CallState(t)]

Request(t) == [type |-> "proxy.test", test |-> t]

(* The three places of OnItsWay. *)
Asks(t)    == \E c \in Conns : \E i \in DOMAIN In(c) : In(c)[i] = Request(t)
Runs(t)    == Running(t) /\ test[t].asker = socket /\ IsOpen(socket)
Returns(t) == \E c \in Conns : /\ c = socket
                               /\ \E ok \in BOOLEAN : \E i \in DOMAIN Out(c) : Out(c)[i] = Result(t, ok)

LEMMA WayIs ==
  ASSUME ConnInv, NEW t \in Tests
  PROVE  OnItsWay(t) <=> Asks(t) \/ Runs(t) \/ Returns(t)
<1>1. Conns = 1..Len(conn) /\ socket \in 0..Len(conn) /\ Len(conn) \in Nat
  BY ConnsAre DEF ConnInv
<1>2. socket # 0 <=> \E c \in Conns : c = socket
  BY <1>1
<1>3. QED
  BY <1>2 DEF OnItsWay, Asks, Runs, Returns, In, Out, Request

LEMMA WayIsNext ==
  ASSUME ConnInv', NEW t \in Tests
  PROVE  OnItsWay(t)' <=> Asks(t)' \/ Runs(t)' \/ Returns(t)'
<1>1. Conns' = 1..Len(conn') /\ socket' \in 0..Len(conn') /\ Len(conn') \in Nat
  BY LenProperties DEF ConnInv, Conns
<1>2. socket' # 0 <=> \E c \in Conns' : c = socket'
  BY <1>1
<1>3. QED
  BY <1>2 DEF OnItsWay, Asks, Runs, Returns, In, Out, Request

(* Where nothing is asked and nothing answered, tests can only be lost.     *)
LEMMA OnlyLost ==
  ASSUME TestBase, asked' = asked, answers' = answers,
         \A t \in Tests : OnItsWay(t)' => OnItsWay(t)
  PROVE  CallStep
<1> DEFINE lost == {t \in Tests : CallState(t) = "asked" /\ CallState(t)' = "lost"}
<1>1. \A t \in Tests : answers[t] \in 0..1
  BY DEF TestBase
<1>2. ASSUME NEW t \in Tests, t \notin lost PROVE CallState(t)' = CallState(t)
  BY <1>1, <1>2 DEF CallState
<1>3. CASE lost = {}
  BY <1>2, <1>3 DEF CallStep
<1>4. CASE lost # {}
  <2>1. lost \in (SUBSET Tests) \ {{}}
    BY <1>4
  <2>2. \A t \in lost : [u \in Tests |-> CallState(u)][t] = "asked"
    OBVIOUS
  <2>3. [u \in Tests |-> CallState(u)]' =
          [t \in Tests |-> IF t \in lost THEN "lost" ELSE [u \in Tests |-> CallState(u)][t]]
    BY <1>2
  <2>4. Call!Lose(lost)
    BY <2>2, <2>3 DEF Call!Lose
  <2>5. QED
    BY <2>1, <2>4 DEF CallStep, Call!CallNext
<1>5. QED
  BY <1>3, <1>4

(* One test is asked for, or answered. *)
LEMMA OneMoves ==
  ASSUME NEW t \in Tests, \A u \in Tests : u # t => CallState(u)' = CallState(u),
         \/ CallState(t) = "idle" /\ CallState(t)' \in {"asked", "lost"}
         \/ CallState(t) = "asked" /\ CallState(t)' = "answered"
  PROVE  CallStep
<1>1. [u \in Tests |-> CallState(u)]' = [[u \in Tests |-> CallState(u)] EXCEPT ![t] = CallState(t)']
  OBVIOUS
<1>2. [u \in Tests |-> CallState(u)][t] = CallState(t)
  OBVIOUS
<1>3. Call!Ask(t) \/ Call!Answer(t)
  BY <1>1, <1>2 DEF Call!Ask, Call!Answer
<1>4. QED
  BY <1>3 DEF CallStep, Call!CallNext

(* No message is added, the connections only close, and the tests run on.   *)
LEMMA NothingArrives ==
  ASSUME ConnInv, ConnInv', TestBase, AskerInv, NothingAdded, asked' = asked, answers' = answers,
         socket' = socket \/ socket' \notin Conns,
         \A t \in Tests : Running(t)' => test'[t] = test[t],
         \A c \in Conns : conn'[c].state = "open" => conn[c].state # "closed"
  PROVE  CallStep
<1>1. ASSUME NEW t \in Tests, Asks(t)' PROVE Asks(t)
  <2>1. PICK c \in Conns' : \E i \in DOMAIN In(c)' : In(c)'[i] = Request(t)
    BY <1>1 DEF Asks, Request
  <2>2. PICK i \in DOMAIN In(c)' : In(c)'[i] = Request(t)
    BY <2>1
  <2>3. c \in Conns /\ Keeps(In(c)', In(c), "proxy.test")
    <3>1. In(c)' # <<>>
      BY <2>2, ShortSeqs
    <3>2. QED
      BY <3>1 DEF NothingAdded
  <2>4. In(c)'[i].type = "proxy.test"
    BY <2>2 DEF Request
  <2>5. \E j \in DOMAIN In(c) : In(c)[j] = Request(t)
    BY <2>2, <2>3, <2>4 DEF Keeps
  <2>6. QED
    BY <2>3, <2>5 DEF Asks
<1>2. ASSUME NEW t \in Tests, Returns(t)' PROVE Returns(t)
  <2>1. PICK c \in Conns' : /\ c = socket'
                            /\ \E ok \in BOOLEAN : \E i \in DOMAIN Out(c)' : Out(c)'[i] = Result(t, ok)
    BY <1>2 DEF Returns, Result
  <2>2. PICK ok \in BOOLEAN : \E i \in DOMAIN Out(c)' : Out(c)'[i] = Result(t, ok)
    BY <2>1
  <2>3. PICK i \in DOMAIN Out(c)' : Out(c)'[i] = Result(t, ok)
    BY <2>2
  <2>4. c \in Conns /\ Keeps(Out(c)', Out(c), "result")
    <3>1. Out(c)' # <<>>
      BY <2>3, ShortSeqs
    <3>2. QED
      BY <3>1 DEF NothingAdded
  <2>5. Out(c)'[i].type = "result"
    BY <2>3 DEF Result
  <2>6. \E j \in DOMAIN Out(c) : Out(c)[j] = Result(t, ok)
    BY <2>3, <2>4, <2>5 DEF Keeps
  <2>7. c = socket
    BY <2>1, <2>4
  <2>8. QED
    BY <2>4, <2>6, <2>7 DEF Returns
<1>3. ASSUME NEW t \in Tests, Runs(t)' PROVE Runs(t)
  <2>1. /\ Running(t)' /\ test'[t].asker = socket' /\ socket' # 0 /\ conn'[socket'].state = "open"
    BY <1>3 DEF Runs, IsOpen
  <2>2. test'[t] = test[t]
    BY <2>1
  <2>3. Running(t) /\ test[t].asker = socket' /\ test[t].asker \in Conns
    BY <2>1, <2>2, TestsAre, ConnsAre DEF Running
  <2>4. socket' = socket
    BY <2>3
  <2>5. PICK s \in Conns : s = socket
    BY <2>3, <2>4
  <2>6. conn[s].state # "pending" /\ conn[s].state # "closed"
    <3>1. conn'[s].state = "open" /\ test[t].asker = s /\ test[t].asker # 0
      BY <2>1, <2>3, <2>4, <2>5
    <3>2. QED
      BY <3>1 DEF AskerInv
  <2>7. conn[s].state \in {"pending", "open", "closed"}
    BY ConnRecordsAre
  <2>8. QED
    BY <2>1, <2>3, <2>4, <2>5, <2>6, <2>7 DEF Runs, IsOpen
<1>4. \A t \in Tests : OnItsWay(t)' => OnItsWay(t)
  BY <1>1, <1>2, <1>3, WayIs, WayIsNext
<1>5. QED
  BY <1>4, OnlyLost

(* Askers are told once, and taken connections stay taken. *)
LEMMA AskersKept ==
  ASSUME ConnInv, TestBase, AskerInv,
         \A t \in Tests : \/ test'[t].asker = test[t].asker
                          \/ test'[t].asker = peer /\ conn' = conn,
         \A c \in Conns : conn'[c].state = "pending" => conn[c].state = "pending"
  PROVE  AskerInv'
<1> SUFFICES ASSUME NEW t \in Tests, test'[t].asker # 0
             PROVE  conn'[test'[t].asker].state # "pending"
  BY DEF AskerInv
<1>1. CASE test'[t].asker = test[t].asker
  <2>1. PICK c \in Conns : c = test[t].asker
    BY <1>1, TestsAre, ConnsAre
  <2>2. conn[c].state # "pending"
    BY <1>1, <2>1 DEF AskerInv
  <2>3. QED
    BY <1>1, <2>1, <2>2
<1>2. CASE test'[t].asker = peer /\ conn' = conn
  <2>1. PICK c \in Conns : c = peer
    BY <1>2, ConnsAre DEF ConnInv
  <2>2. conn[c].state = "pending" => peer < c
    BY DEF ConnInv
  <2>3. QED
    BY <1>2, <2>1, <2>2, ConnsAre
<1>3. QED
  BY <1>1, <1>2

(* The steps after which no message is on its way that was not before.      *)
LEMMA QuietCalls ==
  ASSUME IInv, IInv', AskerInv, NothingAdded, UNCHANGED <<asked, answers>>,
         \/ test' = test
         \/ \A t \in Tests : test'[t].asker = test[t].asker /\ ~Running(t)',
         socket' = socket \/ socket' \notin Conns,
         \A c \in Conns : /\ conn'[c].state = "pending" => conn[c].state = "pending"
                          /\ conn'[c].state = "open" => conn[c].state # "closed"
  PROVE  AskerInv' /\ CallStep
<1>1. ConnInv /\ ConnInv' /\ TestBase
  BY DEF IInv, TestInv
<1>2. \A t \in Tests : test'[t].asker = test[t].asker /\ (Running(t)' => test'[t] = test[t])
  OBVIOUS
<1>3. AskerInv'
  BY <1>1, <1>2, AskersKept
<1>4. CallStep
  BY <1>1, <1>2, NothingArrives
<1>5. QED
  BY <1>3, <1>4

LEMMA ServerCalls ==
  ASSUME IInv, IInv', AskerInv, NothingAdded,
         \/ onNewConnection \/ deletePeers \/ agentDies \/ startAgent
         \/ \E c \in Conns : agentReads(c) \/ otherLeaves(c)
  PROVE  AskerInv' /\ CallStep
<1>1. ConnInv /\ TestInv /\ TestBase
  BY DEF IInv, TestInv
<1>2. socket' = socket /\ UNCHANGED <<asked, answers>>
  BY DEF onNewConnection, deletePeers, agentDies, startAgent, agentReads, otherLeaves,
         clientVars, userVars
<1>3. CASE onNewConnection
  <2>1. \A c \in Conns : conn'[c].state = IF conn[c].state = "pending" THEN "open" ELSE conn[c].state
    BY <1>1, <1>3, ConnNewConnection
  <2>2. test' = test
    BY <1>3 DEF onNewConnection
  <2>3. QED
    BY <1>2, <2>1, <2>2, QuietCalls
<1>4. CASE deletePeers
  <2>1. \A c \in Conns : conn'[c].state = IF c \in old THEN "closed" ELSE conn[c].state
    BY <1>1, <1>4, ConnDeletePeers
  <2>2. test' = test
    BY <1>4 DEF deletePeers
  <2>3. QED
    BY <1>2, <2>1, <2>2, QuietCalls
<1>5. CASE agentDies
  <2>1. \A c \in Conns : conn'[c].state = "closed"
    BY <1>1, <1>5, ConnAgentDies
  <2>2. ASSUME NEW t \in Tests
        PROVE  test'[t].asker = test[t].asker /\ ~Running(t)'
    <3>1. test'[t] = IF test[t].asker = 0 THEN test[t]
                     ELSE [test[t] EXCEPT !.flying = {}, !.sent = TRUE]
      BY <1>5 DEF agentDies, abandonTests
    <3>2. test[t] \in TestRecords(0..Len(conn))
      BY <1>1, TestsAre
    <3>3. test'[t].asker = test[t].asker /\ (test[t].asker # 0 => test'[t].sent)
      BY <3>1, <3>2 DEF TestRecords
    <3>4. QED
      BY <3>3 DEF Running
  <2>3. QED
    BY <1>2, <2>1, <2>2, QuietCalls
<1>6. CASE startAgent
  <2>1. conn' = conn /\ test' = test
    BY <1>6 DEF startAgent
  <2>2. QED
    BY <1>2, <2>1, QuietCalls
<1>7. ASSUME NEW c \in Conns, agentReads(c) PROVE AskerInv' /\ CallStep
  <2>1. conn' = conn /\ test' = test
    BY <1>7 DEF agentReads
  <2>2. QED
    BY <1>2, <2>1, QuietCalls
<1>8. ASSUME NEW c \in Conns, otherLeaves(c) PROVE AskerInv' /\ CallStep
  <2>1. \A d \in Conns : conn'[d].state = IF d = c THEN "closed" ELSE conn[d].state
    BY <1>1, <1>8, ConnOtherLeaves
  <2>2. test' = test
    BY <1>8 DEF otherLeaves
  <2>3. QED
    BY <1>2, <2>1, <2>2, QuietCalls
<1>9. QED
  BY <1>3, <1>4, <1>5, <1>6, <1>7, <1>8

LEMMA ClientCalls ==
  ASSUME IInv, IInv', AskerInv, NothingAdded,
         tryConnectOnce \/ otherConnects \/ onDisconnected \/ consoleReads
  PROVE  AskerInv' /\ CallStep
<1>1. ConnInv /\ StreamsInv
  BY DEF IInv
<1>2. test' = test /\ UNCHANGED <<asked, answers>>
  BY DEF tryConnectOnce, otherConnects, onDisconnected, consoleReads, userVars
<1>3. Len(conn) + 1 \notin Conns
  BY <1>1, ConnsAre
<1>4. CASE tryConnectOnce \/ otherConnects
  <2>1. PICK by \in {"console", "other"} : newConnection(by)
    BY <1>4 DEF tryConnectOnce, attachSocket, otherConnects
  <2>2. \A c \in Conns : conn'[c] = conn[c]
    BY <1>1, <2>1, NewConnection
  <2>3. socket' = socket \/ socket' = Len(conn) + 1
    BY <1>4 DEF tryConnectOnce, attachSocket, otherConnects, clientVars
  <2>4. QED
    BY <1>2, <1>3, <2>2, <2>3, QuietCalls
<1>5. CASE onDisconnected
  <2>1. CASE conn' = Append(conn, [by |-> "console", state |-> "pending"]) /\ socket' = Len(conn) + 1
    <3>1. \A c \in Conns : conn'[c] = conn[c]
      BY <1>1, <2>1, ConnAppended
    <3>2. QED
      BY <1>2, <1>3, <2>1, <3>1, QuietCalls
  <2>2. CASE conn' = conn /\ socket' = socket
    BY <1>2, <2>2, QuietCalls
  <2>3. QED
    BY <1>5, <2>1, <2>2 DEF onDisconnected
<1>6. CASE consoleReads
  <2>1. conn' = conn /\ socket' = socket
    BY <1>6 DEF consoleReads, clientVars
  <2>2. QED
    BY <1>2, <2>1, QuietCalls
<1>7. QED
  BY <1>4, <1>5, <1>6

LEMMA VpnCalls ==
  ASSUME IInv, IInv', AskerInv, NothingAdded,
         \/ \E n \in Launches : VpnEvent(n) \/ StopTimer(n)
         \/ \E targets \in Targets : startCheckedVpns(targets) \/ stopCheckedVpns(targets)
         \/ \E c \in Conns : onPeerJson(c) /\ payload(toAgent[c]).type \in {"vpn.start", "vpn.stop"}
  PROVE  AskerInv' /\ CallStep
<1>1. /\ conn' = conn /\ test' = test /\ socket' = socket
      /\ asked' = asked /\ answers' = answers
  <2>1. CASE \E n \in Launches : VpnEvent(n) \/ StopTimer(n)
    BY <2>1 DEF VpnEvent, StopTimer, clientVars, userVars
  <2>2. CASE \E targets \in Targets : startCheckedVpns(targets) \/ stopCheckedVpns(targets)
    BY <2>2 DEF startCheckedVpns, stopCheckedVpns, Sends, clientVars
  <2>3. CASE \E c \in Conns : onPeerJson(c) /\ payload(toAgent[c]).type \in {"vpn.start", "vpn.stop"}
    BY <2>3 DEF onPeerJson, clientVars, userVars
  <2>4. QED
    BY <2>1, <2>2, <2>3
<1>2. QED
  BY <1>1, QuietCalls

(* A result that is new comes from the test that gave it.                   *)
LEMMA NewResult ==
  ASSUME ConnInv, StreamsInv, conn' = conn, socket' = socket,
         NEW t \in Tests, NEW oks \in Oks, NEW a \in 0..Len(conn), toAsker(t, a, oks),
         NEW u \in Tests, Returns(u)'
  PROVE  Returns(u) \/ (u = t /\ oks # <<>> /\ a = socket /\ IsOpen(a))
<1> DEFINE ms == ResultsOf(t, oks)
<1>1. Conns' = Conns
  BY DEF Conns
<1>2. PICK c \in Conns : /\ c = socket
                         /\ \E ok \in BOOLEAN : \E i \in DOMAIN Out(c)' : Out(c)'[i] = Result(u, ok)
  BY <1>1 DEF Returns, Result
<1>3. PICK ok \in BOOLEAN : \E i \in DOMAIN Out(c)' : Out(c)'[i] = Result(u, ok)
  BY <1>2
<1>4. PICK i \in DOMAIN Out(c)' : Out(c)'[i] = Result(u, ok)
  BY <1>3
<1>5. /\ ms \in Seq(Replies) /\ Len(ms) = IF oks = <<>> THEN 0 ELSE 1
      /\ oks # <<>> => ms[1].type = "result" /\ ms[1].test = t
  BY ResultsAre
<1>6. sendTo(a, ms)
  BY DEF toAsker, ResultsOf
<1> HIDE DEF ms
<1>7. Out(c)' = (IF c = a /\ IsOpen(a) THEN Out(c) \o ms ELSE Out(c)) /\ Out(c) \in Seq(Replies)
  BY <1>5, <1>6, SendTo, InOut
<1>8. CASE Out(c)' = Out(c)
  BY <1>2, <1>4, <1>8 DEF Returns
<1>9. CASE c = a /\ IsOpen(a) /\ oks # <<>> /\ Out(c)' = Out(c) \o ms
  <2>1. \/ i \in DOMAIN Out(c) /\ Out(c)'[i] = Out(c)[i]
        \/ Out(c)'[i] = ms[1]
    BY <1>4, <1>5, <1>7, <1>9, AppendOne
  <2>2. CASE i \in DOMAIN Out(c) /\ Out(c)'[i] = Out(c)[i]
    BY <1>2, <1>4, <2>2 DEF Returns
  <2>3. CASE Out(c)'[i] = ms[1]
    <3>1. Result(u, ok).test = t
      BY <1>4, <1>5, <1>9, <2>3
    <3>2. QED
      BY <1>2, <1>9, <3>1 DEF Result
  <2>4. QED
    BY <2>1, <2>2, <2>3
<1>10. QED
  <2>1. oks = <<>> => ms = <<>>
    BY <1>5, EmptySeq
  <2>2. ms = <<>> => Out(c) \o ms = Out(c)
    BY <1>7, ConcatEmptySeq
  <2>3. QED
    BY <1>7, <1>8, <1>9, <2>1, <2>2

(* A fetch ends: its test was run, and is run on or has given its result.   *)
LEMMA TestEventCalls ==
  ASSUME IInv, IInv', AskerInv, NEW t \in Tests, NEW k, TestEvent(t, k)
  PROVE  AskerInv' /\ CallStep
<1>1. ConnInv /\ ConnInv' /\ StreamsInv /\ TestInv /\ TestBase
  BY DEF IInv, TestInv
<1>2. PICK oks \in Oks :
        /\ finished(t, k, oks) \/ timeout(t, k, oks)
        /\ toAsker(t, test[t].asker, oks)
  BY DEF TestEvent
<1>3. /\ conn' = conn /\ toAgent' = toAgent /\ socket' = socket
      /\ asked' = asked /\ answers' = answers
  BY DEF TestEvent, clientVars, userVars
<1>4. TestStep(t, oks) /\ test'[t].asker = test[t].asker
  BY <1>1, <1>2, <1>3, FetchEnds
<1>5. \A u \in Tests : u # t => test'[u] = test[u]
  BY <1>4 DEF TestStep
<1>6. AskerInv'
  BY <1>1, <1>3, <1>4, <1>5, AskersKept
<1>7. ASSUME NEW u \in Tests, Asks(u)' PROVE Asks(u)
  BY <1>3, <1>7 DEF Asks, In, Conns, Request
<1>8. ASSUME NEW u \in Tests, Runs(u)' PROVE Runs(u)
  <2>1. Running(u)' /\ test'[u].asker = socket /\ IsOpen(socket)
    BY <1>3, <1>8 DEF Runs, IsOpen
  <2>2. Running(u) /\ test[u].asker = socket
    <3>1. CASE u = t
      BY <1>1, <1>4, <2>1, <3>1 DEF Running, TestStep
    <3>2. CASE u # t
      BY <1>5, <2>1, <3>2 DEF Running
    <3>3. QED
      BY <3>1, <3>2
  <2>3. QED
    BY <2>1, <2>2 DEF Runs
<1>9. ASSUME NEW u \in Tests, Returns(u)' PROVE Returns(u) \/ Runs(u)
  <2>1. test[t].asker \in 0..Len(conn)
    BY <1>1, TestsAre
  <2>2. \/ Returns(u)
        \/ u = t /\ oks # <<>> /\ test[t].asker = socket /\ IsOpen(test[t].asker)
    BY <1>1, <1>2, <1>3, <1>9, <2>1, NewResult
  <2>3. oks # <<>> => ~test[t].sent
    BY <1>4 DEF TestStep
  <2>4. QED
    BY <2>2, <2>3 DEF Runs, Running, IsOpen
<1>10. \A u \in Tests : OnItsWay(u)' => OnItsWay(u)
  BY <1>1, <1>7, <1>8, <1>9, WayIs, WayIsNext
<1>11. QED
  BY <1>1, <1>3, <1>6, <1>10, OnlyLost

(* The agent reads a request, whose test runs from now on or is refused.    *)
LEMMA TestMessageCalls ==
  ASSUME IInv, IInv', AskerInv, NEW c \in Conns, onPeerJson(c),
         payload(toAgent[c]).type = "proxy.test"
  PROVE  AskerInv' /\ CallStep
<1> DEFINE t == payload(toAgent[c]).test
<1>1. ConnInv /\ ConnInv' /\ StreamsInv /\ TestInv /\ TestBase /\ RequestInv
  BY DEF IInv, TestInv
<1>2. /\ HasFrame(toAgent[c]) /\ toAgent' = [toAgent EXCEPT ![c] = removeFrame(@)]
      /\ conn' = conn /\ socket' = socket /\ asked' = asked /\ answers' = answers
  BY DEF onPeerJson, clientVars, userVars
<1>3. PICK oks \in Oks : start(t, peer, oks) /\ toAsker(t, peer, oks)
  BY DEF onPeerJson
<1>4. /\ In(c) \in Seq(Requests) /\ In(c) # <<>>
      /\ payload(toAgent[c]) = Head(In(c)) /\ payload(toAgent[c]) \in Requests
      /\ \A d \in Conns : In(d)' = IF d = c THEN Tail(In(c)) ELSE In(d)
  BY <1>1, <1>2, AgentTakes
<1>5. /\ 1 \in DOMAIN In(c) /\ payload(toAgent[c]) = In(c)[1]
      /\ \A i \in DOMAIN Tail(In(c)) : Tail(In(c))[i] = In(c)[i + 1] /\ i + 1 \in DOMAIN In(c)
  BY <1>4, TailPlaces
<1>6. t \in Tests /\ payload(toAgent[c]) = Request(t)
  BY <1>4 DEF Requests, Request
<1>7. Asks(t)
  BY <1>5, <1>6 DEF Asks
<1>8. test[t] = NoTest
  <2>1. IsRequest(In(c)[1]) /\ In(c)[1].test = t
    BY <1>5 DEF IsRequest
  <2>2. QED
    BY <1>1, <1>5, <2>1 DEF RequestInv
<1> HIDE DEF t
<1>9. TestStep(t, oks) /\ test'[t].asker = peer
  BY <1>1, <1>2, <1>3, <1>6, <1>8, TestStarts
<1>10. \A u \in Tests : u # t => test'[u] = test[u]
  BY <1>9 DEF TestStep
<1>11. AskerInv'
  BY <1>1, <1>2, <1>9, <1>10, AskersKept
<1>12. ASSUME NEW u \in Tests, Asks(u)' PROVE Asks(u)
  <2>1. PICK d \in Conns : \E i \in DOMAIN In(d)' : In(d)'[i] = Request(u)
    BY <1>2, <1>12 DEF Asks, Request, Conns
  <2>2. \E j \in DOMAIN In(d) : In(d)[j] = Request(u)
    BY <1>4, <1>5, <2>1
  <2>3. QED
    BY <2>2 DEF Asks
<1>13. ASSUME NEW u \in Tests, Runs(u)' PROVE Runs(u) \/ u = t
  <2>1. Running(u)' /\ test'[u].asker = socket /\ IsOpen(socket)
    BY <1>2, <1>13 DEF Runs, IsOpen
  <2>2. u # t => Running(u) /\ test[u].asker = socket
    BY <1>10, <2>1 DEF Running
  <2>3. QED
    BY <2>1, <2>2 DEF Runs
<1>14. ASSUME NEW u \in Tests, Returns(u)' PROVE Returns(u) \/ u = t
  <2>1. peer \in 0..Len(conn)
    BY <1>1 DEF ConnInv
  <2>2. QED
    BY <1>1, <1>2, <1>3, <1>6, <1>14, <2>1, NewResult
<1>15. \A u \in Tests : OnItsWay(u)' => OnItsWay(u)
  BY <1>1, <1>7, <1>12, <1>13, <1>14, WayIs, WayIsNext
<1>16. QED
  BY <1>1, <1>2, <1>11, <1>15, OnlyLost

(* The console reads the result of a test it was still waiting for.         *)
LEMMA JsonReceivedCalls ==
  ASSUME IInv, IInv', AskerInv, NothingAdded, onJsonReceived
  PROVE  AskerInv' /\ CallStep
<1> DEFINE m == payload(toClient[socket])
<1>1. ConnInv /\ ConnInv' /\ StreamsInv /\ TestBase /\ ResultInv
  BY DEF IInv, TestInv
<1>2. /\ socket # 0 /\ HasFrame(toClient[socket])
      /\ toClient' = [toClient EXCEPT ![socket] = removeFrame(@)]
      /\ conn' = conn /\ toAgent' = toAgent /\ asked' = asked /\ test' = test /\ socket' = socket
      /\ \/ m.type = "vpn.status" /\ answers' = answers
         \/ m.type = "result" /\ answers' = [answers EXCEPT ![m.test] = @ + 1]
  BY DEF onJsonReceived, ConsoleIdle, clientVars
<1> HIDE DEF m
<1>3. CASE m.type = "vpn.status" /\ answers' = answers
  BY <1>2, <1>3, QuietCalls
<1>4. CASE m.type = "result" /\ answers' = [answers EXCEPT ![m.test] = @ + 1]
  <2>1. PICK s \in Conns : s = socket
    BY <1>1, <1>2, ConnsAre DEF ConnInv
  <2>2. /\ Out(s) \in Seq(Replies) /\ Out(s) # <<>> /\ m = Head(Out(s)) /\ m \in Replies
        /\ Out(s)' = Tail(Out(s))
    BY <1>1, <1>2, <2>1, ConsoleTakes DEF m
  <2>3. /\ 1 \in DOMAIN Out(s) /\ m = Out(s)[1]
        /\ \A i \in DOMAIN Tail(Out(s)) : Tail(Out(s))[i] = Out(s)[i + 1] /\ i + 1 \in DOMAIN Out(s)
        /\ \A j \in DOMAIN Out(s) : j # 1 => \E i \in DOMAIN Tail(Out(s)) : Tail(Out(s))[i] = Out(s)[j]
    BY <2>2, TailPlaces
  <2>4. PICK t \in Tests : t = m.test /\ m.ok \in BOOLEAN /\ m = Result(t, m.ok)
    BY <1>4, <2>2 DEF Replies, Result
  <2>5. test[t].sent /\ answers[t] = 0
    <3>1. IsResult(Out(s)[1]) /\ Out(s)[1].test = t
      BY <1>4, <2>3, <2>4 DEF IsResult
    <3>2. QED
      BY <1>1, <2>3, <3>1 DEF ResultInv
  <2>6. t \in asked
    BY <1>1, <2>4, <2>5 DEF TestBase, NoTest
  <2>7. answers' = [answers EXCEPT ![t] = 1] /\ answers \in [Tests -> 0..1]
    BY <1>1, <1>4, <2>4, <2>5 DEF TestBase
  <2>8. Returns(t)
    BY <2>1, <2>3, <2>4 DEF Returns
  <2>9. CallState(t) = "asked"
    BY <1>1, <2>4, <2>5, <2>6, <2>8, WayIs DEF CallState
  <2>10. CallState(t)' = "answered"
    <3>1. t \in asked' /\ answers'[t] = 1
      BY <1>2, <2>6, <2>7
    <3>2. QED
      BY <3>1 DEF CallState
  <2>11. ASSUME NEW u \in Tests, u # t PROVE CallState(u)' = CallState(u)
    <3>1. Asks(u)' <=> Asks(u)
      BY <1>2 DEF Asks, In, Conns, Request
    <3>2. Runs(u)' <=> Runs(u)
      BY <1>2 DEF Runs, Running, IsOpen
    <3>3. ASSUME Returns(u)' PROVE Returns(u)
      <4>1. \E ok \in BOOLEAN : \E i \in DOMAIN Out(s)' : Out(s)'[i] = Result(u, ok)
        BY <1>2, <2>1, <3>3 DEF Returns, Result, Conns
      <4>2. QED
        BY <2>1, <2>2, <2>3, <4>1 DEF Returns
    <3>4. ASSUME Returns(u) PROVE Returns(u)'
      <4>1. PICK ok \in BOOLEAN : \E j \in DOMAIN Out(s) : Out(s)[j] = Result(u, ok)
        BY <2>1, <3>4 DEF Returns
      <4>2. PICK j \in DOMAIN Out(s) : Out(s)[j] = Result(u, ok)
        BY <4>1
      <4>3. j # 1
        BY <2>3, <2>4, <2>11, <4>2 DEF Result
      <4>4. \E i \in DOMAIN Out(s)' : Out(s)'[i] = Result(u, ok)
        BY <2>2, <2>3, <4>2, <4>3
      <4>5. s \in Conns' /\ s = socket'
        BY <1>2, <2>1 DEF Conns
      <4>6. QED
        BY <4>4, <4>5 DEF Returns, Result
    <3>5. OnItsWay(u)' <=> OnItsWay(u)
      BY <1>1, <3>1, <3>2, <3>3, <3>4, WayIs, WayIsNext
    <3>6. answers'[u] = answers[u]
      BY <2>7, <2>11
    <3>7. QED
      BY <1>2, <3>5, <3>6 DEF CallState
  <2>12. CallStep
    BY <2>4, <2>9, <2>10, <2>11, OneMoves
  <2>13. AskerInv'
    BY <1>2 DEF AskerInv
  <2>14. QED
    BY <2>12, <2>13
<1>5. QED
  BY <1>2, <1>3, <1>4

(* The console asks; into a dead connection the request is lost at once.    *)
LEMMA TestRequestCalls ==
  ASSUME IInv, IInv', AskerInv, NEW t \in Tests, sendProxyTestRequest(t)
  PROVE  AskerInv' /\ CallStep
<1> DEFINE ms == <<Request(t)>>
<1>1. ConnInv /\ ConnInv' /\ StreamsInv /\ TestBase
  BY DEF IInv, TestInv
<1>2. Sends(ms) /\ t \notin asked /\ asked' = asked \cup {t}
  BY DEF sendProxyTestRequest, Request
<1>3. ms \in Seq(Requests) /\ Len(ms) = 1 /\ ms[1] = Request(t)
  <2>1. Request(t) \in Requests
    BY DEF Request, Requests
  <2>2. QED
    BY <2>1, ShortSeqs
<1> HIDE DEF ms
<1>4. /\ conn' = conn /\ socket' = socket /\ answers' = answers /\ test' = test
      /\ \A c \in Conns :
           /\ In(c)' = IF c = socket /\ conn[socket].state # "closed" THEN In(c) \o ms ELSE In(c)
           /\ Out(c)' = Out(c)
  BY <1>1, <1>2, <1>3, SendsIs
<1>5. AskerInv'
  BY <1>4 DEF AskerInv
<1>6. CallState(t) = "idle"
  BY <1>2 DEF CallState
<1>7. CallState(t)' \in {"asked", "lost"}
  <2>1. answers[t] = 0
    BY <1>1, <1>2 DEF TestBase, NoTest
  <2>2. t \in asked' /\ answers'[t] = 0
    BY <1>2, <1>4, <2>1
  <2>3. QED
    BY <2>2 DEF CallState
<1>8. ASSUME NEW u \in Tests, u # t PROVE CallState(u)' = CallState(u)
  <2>1. Conns' = Conns
    BY <1>4 DEF Conns
  <2>2. ASSUME Asks(u)' PROVE Asks(u)
    <3>1. PICK c \in Conns : \E i \in DOMAIN In(c)' : In(c)'[i] = Request(u)
      BY <2>1, <2>2 DEF Asks, Request
    <3>2. PICK i \in DOMAIN In(c)' : In(c)'[i] = Request(u)
      BY <3>1
    <3>3. In(c) \in Seq(Requests)
      BY <1>1, InOut
    <3>4. CASE In(c)' = In(c)
      BY <3>2, <3>4 DEF Asks
    <3>5. CASE In(c)' = In(c) \o ms
      <4>1. \/ i \in DOMAIN In(c) /\ In(c)'[i] = In(c)[i]
            \/ In(c)'[i] = ms[1]
        BY <1>3, <3>2, <3>3, <3>5, AppendOne
      <4>2. In(c)'[i] # ms[1]
        BY <1>3, <1>8, <3>2 DEF Request
      <4>3. QED
        BY <3>2, <4>1, <4>2 DEF Asks
    <3>6. QED
      BY <1>4, <3>4, <3>5
  <2>3. ASSUME Asks(u) PROVE Asks(u)'
    <3>1. PICK c \in Conns : \E i \in DOMAIN In(c) : In(c)[i] = Request(u)
      BY <2>3 DEF Asks
    <3>2. PICK i \in DOMAIN In(c) : In(c)[i] = Request(u)
      BY <3>1
    <3>3. In(c) \in Seq(Requests)
      BY <1>1, InOut
    <3>4. i \in DOMAIN (In(c) \o ms) /\ (In(c) \o ms)[i] = In(c)[i]
      BY <1>3, <3>2, <3>3, FirstPlaces
    <3>5. \E j \in DOMAIN In(c)' : In(c)'[j] = Request(u)
      BY <1>4, <3>2, <3>4
    <3>6. QED
      BY <2>1, <3>5 DEF Asks, Request
  <2>4. Runs(u)' <=> Runs(u)
    BY <1>4 DEF Runs, Running, IsOpen
  <2>5. Returns(u)' <=> Returns(u)
    BY <1>4, <2>1 DEF Returns, Result
  <2>6. OnItsWay(u)' <=> OnItsWay(u)
    BY <1>1, <2>2, <2>3, <2>4, <2>5, WayIs, WayIsNext
  <2>7. u \in asked' <=> u \in asked
    BY <1>2, <1>8
  <2>8. QED
    BY <1>4, <2>6, <2>7 DEF CallState
<1>9. QED
  BY <1>5, <1>6, <1>7, <1>8, OneMoves

LEMMA CallsInit == IInv /\ Init => AskerInv /\ Call!CallInit
<1> SUFFICES ASSUME IInv, Init PROVE AskerInv /\ Call!CallInit
  OBVIOUS
<1>1. asked = {} /\ test = [t \in Tests |-> NoTest]
  BY DEF Init, TestInit
<1>2. AskerInv
  BY <1>1 DEF AskerInv, NoTest
<1>3. \A t \in Tests : CallState(t) = "idle"
  BY <1>1 DEF CallState
<1>4. QED
  BY <1>2, <1>3 DEF Call!CallInit

LEMMA CallsNext == IInv /\ IInv' /\ AskerInv /\ [Next]_vars => AskerInv' /\ CallStep
<1> SUFFICES ASSUME IInv, IInv', AskerInv, [Next]_vars PROVE AskerInv' /\ CallStep
  OBVIOUS
<1>1. CASE onNewConnection \/ deletePeers \/ agentDies \/ startAgent
  BY <1>1, NewConnectionStep, DeletePeersStep, AgentDiesStep, StartAgentStep, ServerCalls
<1>2. CASE tryConnectOnce \/ otherConnects \/ onDisconnected \/ consoleReads
  BY <1>2, ConnectStep, DisconnectedStep, ConsoleReadsStep, ClientCalls
<1>3. CASE onJsonReceived
  BY <1>3, JsonReceivedStep, JsonReceivedCalls
<1>4. ASSUME NEW c \in Conns, agentReads(c) \/ otherLeaves(c) PROVE AskerInv' /\ CallStep
  BY <1>4, AgentReadsStep, OtherLeavesStep, ServerCalls
<1>5. ASSUME NEW c \in Conns, onPeerJson(c) PROVE AskerInv' /\ CallStep
  <2>1. \/ payload(toAgent[c]).type \in {"vpn.start", "vpn.stop"}
        \/ payload(toAgent[c]).type = "proxy.test"
    BY <1>5 DEF onPeerJson
  <2>2. QED
    BY <1>5, <2>1, VpnMessageStep, VpnCalls, TestMessageCalls
<1>6. ASSUME NEW n \in Launches, VpnEvent(n) \/ StopTimer(n) PROVE AskerInv' /\ CallStep
  BY <1>6, VpnEventStep, StopTimerStep, VpnCalls
<1>7. ASSUME NEW t \in Tests, sendProxyTestRequest(t) \/ \E k \in 1..Urls : TestEvent(t, k)
      PROVE  AskerInv' /\ CallStep
  BY <1>7, TestRequestCalls, TestEventCalls
<1>8. ASSUME NEW targets \in Targets, startCheckedVpns(targets) \/ stopCheckedVpns(targets)
      PROVE  AskerInv' /\ CallStep
  BY <1>8, CheckedVpnsStep, VpnCalls
<1>9. CASE UNCHANGED vars
  <2>1. UNCHANGED <<conn, toAgent, toClient, socket, asked, answers, test>>
    BY <1>9 DEF vars, wires, clientVars, userVars
  <2>2. AskerInv'
    BY <2>1 DEF AskerInv
  <2>3. \A t \in Tests : OnItsWay(t)' <=> OnItsWay(t)
    BY <2>1 DEF OnItsWay, Running, IsOpen, Conns
  <2>4. \A t \in Tests : CallState(t)' = CallState(t)
    BY <2>1, <2>3 DEF CallState
  <2>5. QED
    BY <2>2, <2>4 DEF CallStep
<1>10. QED
  BY <1>1, <1>2, <1>3, <1>4, <1>5, <1>6, <1>7, <1>8, <1>9 DEF Next

(* IpcServer.cpp:222, ProxyTestRunner.cpp:147, 197: the steps of ProxyTest- *)
(* Call are all that sockets, framing, reconnection and the runner do to a  *)
(* test: it is answered once at most, and what is lost is never answered.   *)
THEOREM CallsAnsweredOnce ==
  Spec => Call!CallInit /\ [][Call!CallNext]_[t \in Tests |-> CallState(t)]
<1>1. IInv /\ Init => AskerInv /\ Call!CallInit
  BY CallsInit
<1>2. IInv /\ IInv' /\ AskerInv /\ [Next]_vars => AskerInv'
  BY CallsNext
<1>3. IInv /\ IInv' /\ AskerInv /\ [Next]_vars => [Call!CallNext]_[t \in Tests |-> CallState(t)]
  BY CallsNext DEF CallStep
<1>4. Spec => []IInv
  BY Invariance
<1>5. Spec => []AskerInv
  BY <1>1, <1>2, <1>4, PTL DEF Spec
<1>6. QED
  BY <1>1, <1>3, <1>4, <1>5, PTL DEF Spec
=============================================================================
