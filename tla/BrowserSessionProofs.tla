------------------------ MODULE BrowserSessionProofs ------------------------
(***************************************************************************)
(* What BrowserSession promises for every set of pages and other targets,  *)
(* every set of launches to consider and every number of polls, by one     *)
(* inductive invariant.  PagesCovered speaks of pages that are done; what  *)
(* makes them so is in the queue of commands before, so that it is         *)
(* strengthened to that queue (Ordered: no load of a page before all the   *)
(* overrides it shall have).  MapperInOrder is strengthened to where the   *)
(* pieces that are read are: written, in the buffer, or neither.           *)
(***************************************************************************)
EXTENDS BrowserSession, SequenceTheorems, TLAPS

-----------------------------------------------------------------------------
(* The inductive invariant.                                                *)

(* The plan leaves nothing of the fingerprint to nobody. *)
Sound(l) ==
  LET left == IF "native_fingerprint" \in l.native THEN {} ELSE l.fields IN
  /\ left \subseteq l.override \cup {"resolution"}
  /\ l.extension => left \subseteq l.injected
  /\ l.geo /\ "native_geoip" \notin l.native => l.overrideGeo

(* What a page must be told before it is loaded. *)
Needed(l) == ToSet(Wanted(l)) \cap Overrides

Loads == {"reload", "navigate"}

(* No load of p in queue q before what p needs and does not have.          *)
Ordered(q, p, has, l) ==
  \A j \in DOMAIN q : q[j][1] = p /\ q[j][2] \in Loads =>
    \A o \in Needed(l) \ has : \E i \in 1..(j - 1) : q[i] = <<p, o>>

(* Nothing is on its way to p or about p. *)
Unknown(p) ==
  /\ \A i \in DOMAIN toClient : toClient[i] # p
  /\ \A i \in DOMAIN toBrowser : toBrowser[i][1] # p

ClientInv ==
  \A p \in Pages :
    /\ page[p].attached => page[p].open /\ Ordered(toBrowser, p, page[p].overrides, launch)
    /\ page[p].open /\ ~page[p].attached => Unknown(p)
    /\ page[p].settled => /\ page[p].attached
                          /\ Needed(launch) \subseteq page[p].overrides \cap page[p].doc

SessionInv ==
  /\ Sound(launch)
  /\ process = "none" =>
       /\ ws = "none" /\ toBrowser = <<>> /\ toClient = <<>> /\ page = [p \in Pages |-> NoPage]
       /\ client = "none"
  /\ polls > 0 => launch.cdp

(* The header is not read, or has been: then the browser's pieces up to    *)
(* read have been written, or wait in the buffer for the upstream.  Until  *)
(* a CONNECT is answered the buffer is for the answer.                      *)
MapperInv ==
  /\ ~parsed => /\ upstream = "none" /\ read \in {0, 1}
                /\ buffer = SubSeq(Sends(kind), 1, read)
                /\ wrote = <<>> /\ answered = 0 /\ ~isConnect /\ ~early
  /\ parsed => upstream # "none" /\ read \in 2..4
  /\ client = "none" => read = 0
  /\ isConnect => kind = "connect" /\ read = 2
  /\ early => kind = "plain"
  /\ IF isConnect
       THEN answered \in {0, 1} /\ buffer = SubSeq(Answers, 1, answered) /\ clientGot = <<>>
       ELSE clientGot = SubSeq(Answers, 1, answered)
  /\ upstream = "connecting" =>
       /\ isConnect <=> kind = "connect"
       /\ answered = 0
       /\ kind = "plain" => buffer \in Seq(ToSet(Sends(kind)))
       /\ ~early => wrote = <<>> /\ (kind = "plain" => buffer = SubSeq(Sends(kind), 3, read))
  /\ upstream = "open" /\ ~early => wrote = SubSeq(Relayed(kind), 1, read - 1)
  /\ ~early => \E n \in 0..3 : wrote = SubSeq(Relayed(kind), 1, n)

IInv == TypeOK /\ SessionInv /\ ClientInv /\ MapperInv

-----------------------------------------------------------------------------
(* Pieces of a connection.                                                 *)

Kinds == {"plain", "connect"}

LEMMA Tuples ==
  ASSUME NEW k \in Kinds
  PROVE  /\ Sends(k) \in Seq(ToSet(Sends(k))) /\ Len(Sends(k)) = 4
         /\ \A i \in 1..4 : Sends(k)[i] = "h2" <=> i = 2
         /\ Answers \in Seq(ToSet(Answers)) /\ Len(Answers) = 3
         /\ \A i \in 1..3 : Answers[i] = "a2" <=> i = 2
         /\ Relayed(k) \in Seq(ToSet(Relayed(k))) /\ Len(Relayed(k)) = 3
         /\ Relayed(k)[1] = IF k = "plain" THEN "header" ELSE "connect"
         /\ Relayed(k)[2] = Sends(k)[3] /\ Relayed(k)[3] = Sends(k)[4]
<1>1. CASE k = "plain"
  BY <1>1 DEF Sends, Answers, Relayed, ToSet
<1>2. CASE k = "connect"
  BY <1>2 DEF Sends, Answers, Relayed, ToSet
<1>3. QED
  BY <1>1, <1>2 DEF Kinds

LEMMA Slices ==
  ASSUME NEW S, NEW s \in Seq(S), NEW a \in 1..(Len(s) + 1), NEW b \in (a - 1)..Len(s)
  PROVE  /\ SubSeq(s, a, b) \in Seq(S)
         /\ Len(SubSeq(s, a, b)) = (b + 1) - a
         /\ DOMAIN SubSeq(s, a, b) = 1..((b + 1) - a)
         /\ \A i \in 1..((b + 1) - a) : SubSeq(s, a, b)[i] = s[(a + i) - 1]
         /\ \A x : x \in ToSet(SubSeq(s, a, b)) <=> \E i \in a..b : s[i] = x
<1>1. Len(s) \in Nat /\ a \in Int /\ b \in Int /\ a >= 1 /\ b <= Len(s) /\ b + 1 >= a
  BY LenProperties
<1>2. \A i \in a..b : s[i] \in S
  BY <1>1, ElementOfSeq
<1>3. /\ SubSeq(s, a, b) \in Seq(S)
      /\ Len(SubSeq(s, a, b)) = IF a <= b THEN b - a + 1 ELSE 0
      /\ \A i \in 1..(b - a + 1) : SubSeq(s, a, b)[i] = s[a + i - 1]
  BY <1>1, <1>2, SubSeqProperties
<1>4. PICK t \in Seq(S) : t = SubSeq(s, a, b)
  BY <1>3
<1>5. Len(t) = (b + 1) - a
  BY <1>1, <1>3, <1>4
<1>6. \A i \in 1..((b + 1) - a) : t[i] = s[(a + i) - 1]
  BY <1>1, <1>3, <1>4
<1>7. DOMAIN t = 1..((b + 1) - a)
  BY <1>5, LenProperties
<1>8. ASSUME NEW x
      PROVE  x \in ToSet(t) <=> \E i \in a..b : s[i] = x
  <2>1. ASSUME x \in ToSet(t)
        PROVE  \E i \in a..b : s[i] = x
    <3>1. PICK j \in 1..((b + 1) - a) : t[j] = x
      BY <1>7, <2>1 DEF ToSet
    <3>2. (a + j) - 1 \in a..b
      BY <1>1, <3>1
    <3>3. QED
      BY <1>6, <3>1, <3>2
  <2>2. ASSUME NEW i \in a..b, s[i] = x
        PROVE  x \in ToSet(t)
    <3>1. (i + 1) - a \in 1..((b + 1) - a) /\ (a + ((i + 1) - a)) - 1 = i
      BY <1>1, <2>2
    <3>2. t[(i + 1) - a] = x
      BY <1>6, <2>2, <3>1
    <3>3. QED
      BY <1>7, <3>1, <3>2 DEF ToSet
  <2>3. QED
    BY <2>1, <2>2
<1>9. QED
  BY <1>4, <1>5, <1>6, <1>7, <1>8

(* What has been read, when n pieces have been. *)
LEMMA ReadOn ==
  ASSUME NEW k \in Kinds, NEW r \in {0, 1}, NEW n \in (r + 1)..4,
         NEW got, got = SubSeq(Sends(k), 1, r) \o SubSeq(Sends(k), r + 1, n)
  PROVE  /\ got = SubSeq(Sends(k), 1, n)
         /\ "h2" \in ToSet(got) <=> n >= 2
         /\ n >= 2 => After(got, "h2") = SubSeq(Sends(k), 3, n)
<1>1. PICK s \in Seq(ToSet(Sends(k))) : s = Sends(k)
  BY Tuples
<1>2. Len(s) = 4 /\ \A i \in 1..4 : s[i] = "h2" <=> i = 2
  BY <1>1, Tuples
<1>3. got = SubSeq(s, 1, n)
  <2>1. 1 \in 1..(Len(s) + 1) /\ r \in (1 - 1)..Len(s) /\ n \in r..Len(s)
    BY <1>2
  <2>2. QED
    BY <1>1, <2>1, ConcatAdjacentSubSeq
<1>4. 1 \in 1..(Len(s) + 1) /\ n \in (1 - 1)..Len(s) /\ (n + 1) - 1 = n
  BY <1>2
<1>5. /\ got \in Seq(ToSet(s)) /\ Len(got) = n /\ DOMAIN got = 1..n
      /\ \A i \in 1..n : got[i] = s[i]
      /\ "h2" \in ToSet(got) <=> \E i \in 1..n : s[i] = "h2"
  <2>1. s \in Seq(ToSet(s))
    BY <1>1
  <2>2. /\ SubSeq(s, 1, n) \in Seq(ToSet(s)) /\ Len(SubSeq(s, 1, n)) = (n + 1) - 1
        /\ DOMAIN SubSeq(s, 1, n) = 1..((n + 1) - 1)
        /\ \A i \in 1..((n + 1) - 1) : SubSeq(s, 1, n)[i] = s[(1 + i) - 1]
        /\ \A x : x \in ToSet(SubSeq(s, 1, n)) <=> \E i \in 1..n : s[i] = x
    BY <1>4, <2>1, Slices
  <2>3. \A i \in 1..n : (1 + i) - 1 = i
    OBVIOUS
  <2>4. "h2" \in ToSet(got) <=> \E i \in 1..n : s[i] = "h2"
    BY <1>3, <2>2
  <2>5. QED
    BY <1>3, <1>4, <2>2, <2>3, <2>4
<1>6. "h2" \in ToSet(got) <=> n >= 2
  BY <1>2, <1>5
<1>7. ASSUME n >= 2
      PROVE  After(got, "h2") = SubSeq(s, 3, n)
  <2>1. PICK c : c = CHOOSE i \in DOMAIN got : got[i] = "h2"
    OBVIOUS
  <2>2. 2 \in DOMAIN got /\ got[2] = "h2"
    <3>1. 2 \in 1..n /\ 2 \in 1..4
      BY <1>7
    <3>2. s[2] = "h2"
      BY <1>2, <3>1
    <3>3. QED
      BY <1>5, <3>1, <3>2
  <2>3. c \in 1..n /\ got[c] = "h2"
    <3>1. \E i \in DOMAIN got : got[i] = "h2"
      BY <2>2
    <3>2. QED
      BY <1>5, <2>1, <3>1
  <2>4. c = 2
    <3>1. s[c] = "h2" /\ c \in 1..4
      BY <1>5, <2>3
    <3>2. QED
      BY <1>2, <3>1
  <2>5. After(got, "h2") = SubSeq(got, 3, n)
    <3>1. After(got, "h2") = SubSeq(got, c + 1, Len(got))
      BY <2>1 DEF After
    <3>2. c + 1 = 3
      BY <2>4
    <3>3. QED
      BY <1>5, <3>1, <3>2
  <2>6. 3 \in 1..(Len(got) + 1) /\ n \in (3 - 1)..Len(got)
    BY <1>5, <1>7
  <2>7. /\ SubSeq(got, 3, n) \in Seq(ToSet(s)) /\ Len(SubSeq(got, 3, n)) = (n + 1) - 3
        /\ \A i \in 1..((n + 1) - 3) : SubSeq(got, 3, n)[i] = got[(3 + i) - 1]
    BY <1>5, <2>6, Slices
  <2>8. 3 \in 1..(Len(s) + 1) /\ n \in (3 - 1)..Len(s)
    BY <1>2, <1>7
  <2>9. /\ SubSeq(s, 3, n) \in Seq(ToSet(s)) /\ Len(SubSeq(s, 3, n)) = (n + 1) - 3
        /\ \A i \in 1..((n + 1) - 3) : SubSeq(s, 3, n)[i] = s[(3 + i) - 1]
    BY <1>1, <2>8, Slices
  <2>10. \A i \in 1..((n + 1) - 3) : SubSeq(got, 3, n)[i] = SubSeq(s, 3, n)[i]
    <3>1. TAKE i \in 1..((n + 1) - 3)
    <3>2. (3 + i) - 1 \in 1..n
      OBVIOUS
    <3>3. QED
      BY <1>5, <2>7, <2>9, <3>2
  <2>11. QED
    BY <2>5, <2>7, <2>9, <2>10, SeqEqual
<1>8. QED
  BY <1>1, <1>3, <1>6, <1>7

(* What may be in the buffer, and what may be written. *)
Data(k) == ToSet(Sends(k)) \cup ToSet(Answers)
Out(k) == ToSet(Relayed(k)) \cup ToSet(Sends(k))

LEMMA SentTypes ==
  ASSUME NEW k \in Kinds, NEW a \in 1..5, NEW b \in (a - 1)..4
  PROVE  /\ SubSeq(Sends(k), a, b) \in Seq(ToSet(Sends(k)))
         /\ SubSeq(Sends(k), a, b) \in Seq(Data(k)) /\ SubSeq(Sends(k), a, b) \in Seq(Out(k))
<1>1. PICK s \in Seq(ToSet(Sends(k))) : s = Sends(k) /\ Len(s) = 4
  BY Tuples
<1>2. a \in 1..(Len(s) + 1) /\ b \in (a - 1)..Len(s)
  BY <1>1
<1>3. SubSeq(s, a, b) \in Seq(ToSet(Sends(k)))
  BY <1>1, <1>2, Slices
<1>4. ToSet(Sends(k)) \subseteq Data(k) /\ ToSet(Sends(k)) \subseteq Out(k)
  BY DEF Data, Out
<1>5. QED
  BY <1>1, <1>3, <1>4, SeqMonotonic

LEMMA AnswerTypes ==
  ASSUME NEW k \in Kinds, NEW a \in 1..4, NEW b \in (a - 1)..3
  PROVE  /\ SubSeq(Answers, a, b) \in Seq(ToSet(Answers)) /\ SubSeq(Answers, a, b) \in Seq(Data(k))
         /\ "a2" \in ToSet(SubSeq(Answers, a, b)) <=> a <= 2 /\ b >= 2
<1>1. PICK s \in Seq(ToSet(Answers)) :
        /\ s = Answers /\ Len(s) = 3
        /\ \A i \in 1..3 : s[i] = "a2" <=> i = 2
  BY Tuples
<1>2. a \in 1..(Len(s) + 1) /\ b \in (a - 1)..Len(s)
  BY <1>1
<1>3. /\ SubSeq(s, a, b) \in Seq(ToSet(Answers))
      /\ \A x : x \in ToSet(SubSeq(s, a, b)) <=> \E i \in a..b : s[i] = x
  <2>1. /\ SubSeq(s, a, b) \in Seq(ToSet(Answers))
        /\ Len(SubSeq(s, a, b)) = (b + 1) - a
        /\ DOMAIN SubSeq(s, a, b) = 1..((b + 1) - a)
        /\ \A i \in 1..((b + 1) - a) : SubSeq(s, a, b)[i] = s[(a + i) - 1]
        /\ \A x : x \in ToSet(SubSeq(s, a, b)) <=> \E i \in a..b : s[i] = x
    BY <1>2, Slices
  <2>2. QED
    BY <2>1
<1>4. ToSet(Answers) \subseteq Data(k)
  BY DEF Data
<1>5. SubSeq(s, a, b) \in Seq(Data(k))
  BY <1>3, <1>4, SeqMonotonic
<1>6. "a2" \in ToSet(SubSeq(s, a, b)) <=> a <= 2 /\ b >= 2
  <2>1. "a2" \in ToSet(SubSeq(s, a, b)) <=> \E i \in a..b : s[i] = "a2"
    BY <1>3
  <2>2. a..b \subseteq 1..3
    OBVIOUS
  <2>3. (\E i \in a..b : s[i] = "a2") <=> 2 \in a..b
    BY <1>1, <2>2
  <2>4. QED
    BY <2>1, <2>3
<1>7. QED
  BY <1>1, <1>3, <1>5, <1>6

LEMMA AnswersOn ==
  ASSUME NEW a \in 0..3, NEW n \in a..3
  PROVE  SubSeq(Answers, 1, a) \o SubSeq(Answers, a + 1, n) = SubSeq(Answers, 1, n)
<1>1. PICK s \in Seq(ToSet(Answers)) : s = Answers /\ Len(s) = 3
  <2>1. "plain" \in Kinds
    BY DEF Kinds
  <2>2. QED
    BY <2>1, Tuples
<1>2. 1 \in 1..(Len(s) + 1) /\ a \in (1 - 1)..Len(s) /\ n \in a..Len(s)
  BY <1>1
<1>3. QED
  BY <1>1, <1>2, ConcatAdjacentSubSeq

(* The browser's pieces after the header are the ones the proxy shall get   *)
(* after the rewritten header.                                              *)
LEMMA SentIsRelayed ==
  ASSUME NEW k \in Kinds, NEW a \in 3..5, NEW b \in (a - 1)..4
  PROVE  SubSeq(Sends(k), a, b) = SubSeq(Relayed(k), a - 1, b - 1)
<1>1. PICK s \in Seq(ToSet(Sends(k))) : s = Sends(k) /\ Len(s) = 4
  BY Tuples
<1>2. PICK t \in Seq(ToSet(Relayed(k))) :
        t = Relayed(k) /\ Len(t) = 3 /\ t[2] = s[3] /\ t[3] = s[4]
  BY <1>1, Tuples
<1>3. /\ ToSet(Sends(k)) \subseteq Out(k) /\ ToSet(Relayed(k)) \subseteq Out(k)
  BY DEF Out
<1>4. s \in Seq(Out(k)) /\ t \in Seq(Out(k))
  BY <1>1, <1>2, <1>3, SeqMonotonic
<1>5. /\ a \in 1..(Len(s) + 1) /\ b \in (a - 1)..Len(s)
      /\ a - 1 \in 1..(Len(t) + 1) /\ b - 1 \in ((a - 1) - 1)..Len(t)
  BY <1>1, <1>2
<1>6. /\ SubSeq(s, a, b) \in Seq(Out(k)) /\ Len(SubSeq(s, a, b)) = (b + 1) - a
      /\ \A i \in 1..((b + 1) - a) : SubSeq(s, a, b)[i] = s[(a + i) - 1]
  BY <1>4, <1>5, Slices
<1>7. /\ SubSeq(t, a - 1, b - 1) \in Seq(Out(k))
      /\ Len(SubSeq(t, a - 1, b - 1)) = ((b - 1) + 1) - (a - 1)
      /\ \A i \in 1..(((b - 1) + 1) - (a - 1)) :
           SubSeq(t, a - 1, b - 1)[i] = t[((a - 1) + i) - 1]
  BY <1>4, <1>5, Slices
<1>8. ((b - 1) + 1) - (a - 1) = (b + 1) - a
  OBVIOUS
<1>9. ASSUME NEW i \in 1..((b + 1) - a)
      PROVE  s[(a + i) - 1] = t[((a - 1) + i) - 1]
  <2>1. (a + i) - 1 \in {3, 4} /\ ((a - 1) + i) - 1 = ((a + i) - 1) - 1
    OBVIOUS
  <2>2. CASE (a + i) - 1 = 3
    BY <1>2, <2>1, <2>2
  <2>3. CASE (a + i) - 1 = 4
    BY <1>2, <2>1, <2>3
  <2>4. QED
    BY <2>1, <2>2, <2>3
<1>10. SubSeq(s, a, b) = SubSeq(t, a - 1, b - 1)
  <2>1. PICK c \in Seq(Out(k)) : c = SubSeq(s, a, b)
    BY <1>6
  <2>2. PICK d \in Seq(Out(k)) : d = SubSeq(t, a - 1, b - 1)
    BY <1>7
  <2>3. Len(c) = (b + 1) - a /\ Len(d) = (b + 1) - a
    BY <1>6, <1>7, <1>8, <2>1, <2>2
  <2>4. \A i \in 1..((b + 1) - a) : c[i] = d[i]
    BY <1>6, <1>7, <1>8, <1>9, <2>1, <2>2
  <2>5. c = d
    BY <2>3, <2>4, SeqEqual
  <2>6. QED
    BY <2>1, <2>2, <2>5
<1>11. QED
  BY <1>1, <1>2, <1>10

LEMMA RelayedOn ==
  ASSUME NEW k \in Kinds, NEW r \in 2..4, NEW n \in r..4
  PROVE  /\ SubSeq(Relayed(k), 1, r - 1) \o SubSeq(Sends(k), r + 1, n) = SubSeq(Relayed(k), 1, n - 1)
         /\ <<Relayed(k)[1]>> \o SubSeq(Sends(k), 3, n) = SubSeq(Relayed(k), 1, n - 1)
         /\ SubSeq(Relayed(k), 1, n - 1) \in Seq(Out(k)) /\ <<Relayed(k)[1]>> \in Seq(Out(k))
         /\ SubSeq(Relayed(k), 1, 0) = <<>> /\ SubSeq(Relayed(k), 1, 1) = <<Relayed(k)[1]>>
<1>1. PICK t \in Seq(ToSet(Relayed(k))) : t = Relayed(k) /\ Len(t) = 3
  BY Tuples
<1>2. t \in Seq(Out(k))
  <2>1. ToSet(Relayed(k)) \subseteq Out(k)
    BY DEF Out
  <2>2. QED
    BY <1>1, <2>1, SeqMonotonic
<1>3. SubSeq(t, 1, r - 1) \o SubSeq(Sends(k), r + 1, n) = SubSeq(t, 1, n - 1)
  <2>1. r + 1 \in 3..5 /\ n \in ((r + 1) - 1)..4
    OBVIOUS
  <2>2. SubSeq(Sends(k), r + 1, n) = SubSeq(t, (r + 1) - 1, n - 1)
    BY <1>1, <2>1, SentIsRelayed
  <2>3. 1 \in 1..(Len(t) + 1) /\ r - 1 \in (1 - 1)..Len(t) /\ n - 1 \in (r - 1)..Len(t)
    BY <1>1
  <2>4. SubSeq(t, 1, r - 1) \o SubSeq(t, (r - 1) + 1, n - 1) = SubSeq(t, 1, n - 1)
    BY <1>2, <2>3, ConcatAdjacentSubSeq
  <2>5. (r - 1) + 1 = (r + 1) - 1
    OBVIOUS
  <2>6. QED
    BY <2>2, <2>4, <2>5
<1>4. SubSeq(t, 1, 0) = <<>>
  BY SubSeqEmpty
<1>5. SubSeq(t, 1, 1) = <<t[1]>>
  <2>1. 1 \in 1..Len(t) /\ 1 \in 1..1 /\ 1 + 1 = 2
    BY <1>1
  <2>2. SubSeq(t, 1, 1) = <<t[1]>> \o SubSeq(t, 2, 1)
    BY <1>2, <2>1, SubSeqRecursiveFirst
  <2>3. SubSeq(t, 2, 1) = <<>>
    BY SubSeqEmpty
  <2>4. t[1] \in Out(k)
    BY <1>2, <2>1, ElementOfSeq
  <2>5. <<t[1]>> \in Seq(Out(k))
    BY <2>4
  <2>6. QED
    BY <2>2, <2>3, <2>5, ConcatEmptySeq
<1>6. <<t[1]>> \o SubSeq(Sends(k), 3, n) = SubSeq(t, 1, n - 1)
  <2>1. 3 \in 3..5 /\ n \in (3 - 1)..4
    OBVIOUS
  <2>2. SubSeq(Sends(k), 3, n) = SubSeq(t, 3 - 1, n - 1)
    BY <1>1, <2>1, SentIsRelayed
  <2>3. 1 \in 1..(Len(t) + 1) /\ 1 \in (1 - 1)..Len(t) /\ n - 1 \in 1..Len(t)
    BY <1>1
  <2>4. SubSeq(t, 1, 1) \o SubSeq(t, 1 + 1, n - 1) = SubSeq(t, 1, n - 1)
    BY <1>2, <2>3, ConcatAdjacentSubSeq
  <2>5. QED
    BY <1>5, <2>2, <2>4
<1>7. SubSeq(t, 1, n - 1) \in Seq(Out(k)) /\ SubSeq(t, 1, 1) \in Seq(Out(k))
  <2>1. /\ 1 \in 1..(Len(t) + 1) /\ n - 1 \in (1 - 1)..Len(t) /\ 1 \in (1 - 1)..Len(t)
    BY <1>1
  <2>2. QED
    BY <1>2, <2>1, Slices
<1>8. QED
  BY <1>1, <1>3, <1>4, <1>5, <1>6, <1>7

(* What MapperInOrder asks for. *)
LEMMA SliceIsPrefix ==
  ASSUME NEW S, NEW s \in Seq(S), NEW n \in 0..Len(s)
  PROVE  IsPrefix(SubSeq(s, 1, n), s)
<1>1. 1 \in 1..(Len(s) + 1) /\ n \in (1 - 1)..Len(s) /\ (n + 1) - 1 = n /\ n <= Len(s)
  BY LenProperties
<1>2. SubSeq(s, 1, n) \in Seq(S) /\ Len(SubSeq(s, 1, n)) = (n + 1) - 1
  BY <1>1, Slices
<1>3. PICK t \in Seq(S) : t = SubSeq(s, 1, n) /\ Len(t) = n
  BY <1>1, <1>2
<1>4. SubSeq(t, 1, Len(t)) = t
  BY SubSeqFull
<1>5. QED
  BY <1>1, <1>3, <1>4 DEF IsPrefix

-----------------------------------------------------------------------------
(* Steps of the proxy mapper.                                              *)

MapperIInv == MapperTypeOK /\ MapperInv

(* The other end of a connection, and nothing else, changes. *)
LEMMA ConnectionStep ==
  ASSUME MapperIInv,
         UNCHANGED <<kind, read, parsed, isConnect, buffer, wrote, answered, clientGot, early>>,
         client' \in {"none", "open", "closed"}, client' = "none" => client = "none",
         upstream' \in {upstream, "failed", "closed"}, upstream = "none" => upstream' = "none"
  PROVE  MapperIInv'
<1>1. MapperTypeOK'
  BY DEF MapperIInv, MapperTypeOK
<1>2. MapperInv'
  <2>1. upstream' \in {"open", "connecting"} => upstream' = upstream
    OBVIOUS
  <2>2. upstream' = "none" => upstream = "none"
    OBVIOUS
  <2>3. QED
    BY <2>1, <2>2 DEF MapperIInv, MapperInv
<1>3. QED
  BY <1>1, <1>2 DEF MapperIInv

LEMMA OpenStep ==
  ASSUME MapperIInv, NEW k \in Kinds, onNewConnection(k)
  PROVE  MapperIInv'
<1>1. /\ client = "none" /\ client' = "open" /\ kind' = k
      /\ UNCHANGED <<read, parsed, isConnect, buffer, upstream, wrote, answered, clientGot, early>>
  BY DEF onNewConnection
<1>2. read = 0 /\ ~parsed
  BY <1>1 DEF MapperIInv, MapperInv
<1>3. /\ upstream = "none" /\ wrote = <<>> /\ answered = 0 /\ ~isConnect /\ ~early
      /\ buffer = SubSeq(Sends(kind), 1, 0) /\ clientGot = SubSeq(Answers, 1, 0)
  BY <1>2 DEF MapperIInv, MapperInv
<1>4. buffer = SubSeq(Sends(k), 1, 0) /\ buffer = <<>> /\ clientGot = <<>>
  BY <1>3, SubSeqEmpty
<1>5. wrote = SubSeq(Relayed(k), 1, 0)
  BY <1>3, SubSeqEmpty
<1>6. MapperTypeOK'
  <2>1. \A S : <<>> \in Seq(S)
    BY EmptySeq
  <2>2. QED
    BY <1>1, <1>2, <1>3, <1>4, <2>1 DEF MapperIInv, MapperTypeOK, Kinds
<1>7. MapperInv'
  <2>1. 0 \in 0..3 /\ 0 \in {0, 1}
    OBVIOUS
  <2>2. QED
    BY <1>1, <1>2, <1>3, <1>4, <1>5, <2>1 DEF MapperInv
<1>8. QED
  BY <1>6, <1>7 DEF MapperIInv

(* Before the header is complete, and when it becomes so. *)
LEMMA HeaderStep ==
  ASSUME MapperIInv, NEW n \in 1..4, onClientReadyRead(n), ~parsed
  PROVE  MapperIInv'
<1>1. /\ client = "open" /\ read' = n /\ n > read /\ n <= Readable
      /\ readUntilHeadersComplete(n)
      /\ UNCHANGED <<wrote, early, kind, client, answered, clientGot>>
  BY DEF onClientReadyRead
<1>2. /\ upstream = "none" /\ read \in {0, 1}
      /\ buffer = SubSeq(Sends(kind), 1, read)
      /\ wrote = <<>> /\ answered = 0 /\ ~isConnect /\ ~early
      /\ clientGot = SubSeq(Answers, 1, answered)
  BY DEF MapperIInv, MapperInv
<1>3. kind \in Kinds /\ read \in 0..4 /\ parsed = FALSE /\ isConnect = FALSE /\ early = FALSE
  BY <1>2 DEF MapperIInv, MapperTypeOK, Kinds
<1>4. clientGot = <<>>
  BY <1>2, SubSeqEmpty
<1>5. Readable = IF kind = "connect" THEN 2 ELSE 4
  <2>1. "a2" \notin ToSet(clientGot)
    BY <1>4 DEF ToSet
  <2>2. QED
    BY <2>1 DEF Readable
<1>6. n \in (read + 1)..4
  <2>1. Readable \in {2, 4}
    BY <1>5
  <2>2. QED
    BY <1>1, <1>2, <2>1
<1>7. PICK got : got = buffer \o SubSeq(Sends(kind), read + 1, n)
  OBVIOUS
<1>8. /\ got = SubSeq(Sends(kind), 1, n)
      /\ "h2" \in ToSet(got) <=> n >= 2
      /\ n >= 2 => After(got, "h2") = SubSeq(Sends(kind), 3, n)
  BY <1>2, <1>3, <1>6, <1>7, ReadOn
<1>9. \A S : <<>> \in Seq(S)
  BY EmptySeq
<1>10. UNCHANGED <<wrote, early, kind, client, answered, clientGot>> /\ read' = n
  BY <1>1
<1>11. /\ client' # "none" /\ client' \in {"none", "open", "closed"}
       /\ wrote' \in Seq(ToSet(Relayed(kind)) \cup ToSet(Sends(kind)))
       /\ answered' \in 0..Len(Answers) /\ clientGot' \in Seq(ToSet(Answers)) /\ early' = FALSE
  BY <1>1, <1>3 DEF MapperIInv, MapperTypeOK
<1>12. wrote' = SubSeq(Relayed(kind), 1, 0)
  BY <1>2, <1>10, SubSeqEmpty
<1>13. CASE n < 2
  <2>1. n = 1 /\ "h2" \notin ToSet(got)
    BY <1>6, <1>8, <1>13
  <2>2. buffer' = got /\ UNCHANGED <<parsed, isConnect, upstream>>
    BY <1>7, <2>1, <1>1 DEF readUntilHeadersComplete
  <2>3. got \in Seq(Data(kind))
    BY <1>3, <1>8, <2>1, SentTypes
  <2>4. MapperTypeOK'
    BY <1>3, <1>10, <1>11, <2>1, <2>2, <2>3 DEF MapperIInv, MapperTypeOK, Data
  <2>5. MapperInv'
    <3>1. 0 \in 0..3
      OBVIOUS
    <3>2. QED
      BY <1>2, <1>3, <1>8, <1>10, <1>11, <1>12, <2>1, <2>2, <3>1 DEF MapperInv
  <2>6. QED
    BY <2>4, <2>5 DEF MapperIInv
<1>14. CASE n >= 2
  <2>1. "h2" \in ToSet(got) /\ n \in 2..4
    BY <1>6, <1>8, <1>14
  <2>2. /\ parsed' = TRUE /\ isConnect' = (kind = "connect")
        /\ upstream' = "connecting" /\ buffer' = After(got, "h2")
    BY <1>7, <2>1, <1>1 DEF readUntilHeadersComplete
  <2>3. buffer' = SubSeq(Sends(kind), 3, n)
    BY <1>8, <1>14, <2>2
  <2>4. /\ SubSeq(Sends(kind), 3, n) \in Seq(Data(kind))
        /\ SubSeq(Sends(kind), 3, n) \in Seq(ToSet(Sends(kind)))
    <3>1. 3 \in 1..5 /\ n \in (3 - 1)..4
      BY <2>1
    <3>2. QED
      BY <1>3, <3>1, SentTypes
  <2>5. MapperTypeOK'
    <3>1. isConnect' \in BOOLEAN /\ n \in 0..4
      BY <2>1, <2>2
    <3>2. QED
      BY <1>3, <1>10, <1>11, <2>2, <2>3, <2>4, <3>1 DEF MapperIInv, MapperTypeOK, Data
  <2>6. kind = "connect" => n = 2 /\ buffer' = <<>>
    <3>1. kind = "connect" => n = 2
      BY <1>1, <1>5, <2>1
    <3>2. SubSeq(Sends(kind), 3, 2) = <<>>
      BY SubSeqEmpty
    <3>3. QED
      BY <2>3, <3>1, <3>2
  <2>7. SubSeq(Answers, 1, 0) = <<>>
    BY SubSeqEmpty
  <2>8. MapperInv'
    <3>1. 0 \in 0..3 /\ 0 \in {0, 1}
      OBVIOUS
    <3>2. CASE kind = "connect"
      <4>1. isConnect' = TRUE /\ n = 2 /\ buffer' = SubSeq(Answers, 1, 0)
        BY <2>2, <2>6, <2>7, <3>2
      <4>2. QED
        BY <1>2, <1>3, <1>4, <1>10, <1>11, <1>12, <2>1, <2>2, <3>1, <3>2, <4>1 DEF MapperInv
    <3>3. CASE kind # "connect"
      <4>1. isConnect' = FALSE
        BY <2>2, <3>3
      <4>2. QED
        BY <1>2, <1>3, <1>10, <1>11, <1>12, <2>1, <2>2, <2>3, <2>4, <3>1, <3>3, <4>1
          DEF MapperInv
    <3>4. QED
      BY <3>2, <3>3
  <2>9. QED
    BY <2>5, <2>8 DEF MapperIInv
<1>15. QED
  BY <1>6, <1>13, <1>14

(* What follows the header is written, unless the upstream is gone. *)
LEMMA BodyStep ==
  ASSUME MapperIInv, NEW n \in 1..4, onClientReadyRead(n), parsed
  PROVE  MapperIInv'
<1>1. /\ client = "open" /\ read' = n /\ n > read /\ n <= Readable
      /\ wrote' = IF upstream \in {"connecting", "open"}
                    THEN wrote \o SubSeq(Sends(kind), read + 1, n) ELSE wrote
      /\ early' = (early \/ upstream = "connecting")
      /\ UNCHANGED <<parsed, isConnect, buffer, upstream, kind, client, answered, clientGot>>
  BY DEF onClientReadyRead
<1>2. upstream # "none" /\ read \in 2..4
  BY DEF MapperIInv, MapperInv
<1>3. /\ kind \in Kinds /\ parsed = TRUE
      /\ wrote \in Seq(Out(kind)) /\ early \in BOOLEAN
  BY DEF MapperIInv, MapperTypeOK, Kinds, Out
<1>4. n \in (read + 1)..4 /\ n \in 2..4 /\ n > 2
  BY <1>1, <1>2
<1>5. ~isConnect
  <2>1. SUFFICES ASSUME isConnect PROVE FALSE
    OBVIOUS
  <2>2. clientGot = <<>> /\ kind = "connect"
    BY <2>1 DEF MapperIInv, MapperInv
  <2>3. "a2" \notin ToSet(clientGot)
    BY <2>2 DEF ToSet
  <2>4. Readable = 2
    BY <2>2, <2>3 DEF Readable
  <2>5. QED
    BY <1>1, <1>4, <2>4
<1>6. early' \in BOOLEAN /\ (early' => early \/ upstream = "connecting") /\ (early => early')
  BY <1>1, <1>3
<1>7. early' => kind = "plain"
  <2>1. upstream = "connecting" => kind = "plain"
    BY <1>3, <1>5 DEF MapperIInv, MapperInv, Kinds
  <2>2. early => kind = "plain"
    BY DEF MapperIInv, MapperInv
  <2>3. QED
    BY <1>6, <2>1, <2>2
<1>8. wrote' \in Seq(Out(kind))
  <2>1. read + 1 \in 1..5 /\ n \in ((read + 1) - 1)..4
    BY <1>2, <1>4
  <2>2. SubSeq(Sends(kind), read + 1, n) \in Seq(Out(kind))
    BY <1>3, <2>1, SentTypes
  <2>3. wrote \o SubSeq(Sends(kind), read + 1, n) \in Seq(Out(kind))
    BY <1>3, <2>2, ConcatProperties
  <2>4. QED
    BY <1>1, <1>3, <2>3
<1>9. MapperTypeOK'
  <2>1. n \in 0..4
    OBVIOUS
  <2>2. QED
    BY <1>1, <1>6, <1>8, <2>1 DEF MapperIInv, MapperTypeOK, Out
<1>10. upstream = "open" /\ ~early' => wrote' = SubSeq(Relayed(kind), 1, n - 1)
  <2>1. SUFFICES ASSUME upstream = "open", ~early'
                 PROVE  wrote' = SubSeq(Relayed(kind), 1, n - 1)
    OBVIOUS
  <2>2. wrote = SubSeq(Relayed(kind), 1, read - 1)
    BY <1>6, <2>1 DEF MapperIInv, MapperInv
  <2>3. wrote' = wrote \o SubSeq(Sends(kind), read + 1, n)
    BY <1>1, <2>1
  <2>4. n \in read..4
    BY <1>2, <1>4
  <2>5. QED
    BY <1>2, <1>3, <2>2, <2>3, <2>4, RelayedOn
<1>11. ~early' => \E i \in 0..3 : wrote' = SubSeq(Relayed(kind), 1, i)
  <2>1. SUFFICES ASSUME ~early' PROVE \E i \in 0..3 : wrote' = SubSeq(Relayed(kind), 1, i)
    OBVIOUS
  <2>2. CASE upstream = "open"
    <3>1. n - 1 \in 0..3
      BY <1>4
    <3>2. QED
      BY <1>10, <2>1, <2>2, <3>1
  <2>3. CASE upstream # "open"
    <3>1. wrote' = wrote /\ ~early
      BY <1>1, <1>3, <2>1, <2>3
    <3>2. QED
      BY <3>1 DEF MapperIInv, MapperInv
  <2>4. QED
    BY <2>2, <2>3
<1>12. upstream = "connecting" => early'
  BY <1>1
<1>13. MapperInv'
  <2>1. /\ parsed' /\ upstream' # "none" /\ read' \in 2..4 /\ client' # "none"
        /\ ~isConnect' /\ clientGot' = SubSeq(Answers, 1, answered')
        /\ upstream' = "connecting" => /\ isConnect' <=> kind' = "connect"
                                       /\ answered' = 0
                                       /\ kind' = "plain" => buffer' \in Seq(ToSet(Sends(kind')))
    BY <1>1, <1>2, <1>3, <1>4, <1>5 DEF MapperIInv, MapperInv
  <2>2. QED
    BY <1>1, <1>7, <1>10, <1>11, <1>12, <2>1 DEF MapperInv
<1>14. QED
  BY <1>9, <1>13 DEF MapperIInv

LEMMA ConnectedStep ==
  ASSUME MapperIInv, onUpstreamConnected
  PROVE  MapperIInv'
<1>1. /\ upstream = "connecting" /\ upstream' = "open"
      /\ wrote' = wrote \o (IF isConnect THEN <<"connect">> ELSE <<"header">> \o buffer)
      /\ buffer' = IF isConnect THEN buffer ELSE <<>>
      /\ UNCHANGED <<kind, client, read, parsed, isConnect, answered, clientGot, early>>
  BY DEF onUpstreamConnected
<1>2. /\ parsed /\ read \in 2..4 /\ answered = 0 /\ (isConnect <=> kind = "connect")
      /\ isConnect => read = 2
      /\ early => kind = "plain"
  BY <1>1 DEF MapperIInv, MapperInv
<1>3. /\ kind \in Kinds /\ parsed = TRUE /\ isConnect \in BOOLEAN /\ early \in BOOLEAN
      /\ wrote \in Seq(Out(kind)) /\ buffer \in Seq(Data(kind))
  BY <1>2 DEF MapperIInv, MapperTypeOK, Kinds, Out, Data
<1>4. PICK first : first = Relayed(kind)[1]
  OBVIOUS
<1>5. first = IF isConnect THEN "connect" ELSE "header"
  <2>1. first = IF kind = "plain" THEN "header" ELSE "connect"
    BY <1>3, <1>4, Tuples
  <2>2. QED
    BY <1>2, <1>3, <2>1 DEF Kinds
<1>6. /\ <<first>> \o SubSeq(Sends(kind), 3, read) = SubSeq(Relayed(kind), 1, read - 1)
      /\ SubSeq(Relayed(kind), 1, 1) = <<first>> /\ <<first>> \in Seq(Out(kind))
      /\ SubSeq(Relayed(kind), 1, read - 1) \in Seq(Out(kind))
  <2>1. 2 \in 2..4 /\ read \in read..4 /\ read \in 2..4
    BY <1>2
  <2>2. QED
    BY <1>2, <1>3, <1>4, <2>1, RelayedOn
<1>7. CASE isConnect
  <2>1. wrote' = wrote \o <<first>> /\ buffer' = buffer
    BY <1>1, <1>5, <1>7
  <2>2. ~early /\ wrote = <<>> /\ read = 2
    BY <1>1, <1>2, <1>3, <1>7 DEF MapperIInv, MapperInv
  <2>3. wrote' = <<first>>
    BY <1>6, <2>1, <2>2, ConcatEmptySeq
  <2>4. wrote' = SubSeq(Relayed(kind), 1, 1) /\ wrote' = SubSeq(Relayed(kind), 1, read - 1)
    BY <1>6, <2>2, <2>3
  <2>5. MapperTypeOK'
    BY <1>1, <1>3, <1>6, <2>1, <2>3 DEF MapperIInv, MapperTypeOK, Out
  <2>6. MapperInv'
    <3>1. 1 \in 0..3
      OBVIOUS
    <3>2. /\ answered' \in {0, 1} /\ buffer' = SubSeq(Answers, 1, answered')
          /\ clientGot' = <<>> /\ client' # "none"
      BY <1>1, <1>7, <2>1, <1>2 DEF MapperIInv, MapperInv
    <3>3. QED
      BY <1>1, <1>2, <1>7, <2>2, <2>4, <3>1, <3>2 DEF MapperInv
  <2>7. QED
    BY <2>5, <2>6 DEF MapperIInv
<1>8. CASE ~isConnect
  <2>1. wrote' = wrote \o (<<first>> \o buffer) /\ buffer' = <<>> /\ kind = "plain"
    BY <1>1, <1>2, <1>3, <1>5, <1>8 DEF Kinds
  <2>2. buffer \in Seq(Out(kind))
    <3>1. buffer \in Seq(ToSet(Sends(kind)))
      BY <1>1, <2>1 DEF MapperIInv, MapperInv
    <3>2. ToSet(Sends(kind)) \subseteq Out(kind)
      BY DEF Out
    <3>3. QED
      BY <3>1, <3>2, SeqMonotonic
  <2>3. <<first>> \o buffer \in Seq(Out(kind)) /\ wrote' \in Seq(Out(kind))
    <3>1. <<first>> \o buffer \in Seq(Out(kind))
      BY <1>6, <2>2, ConcatProperties
    <3>2. QED
      BY <1>3, <2>1, <3>1, ConcatProperties
  <2>4. ~early => wrote' = SubSeq(Relayed(kind), 1, read - 1)
    <3>1. SUFFICES ASSUME ~early PROVE wrote' = SubSeq(Relayed(kind), 1, read - 1)
      OBVIOUS
    <3>2. wrote = <<>> /\ buffer = SubSeq(Sends(kind), 3, read)
      BY <1>1, <2>1, <3>1 DEF MapperIInv, MapperInv
    <3>3. <<first>> \o buffer = SubSeq(Relayed(kind), 1, read - 1)
      BY <1>6, <3>2
    <3>4. <<>> \o (<<first>> \o buffer) = <<first>> \o buffer
      BY <2>3, ConcatEmptySeq
    <3>5. QED
      BY <2>1, <3>2, <3>3, <3>4
  <2>5. MapperTypeOK'
    <3>1. <<>> \in Seq(Data(kind))
      BY EmptySeq
    <3>2. QED
      BY <1>1, <1>3, <2>1, <2>3, <3>1 DEF MapperIInv, MapperTypeOK, Out, Data
  <2>6. MapperInv'
    <3>1. read - 1 \in 0..3
      BY <1>2
    <3>2. clientGot' = SubSeq(Answers, 1, answered') /\ client' # "none"
      BY <1>1, <1>2, <1>8 DEF MapperIInv, MapperInv
    <3>3. QED
      BY <1>1, <1>2, <1>8, <2>4, <3>1, <3>2 DEF MapperInv
  <2>7. QED
    BY <2>5, <2>6 DEF MapperIInv
<1>9. QED
  BY <1>7, <1>8

(* An answer is handed on, or kept until the CONNECT is answered. *)
LEMMA AnswerStep ==
  ASSUME MapperIInv, NEW n \in 1..4, onUpstreamReadyRead(n)
  PROVE  MapperIInv'
<1>1. /\ upstream = "open" /\ client = "open" /\ n > answered /\ n <= Len(Answers)
      /\ answered' = n
      /\ UNCHANGED <<kind, client, read, parsed, upstream, wrote, early>>
  BY DEF onUpstreamReadyRead
<1>2. /\ parsed /\ read \in 2..4
      /\ early => kind = "plain"
      /\ ~early => \E i \in 0..3 : wrote = SubSeq(Relayed(kind), 1, i)
      /\ ~early => wrote = SubSeq(Relayed(kind), 1, read - 1)
  BY <1>1 DEF MapperIInv, MapperInv
<1>3. /\ kind \in Kinds /\ parsed = TRUE /\ isConnect \in BOOLEAN
      /\ answered \in 0..Len(Answers)
      /\ buffer \in Seq(Data(kind)) /\ clientGot \in Seq(ToSet(Answers))
  BY <1>2 DEF MapperIInv, MapperTypeOK, Kinds, Data
<1>4. answered \in 0..3 /\ n \in 1..3 /\ n \in answered..3 /\ Len(Answers) = 3
  <2>1. Len(Answers) = 3
    BY <1>3, Tuples
  <2>2. QED
    BY <1>1, <1>3, <2>1
<1>5. SubSeq(Answers, 1, answered) \o SubSeq(Answers, answered + 1, n) = SubSeq(Answers, 1, n)
  BY <1>4, AnswersOn
<1>6. /\ SubSeq(Answers, 1, n) \in Seq(ToSet(Answers)) /\ SubSeq(Answers, 1, n) \in Seq(Data(kind))
      /\ "a2" \in ToSet(SubSeq(Answers, 1, n)) <=> n >= 2
  <2>1. 1 \in 1..4 /\ n \in (1 - 1)..3
    BY <1>4
  <2>2. QED
    BY <1>3, <2>1, AnswerTypes
<1>7. CASE ~isConnect
  <2>1. clientGot' = clientGot \o SubSeq(Answers, answered + 1, n) /\ UNCHANGED <<isConnect, buffer>>
    BY <1>1, <1>7 DEF onUpstreamReadyRead
  <2>2. clientGot = SubSeq(Answers, 1, answered)
    BY <1>7 DEF MapperIInv, MapperInv
  <2>3. clientGot' = SubSeq(Answers, 1, n)
    BY <1>5, <2>1, <2>2
  <2>4. MapperTypeOK'
    <3>1. n \in 0..Len(Answers)
      BY <1>4
    <3>2. QED
      BY <1>1, <1>6, <2>1, <2>3, <3>1 DEF MapperIInv, MapperTypeOK
  <2>5. MapperInv'
    BY <1>1, <1>2, <1>7, <2>1, <2>3 DEF MapperInv
  <2>6. QED
    BY <2>4, <2>5 DEF MapperIInv
<1>8. CASE isConnect
  <2>1. /\ kind = "connect" /\ read = 2 /\ clientGot = <<>>
        /\ buffer = SubSeq(Answers, 1, answered)
    BY <1>8 DEF MapperIInv, MapperInv
  <2>2. PICK reply : reply = buffer \o SubSeq(Answers, answered + 1, n)
    OBVIOUS
  <2>3. reply = SubSeq(Answers, 1, n)
    BY <1>5, <2>1, <2>2
  <2>4. CASE n >= 2
    <3>1. clientGot' = clientGot \o reply /\ isConnect' = FALSE /\ buffer' = <<>>
      BY <1>1, <1>6, <1>8, <2>2, <2>3, <2>4 DEF onUpstreamReadyRead
    <3>2. clientGot' = SubSeq(Answers, 1, n)
      BY <1>6, <2>1, <2>3, <3>1, ConcatEmptySeq
    <3>3. MapperTypeOK'
      <4>1. n \in 0..Len(Answers)
        BY <1>4
      <4>2. <<>> \in Seq(Data(kind))
        BY EmptySeq
      <4>3. QED
        BY <1>1, <1>6, <3>1, <3>2, <4>1, <4>2 DEF MapperIInv, MapperTypeOK, Data
    <3>4. MapperInv'
      BY <1>1, <1>2, <3>1, <3>2 DEF MapperInv
    <3>5. QED
      BY <3>3, <3>4 DEF MapperIInv
  <2>5. CASE n < 2
    <3>1. buffer' = reply /\ UNCHANGED <<clientGot, isConnect>> /\ n \in {0, 1}
      <4>1. "a2" \notin ToSet(reply)
        BY <1>4, <1>6, <2>3, <2>5
      <4>2. buffer' = reply /\ UNCHANGED <<clientGot, isConnect>>
        BY <1>8, <2>2, <4>1 DEF onUpstreamReadyRead
      <4>3. QED
        BY <1>4, <2>5, <4>2
    <3>2. MapperTypeOK'
      <4>1. n \in 0..Len(Answers)
        BY <1>4
      <4>2. QED
        BY <1>1, <1>6, <2>3, <3>1, <4>1 DEF MapperIInv, MapperTypeOK, Data
    <3>3. MapperInv'
      BY <1>1, <1>2, <1>8, <2>1, <2>3, <3>1 DEF MapperInv
    <3>4. QED
      BY <3>2, <3>3 DEF MapperIInv
  <2>6. QED
    BY <1>4, <2>4, <2>5
<1>9. QED
  BY <1>7, <1>8

(* What is written is a beginning of what shall be. *)
LEMMA InOrder ==
  ASSUME MapperIInv
  PROVE  MapperInOrder
<1>1. SUFFICES ASSUME ~early
               PROVE  IsPrefix(wrote, Relayed(kind)) /\ IsPrefix(clientGot, Answers)
  BY DEF MapperInOrder
<1>2. kind \in Kinds /\ answered \in 0..Len(Answers)
  BY DEF MapperIInv, MapperTypeOK, Kinds
<1>3. PICK s \in Seq(ToSet(Relayed(kind))) : s = Relayed(kind) /\ Len(s) = 3
  BY <1>2, Tuples
<1>4. PICK t \in Seq(ToSet(Answers)) : t = Answers /\ Len(t) = 3
  BY <1>2, Tuples
<1>5. IsPrefix(wrote, Relayed(kind))
  <2>1. PICK n \in 0..Len(s) : wrote = SubSeq(s, 1, n)
    BY <1>1, <1>3 DEF MapperIInv, MapperInv
  <2>2. IsPrefix(SubSeq(s, 1, n), s)
    BY SliceIsPrefix
  <2>3. QED
    BY <1>3, <2>1, <2>2
<1>6. IsPrefix(clientGot, Answers)
  <2>1. \E n \in 0..Len(t) : clientGot = SubSeq(t, 1, n)
    <3>1. CASE isConnect
      <4>1. clientGot = SubSeq(t, 1, 0)
        BY <3>1, SubSeqEmpty DEF MapperIInv, MapperInv
      <4>2. 0 \in 0..Len(t)
        BY <1>4
      <4>3. QED
        BY <4>1, <4>2
    <3>2. CASE ~isConnect
      BY <1>2, <1>4, <3>2 DEF MapperIInv, MapperInv
    <3>3. QED
      BY <3>1, <3>2
  <2>2. PICK n \in 0..Len(t) : clientGot = SubSeq(t, 1, n)
    BY <2>1
  <2>3. IsPrefix(SubSeq(t, 1, n), t)
    BY SliceIsPrefix
  <2>4. QED
    BY <1>4, <2>2, <2>3
<1>7. QED
  BY <1>5, <1>6

-----------------------------------------------------------------------------
(* Commands and events.                                                    *)

LEMMA ConcatSet ==
  ASSUME NEW S, NEW s \in Seq(S), NEW t \in Seq(S)
  PROVE  s \o t \in Seq(S) /\ ToSet(s \o t) = ToSet(s) \cup ToSet(t)
<1>1. s \o t \in Seq(S)
  BY ConcatProperties
<1>2. Range(s \o t) = Range(s) \cup Range(t)
  BY RangeConcatenation
<1>3. QED
  BY <1>1, <1>2 DEF Range, ToSet

Asked == Overrides \cup {"Network.enable"}

LEMMA OneIfAsked ==
  ASSUME NEW o \in Asked, NEW condition
  PROVE  /\ (IF condition THEN <<o>> ELSE <<>>) \in Seq(Asked)
         /\ ToSet(IF condition THEN <<o>> ELSE <<>>) = IF condition THEN {o} ELSE {}
<1>1. ToSet(<<o>>) = {o} /\ ToSet(<<>>) = {} /\ <<o>> \in Seq(Asked) /\ <<>> \in Seq(Asked)
  BY DEF ToSet
<1>2. QED
  BY <1>1

(* Every override that the plan calls for is sent, and nothing else but     *)
(* Network.enable; no load is among them.                                   *)
LEMMA WantedIs ==
  ASSUME NEW l
  PROVE  /\ Wanted(l) \in Seq(Asked)
         /\ "timezone" \in l.override => "timezone" \in Needed(l)
         /\ l.overrideGeo => "geo" \in Needed(l)
         /\ "userAgent" \in l.override => "userAgent" \in Needed(l)
         /\ "touch" \in l.override => "touch" \in Needed(l)
         /\ "language" \in l.override => "headers" \in Needed(l)
         /\ l.override # {} => "script" \in Needed(l)
<1> DEFINE one(o, condition) == IF condition THEN <<o>> ELSE <<>>
<1>1. \A o \in Asked : \A condition \in BOOLEAN :
        /\ one(o, condition) \in Seq(Asked)
        /\ ToSet(one(o, condition)) = IF condition THEN {o} ELSE {}
  BY OneIfAsked
<1>2. /\ "timezone" \in Asked /\ "geo" \in Asked /\ "Network.enable" \in Asked
      /\ "userAgent" \in Asked /\ "touch" \in Asked /\ "headers" \in Asked
      /\ "script" \in Asked /\ "metrics" \in Asked
  BY DEF Asked, Overrides
<1>3. PICK c1 \in BOOLEAN, c2 \in BOOLEAN, c3 \in BOOLEAN, c4 \in BOOLEAN,
           c5 \in BOOLEAN, c6 \in BOOLEAN, c7 \in BOOLEAN, c8 \in BOOLEAN :
        /\ c1 <=> "timezone" \in l.override
        /\ c2 <=> l.overrideGeo
        /\ c3 <=> "userAgent" \in l.override \/ "language" \in l.override
        /\ c4 <=> "userAgent" \in l.override
        /\ c5 <=> "touch" \in l.override
        /\ c6 <=> "language" \in l.override
        /\ c7 <=> l.override # {}
        /\ c8 <=> "resolution" \in l.override /\ l.metrics
  OBVIOUS
<1>4. PICK s1 \in Seq(Asked), s2 \in Seq(Asked), s3 \in Seq(Asked), s4 \in Seq(Asked),
           s5 \in Seq(Asked), s6 \in Seq(Asked), s7 \in Seq(Asked), s8 \in Seq(Asked) :
        /\ s1 = one("timezone", c1) /\ s2 = one("geo", c2) /\ s3 = one("Network.enable", c3)
        /\ s4 = one("userAgent", c4) /\ s5 = one("touch", c5) /\ s6 = one("headers", c6)
        /\ s7 = one("script", c7) /\ s8 = one("metrics", c8)
  BY <1>1, <1>2
<1>5. Wanted(l) = (((((((s1 \o s2) \o s3) \o s4) \o s5) \o s6) \o s7) \o s8)
  BY <1>3, <1>4 DEF Wanted, buildInitScript
<1>6. /\ c1 => "timezone" \in ToSet(s1)
      /\ c2 => "geo" \in ToSet(s2)
      /\ c4 => "userAgent" \in ToSet(s4)
      /\ c5 => "touch" \in ToSet(s5)
      /\ c6 => "headers" \in ToSet(s6)
      /\ c7 => "script" \in ToSet(s7)
  BY <1>1, <1>2, <1>4
<1> HIDE DEF one
<1>7. PICK t2 \in Seq(Asked) : t2 = s1 \o s2 /\ ToSet(t2) = ToSet(s1) \cup ToSet(s2)
  BY ConcatSet
<1>8. PICK t3 \in Seq(Asked) : t3 = t2 \o s3 /\ ToSet(t3) = ToSet(t2) \cup ToSet(s3)
  BY ConcatSet
<1>9. PICK t4 \in Seq(Asked) : t4 = t3 \o s4 /\ ToSet(t4) = ToSet(t3) \cup ToSet(s4)
  BY ConcatSet
<1>10. PICK t5 \in Seq(Asked) : t5 = t4 \o s5 /\ ToSet(t5) = ToSet(t4) \cup ToSet(s5)
  BY ConcatSet
<1>11. PICK t6 \in Seq(Asked) : t6 = t5 \o s6 /\ ToSet(t6) = ToSet(t5) \cup ToSet(s6)
  BY ConcatSet
<1>12. PICK t7 \in Seq(Asked) : t7 = t6 \o s7 /\ ToSet(t7) = ToSet(t6) \cup ToSet(s7)
  BY ConcatSet
<1>13. PICK t8 \in Seq(Asked) : t8 = t7 \o s8 /\ ToSet(t8) = ToSet(t7) \cup ToSet(s8)
  <2>1. t7 \o s8 \in Seq(Asked) /\ ToSet(t7 \o s8) = ToSet(t7) \cup ToSet(s8)
    BY ConcatSet
  <2>2. QED
    BY <2>1
<1>14. Wanted(l) = t8
  BY <1>5, <1>7, <1>8, <1>9, <1>10, <1>11, <1>12, <1>13
<1>15. \A x : x \in ToSet(s1) \/ x \in ToSet(s2) \/ x \in ToSet(s4) \/ x \in ToSet(s5)
              \/ x \in ToSet(s6) \/ x \in ToSet(s7) => x \in ToSet(t8)
  BY <1>7, <1>8, <1>9, <1>10, <1>11, <1>12, <1>13
<1>16. \A x \in Overrides : x \in ToSet(t8) => x \in Needed(l)
  BY <1>14 DEF Needed
<1>17. /\ "timezone" \in Overrides /\ "geo" \in Overrides /\ "userAgent" \in Overrides
       /\ "touch" \in Overrides /\ "headers" \in Overrides /\ "script" \in Overrides
  BY DEF Overrides
<1>18. /\ c1 => "timezone" \in Needed(l)
       /\ c2 => "geo" \in Needed(l)
       /\ c4 => "userAgent" \in Needed(l)
       /\ c5 => "touch" \in Needed(l)
       /\ c6 => "headers" \in Needed(l)
       /\ c7 => "script" \in Needed(l)
  BY <1>6, <1>15, <1>16, <1>17
<1>19. QED
  BY <1>3, <1>14, <1>18

(* What a page is sent when it is attached: its loads come last, after all  *)
(* that it needs.                                                           *)
LEMMA ApplyIs ==
  ASSUME NEW p \in Pages, NEW l,
         NEW q, q = sendToSession(p, <<"Page.enable">> \o applyToTarget(l))
  PROVE  /\ q \in Seq(Pages \X Methods)
         /\ \A i \in DOMAIN q : q[i][1] = p
         /\ Ordered(q, p, {}, l)
<1>1. PICK w \in Seq(Asked) : w = Wanted(l)
  BY WantedIs
<1>2. Asked \subseteq Methods /\ Loads \subseteq Methods /\ "Page.enable" \in Methods /\ Asked \cap Loads = {}
      /\ "Page.enable" \notin Loads
  BY DEF Asked, Methods, Loads, Overrides
<1>3. PICK x \in Loads : Load(l) = <<x>>
  BY DEF Load, Loads
<1>4. w \in Seq(Methods) /\ <<x>> \in Seq(Methods) /\ <<"Page.enable">> \in Seq(Methods)
  BY <1>1, <1>2, SeqMonotonic
<1>5. Len(<<x>>) = 1 /\ <<x>>[1] = x /\ Len(<<"Page.enable">>) = 1 /\ <<"Page.enable">>[1] = "Page.enable"
  OBVIOUS
<1>6. PICK e \in Seq(Methods), d \in Seq(Methods) :
        /\ e = <<"Page.enable">> /\ Len(e) = 1 /\ e[1] = "Page.enable"
        /\ d = <<x>> /\ Len(d) = 1 /\ d[1] = x
  BY <1>4, <1>5
<1>7. PICK v, m : v = w \o d /\ m = e \o v
  OBVIOUS
<1>8. PICK n \in Nat : n = Len(w)
  BY LenProperties
<1>9. /\ v \in Seq(Methods) /\ Len(v) = n + 1
      /\ \A i \in 1..(n + 1) : v[i] = IF i <= n THEN w[i] ELSE d[i - n]
  BY <1>4, <1>6, <1>7, <1>8, ConcatProperties
<1>10. /\ m \in Seq(Methods) /\ Len(m) = 1 + (n + 1)
       /\ \A i \in 1..(1 + (n + 1)) : m[i] = IF i <= 1 THEN e[i] ELSE v[i - 1]
  BY <1>6, <1>7, <1>9, ConcatProperties
<1>11. /\ Len(m) = n + 2 /\ m[1] = "Page.enable" /\ m[n + 2] = x
       /\ \A i \in 1..n : m[i + 1] = w[i]
  <2>1. /\ Len(v) = n + 1 /\ v[n + 1] = x
        /\ \A i \in 1..n : v[i] = w[i]
    <3>1. v[n + 1] = d[(n + 1) - n]
      BY <1>8, <1>9
    <3>2. (n + 1) - n = 1
      BY <1>8
    <3>3. \A i \in 1..n : v[i] = w[i]
      BY <1>8, <1>9
    <3>4. QED
      BY <1>6, <1>9, <3>1, <3>2, <3>3
  <2>2. \A i \in 1..(n + 2) : m[i] = IF i <= 1 THEN "Page.enable" ELSE v[i - 1]
    BY <1>6, <1>8, <1>10
  <2>3. Len(m) = n + 2
    BY <1>8, <1>10
  <2>4. m[1] = "Page.enable" /\ m[n + 2] = x
    <3>1. 1 \in 1..(n + 2) /\ n + 2 \in 1..(n + 2) /\ ~(n + 2 <= 1) /\ (n + 2) - 1 = n + 1
      BY <1>8
    <3>2. QED
      BY <2>1, <2>2, <3>1
  <2>5. ASSUME NEW i \in 1..n PROVE m[i + 1] = w[i]
    BY <1>8, <2>1, <2>2
  <2>6. QED
    BY <2>3, <2>4, <2>5
<1>12. DOMAIN m = 1..(n + 2) /\ DOMAIN w = 1..n
  BY <1>8, <1>11, <1>10, LenProperties
<1>13. q = [i \in 1..(n + 2) |-> <<p, m[i]>>]
  BY <1>1, <1>3, <1>6, <1>7, <1>12 DEF sendToSession, applyToTarget
<1>14. \A i \in 1..(n + 2) : q[i] = <<p, m[i]>> /\ q[i] \in Pages \X Methods
  BY <1>11, <1>13, <1>10, ElementOfSeq
<1>15. q \in Seq(Pages \X Methods) /\ DOMAIN q = 1..(n + 2)
  <2>1. q \in [1..(n + 2) -> Pages \X Methods] /\ n + 2 \in Nat
    BY <1>8, <1>13, <1>14
  <2>2. QED
    BY <2>1, SeqDef
<1>16. \A i \in 1..(n + 2) : m[i] \in Loads => i = n + 2
  <2>1. TAKE i \in 1..(n + 2)
  <2>2. CASE i = 1
    BY <1>2, <1>11, <2>2
  <2>3. CASE i \in 2..(n + 1)
    <3>1. i - 1 \in 1..n /\ (i - 1) + 1 = i
      BY <1>8, <2>3
    <3>2. m[i] = w[i - 1] /\ w[i - 1] \in Asked
      BY <1>8, <1>11, <3>1, ElementOfSeq
    <3>3. QED
      BY <1>2, <3>2
  <2>4. QED
    BY <1>8, <2>2, <2>3
<1>17. Ordered(q, p, {}, l)
  <2>1. SUFFICES ASSUME NEW j \in 1..(n + 2), q[j][2] \in Loads, NEW o \in Needed(l)
                 PROVE  \E i \in 1..(j - 1) : q[i] = <<p, o>>
    BY <1>15 DEF Ordered
  <2>2. j = n + 2
    BY <1>14, <1>16, <2>1
  <2>3. PICK i \in 1..n : w[i] = o
    BY <1>1, <1>12, <2>1 DEF Needed, ToSet
  <2>4. i + 1 \in 1..(j - 1) /\ i + 1 \in 1..(n + 2)
    BY <1>8, <2>2, <2>3
  <2>5. q[i + 1] = <<p, o>>
    BY <1>11, <1>14, <2>3, <2>4
  <2>6. QED
    BY <2>4, <2>5
<1>18. QED
  BY <1>14, <1>15, <1>17

(* Commands are added after those that are on their way. *)
LEMMA OrderedConcat ==
  ASSUME NEW S, NEW q \in Seq(S), NEW r \in Seq(S), NEW p, NEW has, NEW l,
         Ordered(q, p, has, l), Ordered(r, p, {}, l)
  PROVE  Ordered(q \o r, p, has, l)
<1>1. PICK m \in Nat, n \in Nat : m = Len(q) /\ n = Len(r)
  BY LenProperties
<1>2. PICK t \in Seq(S) :
        /\ t = q \o r /\ Len(t) = m + n
        /\ \A i \in 1..(m + n) : t[i] = IF i <= m THEN q[i] ELSE r[i - m]
  <2>1. PICK t : t = q \o r
    OBVIOUS
  <2>2. /\ t \in Seq(S) /\ Len(t) = m + n
        /\ \A i \in 1..(m + n) : t[i] = IF i <= m THEN q[i] ELSE r[i - m]
    BY <1>1, <2>1, ConcatProperties
  <2>3. QED
    BY <2>1, <2>2
<1>3. DOMAIN t = 1..(m + n) /\ DOMAIN q = 1..m /\ DOMAIN r = 1..n
  BY <1>1, <1>2, LenProperties
<1>4. SUFFICES ASSUME NEW j \in 1..(m + n), t[j][1] = p, t[j][2] \in Loads,
                      NEW o \in Needed(l) \ has
               PROVE  \E i \in 1..(j - 1) : t[i] = <<p, o>>
  BY <1>2, <1>3 DEF Ordered
<1>5. CASE j <= m
  <2>1. j \in 1..m /\ t[j] = q[j]
    BY <1>2, <1>5
  <2>2. PICK i \in 1..(j - 1) : q[i] = <<p, o>>
    BY <1>3, <1>4, <2>1 DEF Ordered
  <2>3. i \in 1..(m + n) /\ i <= m
    BY <1>5, <2>2
  <2>4. QED
    BY <1>2, <2>2, <2>3
<1>6. CASE j > m
  <2>1. j - m \in 1..n /\ t[j] = r[j - m]
    BY <1>1, <1>2, <1>6
  <2>2. PICK i \in 1..((j - m) - 1) : r[i] = <<p, o>>
    BY <1>3, <1>4, <2>1 DEF Ordered
  <2>3. i + m \in 1..(j - 1) /\ i + m \in 1..(m + n) /\ ~(i + m <= m) /\ (i + m) - m = i
    <3>1. i \in Int /\ j \in Int /\ i >= 1 /\ i <= (j - m) - 1 /\ j <= m + n
      BY <1>1, <1>6, <2>1, <2>2
    <3>2. QED
      BY <1>1, <1>6, <3>1
  <2>4. t[i + m] = r[i]
    BY <1>2, <2>3
  <2>5. QED
    BY <2>2, <2>3, <2>4
<1>7. QED
  BY <1>1, <1>5, <1>6

(* The first command is run: an override is in force then. *)
LEMMA OrderedTail ==
  ASSUME NEW S, NEW q \in Seq(S), q # <<>>, NEW p, NEW has, NEW more, NEW l,
         Ordered(q, p, has, l), has \subseteq more,
         \A o \in Overrides : Head(q) = <<p, o>> => o \in more
  PROVE  Ordered(Tail(q), p, more, l)
<1>1. PICK n \in Nat : Len(q) = n /\ n # 0 /\ DOMAIN q = 1..n
  BY EmptySeq, LenProperties
<1>2. PICK t \in Seq(S) : /\ t = Tail(q) /\ Len(t) = n - 1
                          /\ \A i \in 1..(n - 1) : t[i] = q[i + 1]
  <2>1. PICK t : t = Tail(q)
    OBVIOUS
  <2>2. /\ t \in Seq(S) /\ Len(t) = n - 1
        /\ \A i \in 1..(n - 1) : t[i] = q[i + 1]
    BY <1>1, <2>1, HeadTailProperties
  <2>3. QED
    BY <2>1, <2>2
<1>3. DOMAIN t = 1..(n - 1)
  BY <1>2, LenProperties
<1>4. SUFFICES ASSUME NEW j \in 1..(n - 1), t[j][1] = p, t[j][2] \in Loads,
                      NEW o \in Needed(l) \ more
               PROVE  \E i \in 1..(j - 1) : t[i] = <<p, o>>
  BY <1>2, <1>3 DEF Ordered
<1>5. j + 1 \in 1..n /\ t[j] = q[j + 1]
  BY <1>1, <1>2
<1>6. PICK i \in 1..j : q[i] = <<p, o>>
  <2>1. (j + 1) - 1 = j
    OBVIOUS
  <2>2. QED
    BY <1>1, <1>4, <1>5, <2>1 DEF Ordered
<1>7. i # 1
  <2>1. Head(q) = q[1] /\ o \in Overrides
    BY DEF Needed
  <2>2. QED
    BY <1>4, <1>6, <2>1
<1>8. i - 1 \in 1..(j - 1) /\ i - 1 \in 1..(n - 1) /\ (i - 1) + 1 = i
  BY <1>1, <1>6, <1>7
<1>9. QED
  BY <1>2, <1>6, <1>8

(* The first command loads the page: it has all that it needs. *)
LEMMA OrderedHead ==
  ASSUME NEW S, NEW q \in Seq(S), q # <<>>, NEW p, NEW has, NEW l,
         Ordered(q, p, has, l), Head(q)[1] = p, Head(q)[2] \in Loads
  PROVE  Needed(l) \subseteq has
<1>1. 1 \in DOMAIN q /\ Head(q) = q[1]
  BY EmptySeq, LenProperties
<1>2. SUFFICES ASSUME NEW o \in Needed(l) \ has PROVE FALSE
  OBVIOUS
<1>3. PICK i \in 1..(1 - 1) : q[i] = <<p, o>>
  BY <1>1, <1>2 DEF Ordered
<1>4. QED
  BY <1>3

-----------------------------------------------------------------------------
(* Steps of the CDP client and of the browser.                             *)

CdpIInv == CdpTypeOK /\ ClientInv

Page ==
  [open : BOOLEAN, attached : BOOLEAN, overrides : SUBSET Overrides,
   doc : SUBSET Overrides, settled : BOOLEAN]

Commands == RootCommands \cup (Pages \X Methods)

LEMMA QueueTypes ==
  ASSUME CdpTypeOK
  PROVE  /\ toBrowser \in Seq(Commands) /\ toClient \in Seq(Pages \cup Others)
         /\ page \in [Pages -> Page]
         /\ \A c \in Commands : c \in RootCommands => c[1] = "root" /\ c[2] \notin Loads
         /\ \A c \in Commands : c[1] \in Pages => c \in Pages \X Methods
<1>1. /\ toBrowser \in Seq(Commands) /\ toClient \in Seq(Pages \cup Others)
      /\ page \in [Pages -> Page]
  BY DEF CdpTypeOK, Commands, Page
<1>2. \A c \in RootCommands : c[1] = "root" /\ c[2] \notin Loads
  BY DEF RootCommands, Loads
<1>3. \A c \in Commands : c[1] \in Pages => c \in Pages \X Methods
  BY <1>2, TargetsAssumption DEF Commands
<1>4. QED
  BY <1>1, <1>2, <1>3

LEMMA NoPageIs ==
  /\ NoPage \in Page /\ ~NoPage.open /\ ~NoPage.attached /\ ~NoPage.settled
  /\ [p \in Pages |-> NoPage] \in [Pages -> Page]
BY DEF NoPage, Page

(* Nothing about pages is on its way, or what is, is unchanged. *)
LEMMA PagesSame ==
  ASSUME CdpIInv, UNCHANGED <<page, launch>>,
         ws' \in {"none", "opening", "open", "closed"}, attachAll' \in BOOLEAN, seen' \subseteq Others,
         toClient' \in Seq(Pages \cup Others), toBrowser' \in Seq(Commands),
         \A p \in Pages : Unknown(p) => Unknown(p)',
         \A p \in Pages : page[p].attached /\ Ordered(toBrowser, p, page[p].overrides, launch)
            => \A q : q = toBrowser' => Ordered(q, p, page[p].overrides, launch)
  PROVE  CdpIInv'
<1>1. CdpTypeOK'
  BY DEF CdpIInv, CdpTypeOK, Commands
<1>2. ClientInv'
  <2>1. PICK q, l : q = toBrowser' /\ l = launch
    OBVIOUS
  <2>2. \A p \in Pages : page[p].attached => Ordered(q, p, page[p].overrides, l)
    BY <2>1 DEF CdpIInv, ClientInv
  <2>3. \A p \in Pages : page[p].attached => Ordered(toBrowser', p, page'[p].overrides, launch')
    BY <2>1, <2>2
  <2>4. QED
    BY <2>3 DEF CdpIInv, ClientInv
<1>3. QED
  BY <1>1, <1>2 DEF CdpIInv

(* The connection is made; nothing that was on its way is about pages.      *)
LEMMA SocketStep ==
  ASSUME CdpIInv, UNCHANGED launch, newClient \/ onConnected
  PROVE  CdpIInv'
<1>1. CASE newClient
  <2>1. UNCHANGED <<toBrowser, toClient, attachAll, page, seen>> /\ ws' = "opening"
    BY <1>1 DEF newClient
  <2>2. QED
    BY <2>1, PagesSame DEF CdpIInv, CdpTypeOK, Unknown, Commands
<1>2. CASE onConnected
  <2>1. /\ UNCHANGED <<toClient, attachAll, page, seen>> /\ ws' = "open"
        /\ toBrowser' = <<<<"root", "autoAttach">>, <<"root", "discover">>>>
    BY <1>2 DEF onConnected
  <2>2. PICK q : q = <<<<"root", "autoAttach">>, <<"root", "discover">>>>
    OBVIOUS
  <2>3. q \in Seq(Commands) /\ DOMAIN q = {1, 2} /\ \A i \in DOMAIN q : q[i][1] = "root"
    BY <2>2 DEF Commands, RootCommands
  <2>4. \A p \in Pages : p # "root"
    BY TargetsAssumption
  <2>5. \A p \in Pages : Unknown(p) => Unknown(p)'
    BY <2>1, <2>2, <2>3, <2>4 DEF Unknown
  <2>6. \A p \in Pages : Ordered(q, p, page[p].overrides, launch)
    BY <2>3, <2>4 DEF Ordered
  <2>7. QED
    BY <2>1, <2>2, <2>3, <2>5, <2>6, PagesSame DEF CdpIInv, CdpTypeOK
<1>3. QED
  BY <1>1, <1>2

(* The client is told of a target, and attends to a page.                   *)
LEMMA AttachedStep ==
  ASSUME CdpIInv, UNCHANGED launch, onAttached(launch)
  PROVE  CdpIInv'
<1>1. /\ toClient # <<>> /\ toClient' = Tail(toClient)
      /\ toBrowser' = IF Head(toClient) \in Pages
                        THEN toBrowser \o sendToSession(Head(toClient),
                                            <<"Page.enable">> \o applyToTarget(launch))
                        ELSE toBrowser
      /\ UNCHANGED <<ws, attachAll, page, seen>>
  BY DEF onAttached
<1>2. /\ toBrowser \in Seq(Commands) /\ toClient \in Seq(Pages \cup Others)
      /\ page \in [Pages -> Page]
  BY QueueTypes DEF CdpIInv
<1>3. PICK c \in Seq(Pages \cup Others), n \in Nat :
        c = toClient /\ n = Len(c) /\ n # 0 /\ DOMAIN c = 1..n
  BY <1>1, <1>2, EmptySeq, LenProperties
<1>4. /\ Head(c) \in Pages \cup Others /\ Tail(c) \in Seq(Pages \cup Others)
      /\ Len(Tail(c)) = n - 1 /\ \A i \in 1..(n - 1) : Tail(c)[i] = c[i + 1]
  BY <1>1, <1>3, HeadTailProperties
<1>5. DOMAIN Tail(c) = 1..(n - 1)
  BY <1>3, <1>4, LenProperties
<1>6. PICK h \in Pages \cup Others : h = Head(c) /\ h = c[1]
  BY <1>3, <1>4
<1>7. \A p \in Pages : Unknown(p) => p # h /\ \A i \in DOMAIN Tail(c) : Tail(c)[i] # p
  BY <1>3, <1>4, <1>5, <1>6 DEF Unknown
<1>8. CASE h \in Pages
  <2>1. PICK r : r = sendToSession(h, <<"Page.enable">> \o applyToTarget(launch))
    OBVIOUS
  <2>2. /\ r \in Seq(Pages \X Methods)
        /\ \A i \in DOMAIN r : r[i][1] = h
        /\ Ordered(r, h, {}, launch)
    BY <1>8, <2>1, ApplyIs
  <2>3. Pages \X Methods \subseteq Commands
    BY DEF Commands
  <2>4. r \in Seq(Commands)
    BY <2>2, <2>3, SeqMonotonic
  <2>5. PICK q : q = toBrowser \o r
    OBVIOUS
  <2>6. toBrowser' = q
    BY <1>1, <1>3, <1>6, <1>8, <2>1, <2>5
  <2>7. PICK m \in Nat, k \in Nat : /\ m = Len(toBrowser) /\ DOMAIN toBrowser = 1..m
                                    /\ k = Len(r) /\ DOMAIN r = 1..k
    BY <1>2, <2>4, LenProperties
  <2>8. /\ q \in Seq(Commands) /\ Len(q) = m + k
        /\ \A i \in 1..(m + k) : q[i] = IF i <= m THEN toBrowser[i] ELSE r[i - m]
    BY <1>2, <2>4, <2>5, <2>7, ConcatProperties
  <2>9. DOMAIN q = 1..(m + k)
    BY <2>8, LenProperties
  <2>10. ASSUME NEW p \in Pages, Unknown(p)
         PROVE  Unknown(p)'
    <3>1. ASSUME NEW i \in DOMAIN q PROVE q[i][1] # p
      <4>1. CASE i <= m
        BY <2>7, <2>8, <2>9, <2>10, <3>1, <4>1 DEF Unknown
      <4>2. CASE i > m
        <5>1. i - m \in 1..k /\ q[i] = r[i - m]
          BY <2>7, <2>8, <2>9, <3>1, <4>2
        <5>2. q[i][1] = h
          BY <2>2, <2>7, <5>1
        <5>3. QED
          BY <1>7, <2>10, <5>2
      <4>3. QED
        BY <2>7, <2>9, <3>1, <4>1, <4>2
    <3>2. QED
      BY <1>1, <1>3, <1>7, <2>6, <2>10, <3>1 DEF Unknown
  <2>11. ASSUME NEW p \in Pages, Ordered(toBrowser, p, page[p].overrides, launch)
         PROVE  Ordered(q, p, page[p].overrides, launch)
    <3>1. Ordered(r, p, {}, launch)
      <4>1. CASE p = h
        BY <2>2, <4>1
      <4>2. CASE p # h
        BY <2>2, <4>2 DEF Ordered
      <4>3. QED
        BY <4>1, <4>2
    <3>2. QED
      BY <1>2, <2>4, <2>5, <2>11, <3>1, OrderedConcat
  <2>12. /\ ws' \in {"none", "opening", "open", "closed"} /\ attachAll' \in BOOLEAN
         /\ seen' \subseteq Others /\ toBrowser' \in Seq(Commands)
         /\ toClient' \in Seq(Pages \cup Others)
    BY <1>1, <1>3, <1>4, <2>6, <2>8 DEF CdpIInv, CdpTypeOK
  <2>13. QED
    BY <1>1, <2>6, <2>10, <2>11, <2>12, PagesSame
<1>9. CASE h \notin Pages
  <2>1. toBrowser' = toBrowser
    BY <1>1, <1>3, <1>6, <1>9
  <2>2. \A p \in Pages : Unknown(p) => Unknown(p)'
    BY <1>1, <1>3, <1>7, <2>1 DEF Unknown
  <2>3. /\ ws' \in {"none", "opening", "open", "closed"} /\ attachAll' \in BOOLEAN
        /\ seen' \subseteq Others /\ toBrowser' \in Seq(Commands)
        /\ toClient' \in Seq(Pages \cup Others)
    BY <1>1, <1>2, <1>3, <1>4, <2>1 DEF CdpIInv, CdpTypeOK
  <2>4. QED
    BY <1>1, <2>1, <2>2, <2>3, PagesSame
<1>10. QED
  BY <1>8, <1>9

(* The browser runs a command: a load finds all that the page needs.        *)
LEMMA RunStep ==
  ASSUME CdpIInv, UNCHANGED launch, runCommand
  PROVE  CdpIInv'
<1>1. /\ toBrowser \in Seq(Commands) /\ toClient \in Seq(Pages \cup Others)
      /\ page \in [Pages -> Page]
      /\ \A c \in Commands : c \in RootCommands => c[1] = "root" /\ c[2] \notin Loads
      /\ \A c \in Commands : c[1] \in Pages => c \in Pages \X Methods
  BY QueueTypes DEF CdpIInv
<1>2. PICK q, l : q \in Seq(Commands) /\ q = toBrowser /\ q # <<>> /\ l = launch
  BY <1>1 DEF runCommand
<1>3. PICK n \in Nat : n = Len(q) /\ n # 0 /\ DOMAIN q = 1..n
  BY <1>2, EmptySeq, LenProperties
<1>4. PICK t : t = Tail(q)
  OBVIOUS
<1>5. /\ t \in Seq(Commands) /\ Len(t) = n - 1 /\ Head(q) \in Commands
      /\ \A i \in 1..(n - 1) : t[i] = q[i + 1]
  BY <1>2, <1>3, <1>4, HeadTailProperties
<1>6. DOMAIN t = 1..(n - 1)
  BY <1>5, LenProperties
<1>7. PICK h, method : h = Head(q)[1] /\ method = Head(q)[2]
  OBVIOUS
<1>8. /\ toBrowser' = t
      /\ attachAll' = (attachAll \/ method = "autoAttach")
      /\ page' = IF h \notin Pages \/ ~page[h].attached THEN page
                 ELSE IF method \in {"reload", "navigate"}
                   THEN [page EXCEPT ![h].doc = page[h].overrides, ![h].settled = TRUE]
                   ELSE [page EXCEPT ![h].overrides = @ \cup ({method} \cap Overrides)]
      /\ UNCHANGED <<ws, toClient, seen>>
  BY <1>2, <1>4, <1>7 DEF runCommand
<1>9. \A p \in Pages : (\A i \in DOMAIN q : q[i][1] # p) => (\A i \in DOMAIN t : t[i][1] # p)
  <2> TAKE p \in Pages
  <2> SUFFICES ASSUME \A i \in DOMAIN q : q[i][1] # p, NEW i \in DOMAIN t PROVE t[i][1] # p
    OBVIOUS
  <2>1. i \in 1..(n - 1) /\ i + 1 \in DOMAIN q
    BY <1>3, <1>6
  <2>2. QED
    BY <1>5, <2>1
<1>10. ASSUME NEW p \in Pages, NEW has, NEW more, Ordered(q, p, has, l), has \subseteq more,
              p = h => {method} \cap Overrides \subseteq more
       PROVE  Ordered(t, p, more, l)
  <2>1. \A o \in Overrides : Head(q) = <<p, o>> => o \in more
    <3>1. TAKE o \in Overrides
    <3>2. HAVE Head(q) = <<p, o>>
    <3>3. p = h /\ o = method
      BY <1>7, <3>2
    <3>4. QED
      BY <1>10, <3>3
  <2>2. QED
    BY <1>2, <1>3, <1>4, <1>10, <2>1, OrderedTail
<1>11. CASE h \notin Pages \/ ~page[h].attached
  <2>1. page' = page
    BY <1>8, <1>11
  <2>2. attachAll' \in BOOLEAN
    BY <1>8 DEF CdpIInv, CdpTypeOK
  <2>3. \A p \in Pages : Unknown(p) => Unknown(p)'
    BY <1>2, <1>8, <1>9 DEF Unknown
  <2>4. /\ ws' \in {"none", "opening", "open", "closed"}
        /\ seen' \subseteq Others /\ toBrowser' \in Seq(Commands)
        /\ toClient' \in Seq(Pages \cup Others)
    BY <1>1, <1>5, <1>8 DEF CdpIInv, CdpTypeOK
  <2>5. \A p \in Pages : page[p].attached /\ Ordered(toBrowser, p, page[p].overrides, launch)
          => Ordered(t, p, page[p].overrides, launch)
    <3>1. TAKE p \in Pages
    <3>2. HAVE page[p].attached /\ Ordered(toBrowser, p, page[p].overrides, launch)
    <3>3. p # h
      BY <1>11, <3>2
    <3>4. QED
      BY <1>2, <1>10, <3>2, <3>3
  <2>6. QED
    BY <1>8, <2>1, <2>2, <2>3, <2>4, <2>5, PagesSame
<1>12. CASE h \in Pages /\ page[h].attached
  <2>1. PICK r \in Page : r = page[h]
    BY <1>1, <1>12
  <2>2. Head(q) \in Pages \X Methods /\ method \in Methods
    BY <1>1, <1>5, <1>7, <1>12
  <2>3. ClientInv
    BY DEF CdpIInv
  <2>4. PICK s \in Page :
          /\ page' = [page EXCEPT ![h] = s]
          /\ s.open = r.open /\ s.attached = r.attached
          /\ r.overrides \subseteq s.overrides
          /\ method \in Loads => s.overrides = r.overrides /\ s.doc = r.overrides
          /\ method \notin Loads => /\ s.settled = r.settled /\ s.doc = r.doc
                                    /\ {method} \cap Overrides \subseteq s.overrides
    <3>1. CASE method \in Loads
      <4>1. page' = [page EXCEPT ![h].doc = page[h].overrides, ![h].settled = TRUE]
        BY <1>8, <1>12, <3>1 DEF Loads
      <4>2. PICK s : s = [r EXCEPT !.doc = r.overrides, !.settled = TRUE]
        OBVIOUS
      <4>3. page' = [page EXCEPT ![h] = s]
        BY <1>1, <2>1, <4>1, <4>2
      <4>4. s \in Page /\ s.open = r.open /\ s.attached = r.attached
            /\ s.overrides = r.overrides /\ s.doc = r.overrides
        BY <2>1, <4>2 DEF Page
      <4>5. QED
        BY <3>1, <4>3, <4>4
    <3>2. CASE method \notin Loads
      <4>1. page' = [page EXCEPT ![h].overrides = @ \cup ({method} \cap Overrides)]
        BY <1>8, <1>12, <3>2 DEF Loads
      <4>2. PICK s : s = [r EXCEPT !.overrides = r.overrides \cup ({method} \cap Overrides)]
        OBVIOUS
      <4>3. page' = [page EXCEPT ![h] = s]
        BY <1>1, <2>1, <4>1, <4>2
      <4>4. s \in Page /\ s.open = r.open /\ s.attached = r.attached
            /\ s.settled = r.settled /\ s.doc = r.doc
            /\ s.overrides = r.overrides \cup ({method} \cap Overrides)
        BY <2>1, <4>2 DEF Page
      <4>5. QED
        BY <3>2, <4>3, <4>4
    <3>3. QED
      BY <3>1, <3>2
  <2>5. /\ page' \in [Pages -> Page] /\ page'[h] = s
        /\ \A p \in Pages : p # h => page'[p] = page[p]
    BY <1>1, <1>12, <2>4
  <2>6. CdpTypeOK'
    <3>1. attachAll' \in BOOLEAN
      BY <1>8 DEF CdpIInv, CdpTypeOK
    <3>2. QED
      BY <1>5, <1>8, <2>5, <3>1 DEF CdpIInv, CdpTypeOK, Commands, Page
  <2>7. method \in Loads => Needed(l) \subseteq r.overrides
    <3>1. Ordered(q, h, r.overrides, l)
      BY <1>2, <1>12, <2>1, <2>3 DEF ClientInv
    <3>2. QED
      BY <1>2, <1>7, <3>1, OrderedHead
  <2>8. ASSUME NEW p \in Pages
        PROVE  /\ page'[p].attached => page'[p].open /\ Ordered(t, p, page'[p].overrides, l)
               /\ page'[p].open /\ ~page'[p].attached => Unknown(p)'
               /\ page'[p].settled => /\ page'[p].attached
                                      /\ Needed(l) \subseteq page'[p].overrides \cap page'[p].doc
    <3>1. /\ page[p].attached => page[p].open /\ Ordered(q, p, page[p].overrides, l)
          /\ page[p].open /\ ~page[p].attached => Unknown(p)
          /\ page[p].settled => /\ page[p].attached
                                /\ Needed(l) \subseteq page[p].overrides \cap page[p].doc
      BY <1>2, <2>3 DEF ClientInv
    <3>2. CASE p # h
      <4>1. page'[p] = page[p]
        BY <2>5, <3>2
      <4>2. page[p].attached => Ordered(t, p, page[p].overrides, l)
        BY <1>10, <3>1, <3>2
      <4>3. Unknown(p) => Unknown(p)'
        BY <1>2, <1>8, <1>9 DEF Unknown
      <4>4. QED
        BY <3>1, <4>1, <4>2, <4>3
    <3>3. CASE p = h
      <4>1. page'[p] = s /\ page[p] = r /\ r.attached
        BY <1>12, <2>1, <2>5, <3>3
      <4>2. s.attached /\ s.open /\ Ordered(q, p, r.overrides, l)
        BY <2>4, <3>1, <4>1
      <4>3. {method} \cap Overrides \subseteq s.overrides
        <5>1. Loads \cap Overrides = {}
          BY DEF Loads, Overrides
        <5>2. QED
          BY <2>4, <5>1
      <4>4. Ordered(t, p, s.overrides, l)
        BY <1>10, <2>4, <4>2, <4>3
      <4>5. s.settled => Needed(l) \subseteq s.overrides \cap s.doc
        <5>1. CASE method \in Loads
          BY <2>4, <2>7, <5>1
        <5>2. CASE method \notin Loads
          BY <2>4, <3>1, <4>1, <5>2
        <5>3. QED
          BY <5>1, <5>2
      <4>6. QED
        BY <4>1, <4>2, <4>4, <4>5
    <3>4. QED
      BY <3>2, <3>3
  <2>9. ClientInv'
    BY <1>2, <1>8, <2>8 DEF ClientInv
  <2>10. QED
    BY <2>6, <2>9 DEF CdpIInv
<1>13. QED
  BY <1>11, <1>12

(* A page is attached, opened, closed or loaded anew by the user. *)
LEMMA PageStep ==
  ASSUME CdpIInv, UNCHANGED launch, NEW p \in Pages,
         attach(p) \/ openPage(p) \/ closePage(p) \/ navigatePage(p)
  PROVE  CdpIInv'
<1>1. /\ toBrowser \in Seq(Commands) /\ toClient \in Seq(Pages \cup Others)
      /\ page \in [Pages -> Page] /\ ClientInv
  BY QueueTypes DEF CdpIInv
<1>2. PICK r \in Page : r = page[p]
  BY <1>1
<1>3. /\ r.attached => r.open /\ Ordered(toBrowser, p, r.overrides, launch)
      /\ r.open /\ ~r.attached => Unknown(p)
      /\ r.settled => r.attached /\ Needed(launch) \subseteq r.overrides \cap r.doc
  BY <1>1, <1>2 DEF ClientInv
<1>4. UNCHANGED <<ws, toBrowser, attachAll, seen, launch>>
  BY DEF attach, openPage, closePage, navigatePage
<1>5. \A has : Unknown(p) => Ordered(toBrowser, p, has, launch)
  BY DEF Unknown, Ordered
<1>6. \E s \in Page :
        /\ page' = [page EXCEPT ![p] = s]
        /\ s.attached => s.open /\ Ordered(toBrowser, p, s.overrides, launch)
        /\ s.open /\ ~s.attached => Unknown(p) /\ toClient' = toClient
        /\ s.settled => s.attached /\ Needed(launch) \subseteq s.overrides \cap s.doc
  <2>1. CASE attach(p)
    <3>1. page' = [page EXCEPT ![p].attached = TRUE] /\ r.open /\ ~r.attached
      BY <1>2, <2>1 DEF attach
    <3>2. PICK s : s = [r EXCEPT !.attached = TRUE]
      OBVIOUS
    <3>3. page' = [page EXCEPT ![p] = s]
      BY <1>1, <1>2, <3>1, <3>2
    <3>4. /\ s \in Page /\ s.attached /\ s.open = r.open /\ s.overrides = r.overrides
          /\ s.settled = r.settled
      BY <1>2, <3>2 DEF Page
    <3>5. QED
      BY <1>3, <1>5, <3>1, <3>3, <3>4
  <2>2. CASE openPage(p)
    <3>1. /\ page' = [page EXCEPT ![p] = [NoPage EXCEPT !.open = TRUE]] /\ Unknown(p)
          /\ toClient' = toClient
      BY <2>2 DEF openPage, Unknown
    <3>2. PICK s : s = [NoPage EXCEPT !.open = TRUE]
      OBVIOUS
    <3>3. s \in Page /\ ~s.attached /\ ~s.settled
      BY <3>2 DEF NoPage, Page
    <3>4. QED
      BY <3>1, <3>2, <3>3
  <2>3. CASE closePage(p)
    <3>1. page' = [page EXCEPT ![p] = NoPage]
      BY <2>3 DEF closePage
    <3>2. QED
      BY <3>1, NoPageIs
  <2>4. CASE navigatePage(p)
    <3>1. page' = [page EXCEPT ![p].doc = page[p].overrides] /\ r.open /\ toClient' = toClient
      BY <1>2, <2>4 DEF navigatePage
    <3>2. PICK s : s = [r EXCEPT !.doc = r.overrides]
      OBVIOUS
    <3>3. page' = [page EXCEPT ![p] = s]
      BY <1>1, <1>2, <3>1, <3>2
    <3>4. /\ s \in Page /\ s.attached = r.attached /\ s.open = r.open
          /\ s.overrides = r.overrides /\ s.doc = r.overrides /\ s.settled = r.settled
      BY <1>2, <3>2 DEF Page
    <3>5. QED
      BY <1>3, <3>1, <3>3, <3>4
  <2>5. QED
    BY <2>1, <2>2, <2>3, <2>4
<1>7. PICK s \in Page :
        /\ page' = [page EXCEPT ![p] = s]
        /\ s.attached => s.open /\ Ordered(toBrowser, p, s.overrides, launch)
        /\ s.open /\ ~s.attached => Unknown(p) /\ toClient' = toClient
        /\ s.settled => s.attached /\ Needed(launch) \subseteq s.overrides \cap s.doc
  BY <1>6
<1>8. /\ page' \in [Pages -> Page] /\ page'[p] = s
      /\ \A x \in Pages : x # p => page'[x] = page[x]
  BY <1>1, <1>7
<1>9. toClient' = toClient \/ toClient' = Append(toClient, p)
  BY DEF attach, openPage, closePage, navigatePage
<1>10. /\ toClient' \in Seq(Pages \cup Others)
       /\ \A x \in Pages \ {p} : Unknown(x) => Unknown(x)'
  <2>1. CASE toClient' = toClient
    BY <1>1, <1>4, <2>1 DEF Unknown
  <2>2. CASE toClient' = Append(toClient, p)
    <3>1. PICK n \in Nat : n = Len(toClient) /\ DOMAIN toClient = 1..n
      BY <1>1, LenProperties
    <3>2. PICK c : c = Append(toClient, p)
      OBVIOUS
    <3>3. /\ c \in Seq(Pages \cup Others) /\ Len(c) = n + 1 /\ c[n + 1] = p
          /\ \A i \in 1..n : c[i] = toClient[i]
      BY <1>1, <3>1, <3>2, AppendProperties
    <3>4. DOMAIN c = 1..(n + 1)
      BY <3>3, LenProperties
    <3>5. \A i \in DOMAIN c : i \in DOMAIN toClient \/ i = n + 1
      BY <3>1, <3>4
    <3>6. \A x \in Pages \ {p} : Unknown(x) => Unknown(x)'
      BY <1>4, <2>2, <3>1, <3>2, <3>3, <3>5 DEF Unknown
    <3>7. QED
      BY <2>2, <3>2, <3>3, <3>6
  <2>3. QED
    BY <1>9, <2>1, <2>2
<1>11. CdpTypeOK'
  BY <1>1, <1>4, <1>8, <1>10 DEF CdpIInv, CdpTypeOK, Page
<1>12. ClientInv'
  <2>1. ASSUME NEW x \in Pages
        PROVE  /\ page'[x].attached => page'[x].open /\ Ordered(toBrowser, x, page'[x].overrides, launch)
               /\ page'[x].open /\ ~page'[x].attached => Unknown(x)'
               /\ page'[x].settled => /\ page'[x].attached
                                      /\ Needed(launch) \subseteq page'[x].overrides \cap page'[x].doc
    <3>1. CASE x = p
      <4>1. Unknown(p) /\ toClient' = toClient => Unknown(p)'
        BY <1>4 DEF Unknown
      <4>2. QED
        BY <1>7, <1>8, <3>1, <4>1
    <3>2. CASE x # p
      BY <1>1, <1>8, <1>10, <3>2 DEF ClientInv
    <3>3. QED
      BY <3>1, <3>2
  <2>2. QED
    BY <1>4, <2>1 DEF ClientInv
<1>13. QED
  BY <1>11, <1>12 DEF CdpIInv

LEMMA OtherStep ==
  ASSUME CdpIInv, UNCHANGED launch, NEW t \in Others, attachOther(t)
  PROVE  CdpIInv'
<1>1. /\ seen' = seen \cup {t} /\ toClient' = Append(toClient, t)
      /\ UNCHANGED <<ws, toBrowser, attachAll, page>>
  BY DEF attachOther
<1>2. toBrowser \in Seq(Commands) /\ toClient \in Seq(Pages \cup Others)
  BY QueueTypes DEF CdpIInv
<1>3. PICK n \in Nat : n = Len(toClient) /\ DOMAIN toClient = 1..n
  BY <1>2, LenProperties
<1>4. PICK c : c = Append(toClient, t)
  OBVIOUS
<1>5. /\ c \in Seq(Pages \cup Others) /\ Len(c) = n + 1 /\ c[n + 1] = t
      /\ \A i \in 1..n : c[i] = toClient[i]
  BY <1>2, <1>3, <1>4, AppendProperties
<1>6. DOMAIN c = 1..(n + 1)
  BY <1>5, LenProperties
<1>7. \A i \in DOMAIN c : i \in DOMAIN toClient \/ i = n + 1
  BY <1>3, <1>6
<1>8. \A x \in Pages : x # t
  BY TargetsAssumption
<1>9. \A x \in Pages : Unknown(x) => Unknown(x)'
  BY <1>1, <1>3, <1>4, <1>5, <1>7, <1>8 DEF Unknown
<1>10. /\ ws' \in {"none", "opening", "open", "closed"} /\ attachAll' \in BOOLEAN
       /\ seen' \subseteq Others /\ toBrowser' \in Seq(Commands)
       /\ toClient' \in Seq(Pages \cup Others)
  BY <1>1, <1>2, <1>4, <1>5 DEF CdpIInv, CdpTypeOK
<1>11. QED
  BY <1>1, <1>9, <1>10, PagesSame

(* The browser is gone, and all that was on its way. *)
LEMMA GoneStep ==
  ASSUME CdpIInv, browserGone
  PROVE  CdpIInv' /\ ws' \notin {"opening", "open"} /\ (ws' # "none" => ws # "none")
<1>1. /\ ws' = IF ws = "none" THEN "none" ELSE "closed"
      /\ toBrowser' = <<>> /\ toClient' = <<>> /\ attachAll' = FALSE
      /\ page' = [p \in Pages |-> NoPage] /\ seen' = {}
  BY DEF browserGone
<1>2. <<>> \in Seq(Commands) /\ <<>> \in Seq(Pages \cup Others)
  BY EmptySeq
<1>3. CdpTypeOK'
  BY <1>1, <1>2, NoPageIs DEF CdpTypeOK, Commands, Page
<1>4. ClientInv'
  <2>1. \A p \in Pages : page'[p] = NoPage
    BY <1>1
  <2>2. QED
    BY <2>1, NoPageIs DEF ClientInv
<1>5. QED
  BY <1>1, <1>3, <1>4 DEF CdpIInv

-----------------------------------------------------------------------------
(* The plan of a launch.                                                   *)

LEMMA NoPlanIs == NoPlan \in Plans /\ Sound(NoPlan) /\ ~NoPlan.cdp /\ ~NoPlan.mapper
BY DEF NoPlan, Plans, Sound

(* A plan leaves no field of the fingerprint, and no location, both to the  *)
(* binary that cannot do it and out of the overrides, the arguments and the *)
(* extension.                                                               *)
LEMMA PlanIs ==
  ASSUME NEW r \in Requests, NEW w \in Worlds
  PROVE  plan(r, w) \in Plans /\ Sound(plan(r, w))
<1>1. /\ r.features \subseteq Capabilities /\ r.fields \subseteq Fields
      /\ r.geo \in BOOLEAN /\ r.url \in BOOLEAN /\ r.compat \in BOOLEAN /\ r.capture \in BOOLEAN
      /\ r.auth \in BOOLEAN
  BY DEF Requests
<1>2. /\ w.supports \subseteq Capabilities /\ w.extension \in BOOLEAN
      /\ w.listens \in BOOLEAN /\ w.port \in BOOLEAN
  BY DEF Worlds
<1>3. PICK can : can = native(r, w)
  OBVIOUS
<1>4. can \subseteq Capabilities /\ can \cap w.supports = can
  BY <1>1, <1>2, <1>3 DEF native, probe
<1>5. PICK over : over = fallbackFields(r, w)
  OBVIOUS
<1>6. /\ over = IF "native_fingerprint" \notin can /\ r.fields \ {"resolution"} # {}
                THEN r.fields ELSE {}
      /\ over \subseteq Fields
  BY <1>1, <1>3, <1>5 DEF fallbackFields, fingerprintFallbackNeeded
<1>7. PICK given : given = buildArguments(r) \cup createProfileExtension(r, w)
  OBVIOUS
<1>8. given \subseteq Fields
  BY <1>1, <1>5, <1>6, <1>7 DEF buildArguments, createProfileExtension
<1>9. w.extension /\ "native_fingerprint" \notin can => r.fields \subseteq given
  <2>1. SUFFICES ASSUME w.extension, "native_fingerprint" \notin can
                 PROVE  r.fields \subseteq given
    OBVIOUS
  <2>2. CASE r.fields \ {"resolution"} # {}
    <3>1. fingerprintFallbackNeeded(r, w)
      BY <1>3, <2>1, <2>2 DEF fingerprintFallbackNeeded
    <3>2. createProfileExtension(r, w) = over /\ over = r.fields
      BY <1>5, <1>6, <2>1, <2>2, <3>1 DEF createProfileExtension, needsExtension, needInject
    <3>3. QED
      BY <1>7, <3>2
  <2>3. CASE r.fields \ {"resolution"} = {}
    <3>1. "hardware" \notin r.fields
      BY <2>3
    <3>2. QED
      BY <1>7, <3>1 DEF buildArguments
  <2>4. QED
    BY <2>2, <2>3
<1>10. PICK geoNeeded \in BOOLEAN : geoNeeded <=> geoFallbackNeeded(r, w)
  OBVIOUS
<1>11. geoNeeded <=> r.geo /\ "native_geoip" \notin can
  BY <1>3, <1>10 DEF geoFallbackNeeded
<1>12. /\ geoFallbackNeeded(r, w) \in BOOLEAN
       /\ (needInject(r, w) /\ debugPort(r, w)) \in BOOLEAN
       /\ proxyMapper(r, w) \in BOOLEAN
  BY DEF geoFallbackNeeded, needInject, debugPort, proxyMapper
<1>13. PICK l : l = plan(r, w)
  OBVIOUS
<1>14. l = [native |-> can, fields |-> r.fields, geo |-> r.geo, override |-> over,
            overrideGeo |-> geoFallbackNeeded(r, w), metrics |-> r.engine # "doke_chromium",
            url |-> r.url, cdp |-> needInject(r, w) /\ debugPort(r, w),
            extension |-> w.extension, injected |-> given, mapper |-> proxyMapper(r, w),
            compat |-> r.compat]
  BY <1>3, <1>4, <1>5, <1>7, <1>13 DEF plan, runtimeConfig
<1>15. l \in Plans
  BY <1>1, <1>2, <1>4, <1>6, <1>8, <1>12, <1>14 DEF Plans
<1>16. /\ l.native = can /\ l.fields = r.fields /\ l.geo = r.geo /\ l.override = over
       /\ l.extension = w.extension /\ l.injected = given
       /\ l.overrideGeo = geoFallbackNeeded(r, w)
  BY <1>14
<1>17. Sound(l)
  <2>1. "native_fingerprint" \notin can => r.fields \subseteq over \cup {"resolution"}
    BY <1>6
  <2>2. l.geo /\ "native_geoip" \notin l.native => l.overrideGeo
    BY <1>10, <1>11, <1>16
  <2>3. l.extension =>
          (IF "native_fingerprint" \in l.native THEN {} ELSE l.fields) \subseteq l.injected
    BY <1>9, <1>16
  <2>4. (IF "native_fingerprint" \in l.native THEN {} ELSE l.fields)
           \subseteq l.override \cup {"resolution"}
    BY <1>16, <2>1
  <2>5. QED
    BY <2>2, <2>3, <2>4 DEF Sound
<1>18. QED
  BY <1>13, <1>15, <1>17

-----------------------------------------------------------------------------
(* The whole session.                                                      *)

SessionType ==
  /\ launch \in Plans
  /\ process \in {"none", "up", "again", "ended"}
  /\ polls \in 0..MaxPolls
  /\ ws # "none" => launch.cdp
  /\ client # "none" => launch.mapper
  /\ process \in {"none", "ended"} => ws \notin {"opening", "open"} /\ client # "open"

LEMMA Parts == IInv <=> SessionType /\ SessionInv /\ CdpIInv /\ MapperIInv
BY DEF IInv, TypeOK, SessionType, CdpIInv, MapperIInv

LEMMA PartsNext == IInv' <=> SessionType' /\ SessionInv' /\ CdpIInv' /\ MapperIInv'
BY DEF IInv, TypeOK, SessionType, CdpIInv, MapperIInv

(* Nothing of the client, or nothing of the mapper, changes. *)
LEMMA CdpSame ==
  ASSUME CdpIInv, UNCHANGED cdpVars, UNCHANGED launch \/ page = [p \in Pages |-> NoPage]
  PROVE  CdpIInv'
<1>1. UNCHANGED <<ws, toBrowser, toClient, attachAll, page, seen>>
  BY DEF cdpVars
<1>2. CdpTypeOK'
  BY <1>1 DEF CdpIInv, CdpTypeOK
<1>3. ClientInv'
  <2>1. CASE UNCHANGED launch
    BY <1>1, <2>1 DEF CdpIInv, ClientInv, Unknown
  <2>2. CASE page = [p \in Pages |-> NoPage]
    <3>1. \A p \in Pages : page'[p] = NoPage
      BY <1>1, <2>2
    <3>2. QED
      BY <3>1, NoPageIs DEF ClientInv
  <2>3. QED
    BY <2>1, <2>2
<1>4. QED
  BY <1>2, <1>3 DEF CdpIInv

LEMMA MapperSame == ASSUME MapperIInv, UNCHANGED mapperVars PROVE MapperIInv'
BY DEF MapperIInv, MapperTypeOK, MapperInv, mapperVars

LEMMA InitIInv == Init => IInv
<1> SUFFICES ASSUME Init PROVE IInv
  OBVIOUS
<1>1. \A S : <<>> \in Seq(S)
  BY EmptySeq
<1>2. /\ launch = NoPlan /\ process = "none" /\ polls = 0 /\ CdpInit /\ MapperInit
  BY DEF Init
<1>3. SessionType /\ SessionInv
  BY <1>2, NoPlanIs, MaxPollsAssumption DEF SessionType, SessionInv, CdpInit, MapperInit
<1>4. CdpIInv
  <2>1. \A p \in Pages : page[p] = NoPage
    BY <1>2 DEF CdpInit
  <2>2. ClientInv
    BY <2>1, NoPageIs DEF ClientInv
  <2>3. CdpTypeOK
    BY <1>1, <1>2, NoPageIs DEF CdpInit, CdpTypeOK, Page
  <2>4. QED
    BY <2>2, <2>3 DEF CdpIInv
<1>5. MapperIInv
  <2>1. kind \in Kinds /\ Len(Answers) = 3
    BY <1>2, Tuples DEF MapperInit, Kinds
  <2>2. /\ SubSeq(Sends(kind), 1, 0) = <<>> /\ SubSeq(Answers, 1, 0) = <<>>
        /\ SubSeq(Relayed(kind), 1, 0) = <<>>
    BY SubSeqEmpty
  <2>3. MapperTypeOK
    <3>1. /\ buffer \in Seq(ToSet(Sends(kind)) \cup ToSet(Answers))
          /\ wrote \in Seq(ToSet(Relayed(kind)) \cup ToSet(Sends(kind)))
          /\ clientGot \in Seq(ToSet(Answers))
      BY <1>1, <1>2 DEF MapperInit
    <3>2. read \in 0..4 /\ answered \in 0..Len(Answers)
      BY <1>2, <2>1 DEF MapperInit
    <3>3. /\ kind \in {"plain", "connect"} /\ client \in {"none", "open", "closed"}
          /\ parsed \in BOOLEAN /\ isConnect \in BOOLEAN /\ early \in BOOLEAN
          /\ upstream \in {"none", "connecting", "open", "failed", "closed"}
      BY <1>2 DEF MapperInit
    <3>4. QED
      BY <3>1, <3>2, <3>3 DEF MapperTypeOK
  <2>4. MapperInv
    <3>1. 0 \in 0..3
      OBVIOUS
    <3>2. QED
      BY <1>2, <2>2, <3>1 DEF MapperInit, MapperInv
  <2>5. QED
    BY <2>3, <2>4 DEF MapperIInv
<1>6. QED
  BY <1>3, <1>4, <1>5, Parts

LEMMA StartStep ==
  ASSUME IInv, NEW o \in Offered, startRefused(o[1], o[2]) \/ startProfile(o[1], o[2])
  PROVE  IInv'
<1>1. SessionType /\ SessionInv /\ CdpIInv /\ MapperIInv
  BY Parts
<1>2. /\ process = "none" /\ UNCHANGED <<cdpVars, mapperVars>>
      /\ process' \in {"up", "ended"}
  BY DEF startRefused, startProfile
<1>3. CdpIInv' /\ MapperIInv'
  BY <1>1, <1>2, CdpSame, MapperSame DEF SessionInv
<1>4. ws = "none" /\ client = "none" /\ ws' = "none" /\ client' = "none"
  BY <1>1, <1>2 DEF SessionInv, cdpVars, mapperVars
<1>5. CASE startRefused(o[1], o[2])
  <2>1. UNCHANGED <<launch, polls>>
    BY <1>5 DEF startRefused
  <2>2. SessionType' /\ SessionInv'
    BY <1>1, <1>2, <1>4, <2>1 DEF SessionType, SessionInv
  <2>3. QED
    BY <1>3, <2>2, PartsNext
<1>6. CASE startProfile(o[1], o[2])
  <2>1. o[1] \in Requests /\ o[2] \in Worlds
    BY OfferedAssumption
  <2>2. PICK l : l = plan(o[1], o[2]) /\ l \in Plans /\ Sound(l)
    BY <2>1, PlanIs
  <2>3. launch' = l /\ polls' = IF l.cdp THEN MaxPolls ELSE 0
    BY <1>6, <2>2 DEF startProfile
  <2>4. polls' \in 0..MaxPolls /\ (polls' > 0 => l.cdp)
    BY <2>3, MaxPollsAssumption
  <2>5. process' = "up"
    BY <1>6 DEF startProfile
  <2>6. SessionType' /\ SessionInv'
    BY <1>4, <2>2, <2>3, <2>4, <2>5 DEF SessionType, SessionInv
  <2>7. QED
    BY <1>3, <2>6, PartsNext
<1>7. QED
  BY <1>5, <1>6

LEMMA PollStep ==
  ASSUME IInv, pollAnswered \/ pollFails
  PROVE  IInv'
<1>1. SessionType /\ SessionInv /\ CdpIInv /\ MapperIInv
  BY Parts
<1>2. /\ process \in {"up", "again"} /\ polls > 0 /\ polls \in 0..MaxPolls
      /\ UNCHANGED <<launch, process, mapperVars>>
  BY <1>1 DEF pollAnswered, pollFails, alive, SessionType
<1>3. MapperIInv' /\ client' = client
  BY <1>1, <1>2, MapperSame DEF mapperVars
<1>4. launch.cdp
  BY <1>1, <1>2 DEF SessionInv
<1>5. polls' \in 0..MaxPolls
  BY <1>2, MaxPollsAssumption DEF pollAnswered, pollFails
<1>6. CdpIInv'
  BY <1>1, <1>2, CdpSame, SocketStep DEF pollAnswered, pollFails
<1>7. SessionType' /\ SessionInv'
  BY <1>1, <1>2, <1>3, <1>4, <1>5 DEF SessionType, SessionInv
<1>8. QED
  BY <1>3, <1>6, <1>7, PartsNext

(* What is left of a connection that ends is no open one. *)
LEMMA EndStep ==
  ASSUME MapperIInv, connectionEnds
  PROVE  MapperIInv' /\ client' # "open" /\ (client' # "none" => client # "none")
<1>1. /\ client' = IF client = "open" THEN "closed" ELSE client
      /\ upstream' = IF upstream = "none" THEN "none" ELSE "closed"
      /\ UNCHANGED <<kind, read, parsed, isConnect, buffer, wrote, answered, clientGot, early>>
  BY DEF connectionEnds
<1>2. client \in {"none", "open", "closed"}
  BY DEF MapperIInv, MapperTypeOK
<1>3. QED
  BY <1>1, <1>2, ConnectionStep

(* The browser ends, for good or to be started again. *)
LEMMA BrowserStep ==
  ASSUME IInv, browserRelaunched \/ browserEnds
  PROVE  IInv'
<1>1. SessionType /\ SessionInv /\ CdpIInv /\ MapperIInv
  BY Parts
<1>2. /\ browserGone /\ connectionEnds /\ launch' = launch
      /\ process' \in {"again", "ended"} /\ polls' \in {0, polls}
  BY DEF browserRelaunched, browserEnds
<1>3. CdpIInv' /\ ws' \notin {"opening", "open"} /\ (ws' # "none" => ws # "none")
  BY <1>1, <1>2, GoneStep
<1>4. MapperIInv' /\ client' # "open" /\ (client' # "none" => client # "none")
  BY <1>1, <1>2, EndStep
<1>5. polls' \in 0..MaxPolls /\ (polls' > 0 => polls > 0)
  BY <1>1, <1>2, MaxPollsAssumption DEF SessionType
<1>6. SessionType' /\ SessionInv'
  BY <1>1, <1>2, <1>3, <1>4, <1>5 DEF SessionType, SessionInv
<1>7. QED
  BY <1>3, <1>4, <1>6, PartsNext

LEMMA CdpStepKeeps ==
  ASSUME IInv, cdpStep
  PROVE  IInv'
<1>1. SessionType /\ SessionInv /\ CdpIInv /\ MapperIInv
  BY Parts
<1>2. /\ process \in {"up", "again"} /\ UNCHANGED <<launch, process, polls, mapperVars>>
  BY DEF cdpStep, alive
<1>3. MapperIInv' /\ client' = client
  BY <1>1, <1>2, MapperSame DEF mapperVars
<1>4. CdpIInv'
  BY <1>1, <1>2, SocketStep, AttachedStep, RunStep, PageStep, OtherStep DEF cdpStep
<1>5. ws' # "none" => ws # "none"
  BY DEF cdpStep, onConnected, onAttached, runCommand, attach, openPage, closePage,
         navigatePage, attachOther
<1>6. SessionType' /\ SessionInv'
  BY <1>1, <1>2, <1>3, <1>5 DEF SessionType, SessionInv
<1>7. QED
  BY <1>3, <1>4, <1>6, PartsNext

LEMMA MapperStepKeeps ==
  ASSUME IInv, mapperStep
  PROVE  IInv'
<1>1. SessionType /\ SessionInv /\ CdpIInv /\ MapperIInv
  BY Parts
<1>2. /\ process \in {"up", "again"} /\ launch.mapper
      /\ UNCHANGED <<launch, process, polls, cdpVars>>
  BY DEF mapperStep, alive
<1>3. CdpIInv' /\ ws' = ws
  BY <1>1, <1>2, CdpSame DEF cdpVars
<1>4. MapperIInv'
  <2>1. CASE \E k \in {"plain", "connect"} : onNewConnection(k)
    BY <1>1, <2>1, OpenStep DEF Kinds
  <2>2. CASE \E n \in 1..4 : onClientReadyRead(n) \/ onUpstreamReadyRead(n)
    BY <1>1, <2>2, HeaderStep, BodyStep, AnswerStep
  <2>3. CASE onUpstreamConnected
    BY <1>1, <2>3, ConnectedStep
  <2>4. CASE upstreamFails
    <3>1. client \in {"none", "open", "closed"} /\ upstream = "connecting"
          /\ client' = client /\ upstream' = "failed"
          /\ UNCHANGED <<kind, read, parsed, isConnect, buffer, wrote, answered, clientGot, early>>
      BY <1>1, <2>4 DEF upstreamFails, MapperIInv, MapperTypeOK
    <3>2. QED
      BY <1>1, <3>1, ConnectionStep
  <2>5. CASE onUpstreamDisconnected
    <3>1. upstream = "open" /\ client' = "closed" /\ upstream' = "closed"
          /\ UNCHANGED <<kind, read, parsed, isConnect, buffer, wrote, answered, clientGot, early>>
      BY <2>5 DEF onUpstreamDisconnected
    <3>2. QED
      BY <1>1, <3>1, ConnectionStep
  <2>6. CASE connectionEnds
    BY <1>1, <2>6, EndStep
  <2>7. QED
    BY <2>1, <2>2, <2>3, <2>4, <2>5, <2>6 DEF mapperStep
<1>5. SessionType' /\ SessionInv'
  BY <1>1, <1>2, <1>3 DEF SessionType, SessionInv
<1>6. QED
  BY <1>3, <1>4, <1>5, PartsNext

LEMMA NextIInv == IInv /\ [Next]_vars => IInv'
<1> SUFFICES ASSUME IInv, [Next]_vars PROVE IInv'
  OBVIOUS
<1>1. CASE \E o \in Offered : startRefused(o[1], o[2]) \/ startProfile(o[1], o[2])
  BY <1>1, StartStep
<1>2. CASE pollAnswered \/ pollFails
  BY <1>2, PollStep
<1>3. CASE browserRelaunched \/ browserEnds
  BY <1>3, BrowserStep
<1>4. CASE cdpStep
  BY <1>4, CdpStepKeeps
<1>5. CASE mapperStep
  BY <1>5, MapperStepKeeps
<1>6. CASE UNCHANGED vars
  <2>1. UNCHANGED <<launch, process, polls>> /\ UNCHANGED cdpVars /\ UNCHANGED mapperVars
    BY <1>6 DEF vars
  <2>2. SessionType /\ SessionInv /\ CdpIInv /\ MapperIInv
    BY Parts
  <2>3. CdpIInv' /\ MapperIInv'
    BY <2>1, <2>2, CdpSame, MapperSame
  <2>4. ws' = ws /\ toBrowser' = toBrowser /\ toClient' = toClient /\ page' = page /\ client' = client
    BY <2>1 DEF cdpVars, mapperVars
  <2>5. SessionType' /\ SessionInv'
    BY <2>1, <2>2, <2>4 DEF SessionType, SessionInv
  <2>6. QED
    BY <2>3, <2>5, PartsNext
<1>7. QED
  BY <1>1, <1>2, <1>3, <1>4, <1>5, <1>6 DEF Next

(* What is settled has been told, and in time. *)
LEMMA Covered ==
  ASSUME IInv
  PROVE  PagesCovered
<1>1. Sound(launch) /\ CdpIInv
  BY Parts DEF SessionInv
<1>2. PICK left, over : left = LeftToAgent /\ over = launch.override
  OBVIOUS
<1>3. /\ left \subseteq over \cup {"resolution"}
      /\ launch.extension => left \subseteq launch.injected
      /\ launch.geo /\ "native_geoip" \notin launch.native => launch.overrideGeo
  BY <1>1, <1>2 DEF Sound, LeftToAgent
<1>4. ASSUME NEW p \in Pages, page[p].settled
      PROVE  /\ \A f \in left : Enforcing(f) \subseteq page[p].doc
             /\ launch.geo /\ "native_geoip" \notin launch.native => "geo" \in page[p].doc
  <2>1. Needed(launch) \subseteq page[p].doc
    BY <1>1, <1>4 DEF CdpIInv, ClientInv
  <2>2. ASSUME NEW f \in left
        PROVE  Enforcing(f) \subseteq Needed(launch)
    <3>1. left \subseteq Fields
      <4>1. launch \in Plans
        BY Parts DEF SessionType
      <4>2. launch.fields \subseteq Fields
        BY <4>1 DEF Plans
      <4>3. QED
        BY <1>2, <4>2 DEF LeftToAgent
    <3>2. f = "resolution" \/ f \in launch.override
      BY <1>2, <1>3, <2>2
    <3>3. CASE f = "resolution"
      BY <3>3 DEF Enforcing
    <3>4. CASE f \in launch.override /\ f # "resolution"
      <4>1. "script" \in Needed(launch)
        BY <3>4, WantedIs
      <4>2. CASE f = "timezone"
        BY <3>4, <4>1, <4>2, WantedIs DEF Enforcing
      <4>3. CASE f = "userAgent"
        BY <3>4, <4>1, <4>3, WantedIs DEF Enforcing
      <4>4. CASE f = "language"
        BY <3>4, <4>1, <4>4, WantedIs DEF Enforcing
      <4>5. CASE f = "touch"
        BY <3>4, <4>1, <4>5, WantedIs DEF Enforcing
      <4>6. CASE f = "hardware"
        BY <4>1, <4>6 DEF Enforcing
      <4>7. QED
        BY <2>2, <3>1, <3>4, <4>2, <4>3, <4>4, <4>5, <4>6 DEF Fields
    <3>5. QED
      BY <3>2, <3>3, <3>4
  <2>3. launch.geo /\ "native_geoip" \notin launch.native => "geo" \in Needed(launch)
    BY <1>3, WantedIs
  <2>4. QED
    BY <2>1, <2>2, <2>3
<1>5. QED
  BY <1>2, <1>3, <1>4 DEF PagesCovered

-----------------------------------------------------------------------------
(* The launch, the pages, the queues between client and browser and the     *)
(* mapper's connection keep together what the promises below need.          *)
THEOREM Invariance == Spec => []IInv
<1>1. Init => IInv
  BY InitIInv
<1>2. IInv /\ [Next]_vars => IInv'
  BY NextIInv
<1>3. QED
  BY <1>1, <1>2, PTL DEF Spec

(* A launch that ends, or is to have none, has no CDP client and no         *)
(* connection of the mapper: finished in SystemChromeEngine.cpp:675-720,    *)
(* cleanupProfileResources in ProfileRuntimeManager.cpp:631-637.            *)
THEOREM TypeCorrect == Spec => []TypeOK
<1>1. IInv => TypeOK
  BY DEF IInv
<1>2. QED
  BY <1>1, Invariance, PTL

(* A page the client has attended to shows no document that was loaded      *)
(* before an override of the profile, and a field that the binary does not  *)
(* do itself is never left out: the order of CdpClient.cpp:310-399, and the *)
(* fallbacks of ProfileRuntimeManager.cpp:269-294.                          *)
THEOREM FingerprintCovered == Spec => []PagesCovered
<1>1. IInv => PagesCovered
  BY Covered
<1>2. QED
  BY <1>1, Invariance, PTL

(* The proxy gets the rewritten header, then the body, each piece once; the *)
(* browser gets the answer in order, wherever TCP cuts them                 *)
(* (HttpProxyMapper.cpp:127-258).                                           *)
THEOREM RelayedInOrder == Spec => []MapperInOrder
<1>1. IInv => MapperInOrder
  BY InOrder, Parts
<1>2. QED
  BY <1>1, Invariance, PTL
=============================================================================
