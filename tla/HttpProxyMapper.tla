-------------------------- MODULE HttpProxyMapper --------------------------
(***************************************************************************)
(* The local proxy that adds the credentials of an HTTP proxy: one of its  *)
(* connections, which are independent, between the browser and the         *)
(* upstream proxy.  Data is pieces, cut where TCP happens to cut them; each *)
(* event of a socket hands over what has arrived so far.                   *)
(***************************************************************************)
EXTENDS Naturals, Sequences, SequencesExt

VARIABLES
  kind,      \* the request of the connection: "plain" or "connect"
  client,    \* the browser's side
  read,      \* pieces of the browser's that the mapper has read
  parsed,    \* Conn::headerParsed
  isConnect, \* Conn::isConnect
  buffer,    \* Conn::buffer
  upstream,  \* the upstream side
  wrote,     \* written to it
  answered,  \* pieces of its answer that the mapper has read
  clientGot, \* written to the browser
  early      \* history: the browser was read while the upstream connected

mapperVars ==
  <<kind, client, read, parsed, isConnect, buffer, upstream, wrote, answered, clientGot, early>>

(* What the browser sends: "h2" ends the header.  It enters a tunnel only  *)
(* when it has the answer to its CONNECT, which "a2" ends.                  *)
Sends(k) == IF k = "plain" THEN <<"h1", "h2", "b1", "b2">> ELSE <<"h1", "h2", "t1", "t2">>
Answers == <<"a1", "a2", "d1">>

(* What the upstream proxy shall see of it: the header as the mapper        *)
(* rewrites it, or a CONNECT of the mapper's own.                           *)
Relayed(k) == IF k = "plain" THEN <<"header", "b1", "b2">> ELSE <<"connect", "t1", "t2">>

Readable == IF kind = "connect" /\ "a2" \notin ToSet(clientGot) THEN 2 ELSE 4

MapperTypeOK ==
  /\ kind \in {"plain", "connect"}
  /\ client \in {"none", "open", "closed"}
  /\ read \in 0..4
  /\ parsed \in BOOLEAN /\ isConnect \in BOOLEAN /\ early \in BOOLEAN
  /\ buffer \in Seq(ToSet(Sends(kind)) \cup ToSet(Answers))
  /\ upstream \in {"none", "connecting", "open", "failed", "closed"}
  /\ wrote \in Seq(ToSet(Relayed(kind)) \cup ToSet(Sends(kind)))
  /\ answered \in 0..Len(Answers)
  /\ clientGot \in Seq(ToSet(Answers))

MapperInit ==
  /\ kind = "plain" /\ client = "none" /\ read = 0
  /\ parsed = FALSE /\ isConnect = FALSE /\ buffer = <<>>
  /\ upstream = "none" /\ wrote = <<>>
  /\ answered = 0 /\ clientGot = <<>> /\ early = FALSE

-----------------------------------------------------------------------------
onNewConnection(k) ==
  /\ client = "none"
  /\ client' = "open" /\ kind' = k
  /\ UNCHANGED <<read, parsed, isConnect, buffer, upstream, wrote, answered, clientGot, early>>

(* What is left of data after its header has been taken out. *)
After(data, last) ==
  SubSeq(data, (CHOOSE i \in DOMAIN data : data[i] = last) + 1, Len(data))

(* Mutant: the end of the header is left in the buffer. *)
readUntilHeadersSeen(n) ==
  LET got == buffer \o SubSeq(Sends(kind), read + 1, n) IN
  IF "h2" \in ToSet(got)
    THEN /\ parsed' = TRUE
         /\ isConnect' = (kind = "connect")
         /\ upstream' = "connecting"
         /\ buffer' = <<"h2">> \o After(got, "h2")
    ELSE /\ buffer' = got
         /\ UNCHANGED <<parsed, isConnect, upstream>>

(* When the header is complete, connect to the proxy and keep what came    *)
(* with it.                                                                 *)
readUntilHeadersComplete(n) ==
  LET got == buffer \o SubSeq(Sends(kind), read + 1, n) IN
  IF "h2" \in ToSet(got)
    THEN /\ parsed' = TRUE
         /\ isConnect' = (kind = "connect")
         /\ upstream' = "connecting"
         /\ buffer' = After(got, "h2")
    ELSE /\ buffer' = got
         /\ UNCHANGED <<parsed, isConnect, upstream>>

(* What a socket that still connects is given, it sends first; one that    *)
(* has failed or is closed takes nothing.                                   *)
onClientReadyRead(n) ==
  /\ client = "open" /\ n > read /\ n <= Readable
  /\ read' = n
  /\ IF ~parsed
       THEN readUntilHeadersComplete(n) /\ UNCHANGED <<wrote, early>>
       ELSE /\ wrote' = IF upstream \in {"connecting", "open"}
                          THEN wrote \o SubSeq(Sends(kind), read + 1, n) ELSE wrote
            /\ early' = (early \/ upstream = "connecting")
            /\ UNCHANGED <<parsed, isConnect, buffer, upstream>>
  /\ UNCHANGED <<kind, client, answered, clientGot>>

(* connected, or encrypted for a proxy spoken to over TLS. *)
onUpstreamConnected ==
  /\ upstream = "connecting"
  /\ upstream' = "open"
  /\ wrote' = wrote \o (IF isConnect THEN <<"connect">> ELSE <<"header">> \o buffer)
  /\ buffer' = IF isConnect THEN buffer ELSE <<>>
  /\ UNCHANGED <<kind, client, read, parsed, isConnect, answered, clientGot, early>>

(* Nobody listens for errors: the browser is left waiting. *)
upstreamFails ==
  /\ upstream = "connecting"
  /\ upstream' = "failed"
  /\ UNCHANGED <<kind, client, read, parsed, isConnect, buffer, wrote, answered, clientGot, early>>

onUpstreamReadyRead(n) ==
  /\ upstream = "open" /\ client = "open"
  /\ n > answered /\ n <= Len(Answers)
  /\ answered' = n
  /\ LET arrived == SubSeq(Answers, answered + 1, n)
         reply   == buffer \o arrived
     IN
     IF ~isConnect
       THEN clientGot' = clientGot \o arrived /\ UNCHANGED <<isConnect, buffer>>
     ELSE IF "a2" \in ToSet(reply)
       THEN clientGot' = clientGot \o reply /\ isConnect' = FALSE /\ buffer' = <<>>
     ELSE buffer' = reply /\ UNCHANGED <<clientGot, isConnect>>
  /\ UNCHANGED <<kind, client, read, parsed, upstream, wrote, early>>

onUpstreamDisconnected ==
  /\ upstream = "open"
  /\ upstream' = "closed" /\ client' = "closed"
  /\ UNCHANGED <<kind, read, parsed, isConnect, buffer, wrote, answered, clientGot, early>>

(* The browser hangs up, the browser is gone, or the mapper is deleted.    *)
connectionEnds ==
  /\ client' = IF client = "open" THEN "closed" ELSE client
  /\ upstream' = IF upstream = "none" THEN "none" ELSE "closed"
  /\ UNCHANGED <<kind, read, parsed, isConnect, buffer, wrote, answered, clientGot, early>>

-----------------------------------------------------------------------------
(* Neither side is given what the other did not send, twice, or out of     *)
(* order, and the proxy gets the rewritten header first and never the      *)
(* browser's own; but not if more of the request is read while the         *)
(* upstream connects, which is then sent before the header.                *)
MapperInOrder ==
  ~early => IsPrefix(wrote, Relayed(kind)) /\ IsPrefix(clientGot, Answers)
=============================================================================
