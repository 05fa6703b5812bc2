--------------------------- MODULE ProxyTestBatch ---------------------------
(***************************************************************************)
(* The proxy tests of profiles in AppController: a batch of checked        *)
(* profiles, a few at a time, into which the user may put the selected     *)
(* profile again, and the geo lookup that each success starts.  Answers    *)
(* come late, in any order or never.  One thread: a handler is an action.  *)
(***************************************************************************)
EXTENDS GeoLookup, FiniteSets

CONSTANTS
  MaxConcurrent, \* m_proxyBatchMaxConcurrent
  MaxBatches     \* bound: batches started

ASSUME ProfilesFinite == IsFiniteSet(Profiles)
ASSUME BatchAssumption ==
  /\ MaxConcurrent \in Nat \ {0}
  /\ MaxBatches \in Nat \ {0}

VARIABLES
  connected, \* m_ipcConnected
  running,   \* m_proxyBatchRunning
  timer,     \* the 200 ms timer is active
  batch,     \* m_proxyBatchId, 0 when empty
  batches,   \* how many batch ids were made
  queue,     \* m_proxyBatchQueue (its order is left out)
  slot,      \* the request id of a profile in flight, 0 for one that is not
  sent,      \* how many request ids were made for a profile
  wire,      \* requests sent and not answered
  known,     \* profiles in the list
  lastOk,    \* profiles with proxyLastOk
  verdict    \* history: the request whose outcome is in proxyLastOk

batchVars == <<running, timer, batch, batches, queue, slot, sent>>
vars == <<connected, batchVars, wire, known, lastOk, verdict, geoVars>>

InFlight == {p \in Profiles : slot[p] # 0}
Requests == [profile : Profiles, batch : 1..MaxBatches, request : Tests]

TypeOK ==
  /\ connected \in BOOLEAN
  /\ running \in BOOLEAN
  /\ timer \in BOOLEAN
  /\ batch \in 0..MaxBatches
  /\ batches \in 0..MaxBatches
  /\ queue \subseteq Profiles
  /\ slot \in [Profiles -> 0..MaxRequests]
  /\ sent \in [Profiles -> 0..MaxRequests]
  /\ wire \subseteq Requests
  /\ known \subseteq Profiles
  /\ lastOk \subseteq Profiles
  /\ verdict \in [Profiles -> 0..MaxRequests]
  /\ GeoTypeOK

Init ==
  /\ connected = FALSE
  /\ running = FALSE
  /\ timer = FALSE
  /\ batch = 0
  /\ batches = 0
  /\ queue = {}
  /\ slot = [p \in Profiles |-> 0]
  /\ sent = [p \in Profiles |-> 0]
  /\ wire = {}
  /\ known = Profiles
  /\ lastOk = {}
  /\ verdict = [p \in Profiles |-> 0]
  /\ GeoInit

-----------------------------------------------------------------------------
(* Mutant: no limit. *)
RoomForAll(held) == Cardinality(Profiles)

Room(held) == MaxConcurrent - Cardinality(held)

(* Mutant: a profile stays queued when it is sent. *)
AllStayQueued(q, taken) == q

StillQueued(q, taken) == q \ taken

(* The loop of pumpProxyTestQueue: send for batch b from queue q until all  *)
(* slots are held.  A profile that was deleted is skipped when its turn     *)
(* comes; none of the queue is in flight.                                   *)
Fill(b, q, held, w) ==
  \E new \in SUBSET (q \cap known), gone \in SUBSET (q \ known) :
    /\ Cardinality(new) <= Room(held)
    /\ Cardinality(new) < Room(held) => new \cup gone = q
    /\ Room(held) = 0 => gone = {}
    /\ queue' = StillQueued(q, new \cup gone)
    /\ sent' = [p \in Profiles |-> IF p \in new THEN sent[p] + 1 ELSE sent[p]]
    /\ slot' = [p \in Profiles |-> IF p \in new THEN sent'[p]
                                   ELSE IF p \in held THEN slot[p] ELSE 0]
    /\ wire' = w \cup {[profile |-> p, batch |-> b, request |-> sent'[p]] : p \in new}

(* Nothing queued and nothing in flight ends the batch. *)
EndIfDone(b) ==
  LET done == queue' = {} /\ \A p \in Profiles : slot'[p] = 0
  IN /\ running' = ~done
     /\ timer' = ~done
     /\ batch' = IF done THEN 0 ELSE b

(* Mutant: a timeout marks the profile but keeps its slot. *)
HeldThoughExpired(answered, expired) == InFlight \ answered

Held(answered, expired) == InFlight \ (answered \cup expired)

(* pumpProxyTestQueue while connected, from queue q, when requests w are    *)
(* unanswered and an answer has written verdicts v and outcomes ok: slots   *)
(* that expired are finished as failures, free slots filled.                *)
Pump(q, w, v, ok, answered, expired) ==
  /\ Fill(batch, q, Held(answered, expired), w)
  /\ EndIfDone(batch)
  /\ verdict' = [p \in Profiles |-> IF p \in expired \cap known THEN slot[p] ELSE v[p]]
  /\ lastOk' = ok \ (expired \cap known)
  /\ UNCHANGED <<connected, batches, known>>

(* A new batch; one that runs is replaced, its queue and slots dropped.     *)
StartBatch(q) ==
  /\ connected /\ batches < MaxBatches
  /\ \A p \in q : sent[p] < MaxRequests
  /\ batches' = batches + 1
  /\ Fill(batches', q, {}, wire)
  /\ EndIfDone(batches')
  /\ UNCHANGED <<connected, known, lastOk, verdict, geoVars>>

DropBatch ==
  /\ running' = FALSE
  /\ timer' = FALSE
  /\ batch' = 0
  /\ queue' = {}
  /\ slot' = [p \in Profiles |-> 0]
  /\ UNCHANGED <<connected, batches, sent, wire, known, lastOk, verdict, geoVars>>

-----------------------------------------------------------------------------
(* The user                                                                *)

testCheckedProxies == \E targets \in (SUBSET known) \ {{}} : StartBatch(targets)

(* testSelectedProxy: a batch of its own, or a place in the one that runs.  *)
TestAlone(p) == ~running /\ p \in known /\ StartBatch({p})

TestInBatch(p, expired) ==
  /\ connected /\ running /\ p \in known
  /\ p \notin InFlight \cup queue
  /\ expired \subseteq InFlight
  /\ sent[p] < MaxRequests
  /\ Pump(queue \cup {p}, wire, verdict, lastOk, {}, expired)
  /\ UNCHANGED geoVars

cancelProxyTestBatch == running /\ DropBatch

(* deleteSelectedProfile and deleteCheckedProfiles leave the batch alone.   *)
Delete(p) ==
  /\ p \in known
  /\ known' = known \ {p}
  /\ lastOk' = lastOk \ {p}
  /\ UNCHANGED <<connected, batchVars, wire, verdict, geoVars>>

-----------------------------------------------------------------------------
(* Mutant: the request id is not compared. *)
ExpectedOfBatch(r) == r.batch = batch /\ slot[r.profile] # 0

(* The answer is for the batch that runs and the request in flight.         *)
Expected(r) == r.batch = batch /\ slot[r.profile] # 0 /\ r.request = slot[r.profile]

(* proxy.test.result: dropped when late, else recorded, a geo lookup begun  *)
(* for a success, the slot finished and the queue pumped.                   *)
LateAnswer(r) ==
  /\ r \in wire /\ ~Expected(r)
  /\ wire' = wire \ {r}
  /\ UNCHANGED <<connected, batchVars, known, lastOk, verdict, geoVars>>

Answer(r, ok, expired) ==
  /\ r \in wire /\ Expected(r)
  /\ expired \subseteq InFlight \ {r.profile}
  /\ LET p == r.profile
         listed == {p} \cap known
     IN /\ IF ok THEN Begin(p, r.request) ELSE UNCHANGED geoVars
        /\ Pump(queue, wire \ {r}, [verdict EXCEPT ![p] = IF p \in known THEN r.request ELSE @],
                IF ok THEN lastOk \cup listed ELSE lastOk \ listed, {p}, expired)

(* The 200 ms timer.  Time is left out: any slot may have expired.          *)
Tick(expired) ==
  /\ timer /\ connected
  /\ expired \subseteq InFlight
  /\ Pump(queue, wire, verdict, lastOk, {}, expired)
  /\ UNCHANGED geoVars

TickDisconnected == timer /\ ~connected /\ DropBatch

(* The connection is lost with everything under way.                        *)
Disconnect ==
  /\ connected
  /\ connected' = FALSE
  /\ wire' = {}
  /\ UNCHANGED <<batchVars, known, lastOk, verdict, geoVars>>

Connect ==
  /\ ~connected
  /\ connected' = TRUE
  /\ UNCHANGED <<batchVars, wire, known, lastOk, verdict, geoVars>>

(* Mutant: the answer is written without looking the profile up. *)
ListedOrNot(p) == TRUE

(* The profile is looked up again when the geo answer comes.                *)
Listed(p) == p \in known

Geo ==
  /\ \E p \in Profiles, t \in Tests : GeoNext(p, t, Listed(p))
  /\ UNCHANGED <<connected, batchVars, wire, known, lastOk, verdict>>

Next ==
  \/ testCheckedProxies
  \/ \E p \in Profiles : TestAlone(p)
  \/ \E p \in Profiles, expired \in SUBSET InFlight : TestInBatch(p, expired)
  \/ \E p \in Profiles : Delete(p)
  \/ cancelProxyTestBatch
  \/ \E r \in wire : LateAnswer(r)
  \/ \E r \in wire, ok \in BOOLEAN, expired \in SUBSET InFlight : Answer(r, ok, expired)
  \/ \E expired \in SUBSET InFlight : Tick(expired)
  \/ TickDisconnected
  \/ Disconnect
  \/ Connect
  \/ Geo

Spec == Init /\ [][Next]_vars

EndingTick ==
  \/ \E expired \in (SUBSET InFlight) \ {{}} : Tick(expired)
  \/ TickDisconnected

(* Qt delivers the 200 ms timer while it is active, and slots expire.       *)
FairSpec == Spec /\ WF_vars(EndingTick)

-----------------------------------------------------------------------------
(* A batch that is not running holds no slot, queue or id.  One that runs   *)
(* has its timer and something in flight, or nothing would ever end it; it  *)
(* leaves no slot unused while profiles are queued, even when some of them  *)
(* were deleted, never has more than MaxConcurrent, and never queues what   *)
(* is in flight.                                                            *)
BatchAtWork ==
  /\ ~running => ~timer /\ batch = 0 /\ queue = {} /\ InFlight = {}
  /\ running => timer /\ batch = batches /\ InFlight # {}
  /\ queue # {} => Cardinality(InFlight) = MaxConcurrent
  /\ Cardinality(InFlight) <= MaxConcurrent
  /\ queue \cap InFlight = {}

(* The outcome shown for a profile is only changed by its newest request,   *)
(* of a batch that runs, and by a request once, although the user may put   *)
(* the profile into the batch again as soon as it has timed out.            *)
OnlyNewestTestCounts ==
  [][\A p \in Profiles :
       \/ verdict'[p] # verdict[p]
       \/ p \in known' /\ ((p \in lastOk) # (p \in lastOk'))
       => running /\ verdict[p] < verdict'[p] /\ verdict'[p] = sent[p]]_vars

(* A geo answer is written only to a profile that is still listed, and only *)
(* for a test whose success was recorded, however many tests came later and *)
(* whatever became of the batch.                                            *)
GeoOfRecordedTest ==
  [][\A p \in Profiles :
       geoOf'[p] # geoOf[p] => p \in known /\ geoOf'[p] \in 1..verdict[p]]_vars

(* A batch ends, whether the agent answers or not, whether the connection   *)
(* lasts or not, and whether its profiles are deleted or not.               *)
BatchEnds == running ~> ~running
=============================================================================
