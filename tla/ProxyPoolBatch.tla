--------------------------- MODULE ProxyPoolBatch ---------------------------
(***************************************************************************)
(* The health check of the proxy pool in AppController: a batch of tests,  *)
(* a few at a time, whose answers come back over IPC late, in any order or *)
(* never; its timeouts, cancellation and replacement; and the assignment   *)
(* of proxies to profiles that waits for a batch when no free proxy is     *)
(* known to be healthy.  The app has one thread, each handler is one       *)
(* action.                                                                 *)
(***************************************************************************)
EXTENDS Naturals, FiniteSets, FiniteSetsExt

CONSTANTS
  Proxies,       \* ids of proxies, imported or not
  Profiles,      \* ids of profiles
  MaxConcurrent, \* m_proxyPoolBatchMaxConcurrent
  MaxBatches,    \* bound: batches started
  None

ASSUME NoneIsNoProfile == None \notin Profiles
ASSUME PoolFinite == IsFiniteSet(Proxies) /\ IsFiniteSet(Profiles)
ASSUME MaxConcurrentAssumption == MaxConcurrent \in Nat \ {0}
ASSUME MaxBatchesAssumption == MaxBatches \in Nat \ {0}

VARIABLES
  connected,  \* m_ipcConnected
  running,    \* m_proxyPoolBatchRunning
  timer,      \* the 200 ms timer is active
  batch,      \* m_proxyPoolBatchId, 0 when empty
  batches,    \* how many batch ids were made: ids are the numbers up to it
  queue,      \* m_proxyPoolBatchQueue (its order is left out)
  slot,       \* the request id of a proxy in flight, 0 for one that is not
  sent,       \* how many request ids were made for a proxy
  wire,       \* requests sent and not answered
  known,      \* proxies in the pool
  healthy,    \* proxies with last_ok
  verdict,    \* history: the request whose outcome is in last_ok
  assigned,   \* the profile a proxy is assigned to
  pending     \* m_proxyPoolAssignPendingProfileIds, {} without the flag

vars == <<connected, running, timer, batch, batches, queue, slot, sent, wire,
          known, healthy, verdict, assigned, pending>>

batchState == <<running, timer, batch, batches, queue, slot, sent>>
poolState  == <<known, healthy, verdict, assigned>>

InFlight == {p \in Proxies : slot[p] # 0}
Requests == [proxy : Proxies, batch : 1..MaxBatches, request : 1..MaxBatches]

(* No proxy is tested twice in a batch: its requests are no more than the   *)
(* batches.                                                                 *)
TypeOK ==
  /\ connected \in BOOLEAN
  /\ running \in BOOLEAN
  /\ timer \in BOOLEAN
  /\ batch \in 0..MaxBatches
  /\ batches \in 0..MaxBatches
  /\ queue \subseteq Proxies
  /\ slot \in [Proxies -> 0..MaxBatches]
  /\ sent \in [Proxies -> 0..MaxBatches]
  /\ wire \subseteq Requests
  /\ known \subseteq Proxies
  /\ healthy \subseteq Proxies
  /\ verdict \in [Proxies -> 0..MaxBatches]
  /\ assigned \in [Proxies -> Profiles \cup {None}]
  /\ pending \subseteq Profiles

(* The app has started: the pool is what the database held.                 *)
Init ==
  /\ connected = FALSE
  /\ running = FALSE
  /\ timer = FALSE
  /\ batch = 0
  /\ batches = 0
  /\ queue = {}
  /\ slot = [p \in Proxies |-> 0]
  /\ sent = [p \in Proxies |-> 0]
  /\ wire = {}
  /\ known \in SUBSET Proxies
  /\ healthy \in SUBSET known
  /\ verdict = [p \in Proxies |-> 0]
  /\ assigned = [p \in Proxies |-> None]
  /\ pending = {}

-----------------------------------------------------------------------------
Free == {p \in known : assigned[p] = None}

hasHealthyFreeProxy == Free \cap healthy # {}

(* assignNextAvailableProxyToProfile from assignment a: a healthy free      *)
(* proxy before any other (further ties are left open), in place of what    *)
(* the profile had; with no free proxy it fails and nothing changes.        *)
AssignNext(a, ok, profile) ==
  LET free == {p \in known : a[p] = None}
      best == IF free \cap ok # {} THEN free \cap ok ELSE free
  IN IF free = {} THEN {a}
     ELSE {[p \in Proxies |-> IF p = x THEN profile
                              ELSE IF a[p] = profile THEN None ELSE a[p]] : x \in best}

(* One profile after the other; the order of the list is left open: the     *)
(* last of them is any f.                                                   *)
AssignAll(ok, profiles) ==
  LET after[done \in SUBSET profiles] ==
        IF done = {} THEN {assigned}
        ELSE UNION {UNION {AssignNext(a, ok, f) : a \in after[done \ {f}]} : f \in done}
  IN after[profiles]

-----------------------------------------------------------------------------
(* Mutant: one request too many. *)
RoomForOneMore(held) == MaxConcurrent + 1 - Cardinality(held)

Room(held) == MaxConcurrent - Cardinality(held)

(* Mutant: a slot that timed out is not given back. *)
HeldThoughExpired(answered, expired) == InFlight \ answered

(* Proxies whose slot the pump does not find finished. *)
Held(answered, expired) == InFlight \ (answered \cup expired)

(* Mutant: a proxy stays queued when it is sent. *)
AllStayQueued(q, new) == q

StillQueued(q, new) == q \ new

(* The loop of pumpProxyPoolTestQueue: send for batch b from queue q until  *)
(* all slots are held.  The queue holds no proxy that is in flight, so the  *)
(* code's check for one never skips; sendProxyPoolTestRequest finds every   *)
(* proxy of the queue, none is ever disabled or removed.                    *)
Fill(b, q, held, w) ==
  \E new \in kSubset(Min({Cardinality(q), Room(held)}), q) :
    /\ queue' = StillQueued(q, new)
    /\ sent' = [p \in Proxies |-> IF p \in new THEN sent[p] + 1 ELSE sent[p]]
    /\ slot' = [p \in Proxies |-> IF p \in new THEN sent'[p]
                                  ELSE IF p \in held THEN slot[p] ELSE 0]
    /\ wire' = w \cup {[proxy |-> p, batch |-> b, request |-> sent'[p]] : p \in new}

(* pumpProxyPoolTestQueue while connected, when requests w are unanswered   *)
(* and an answer has given verdicts v and healthy proxies ok: slots that    *)
(* expired are finished as failures, free slots filled; at the end of the   *)
(* batch the assignment that waits for it is made.                          *)
Pump(w, v, ok, answered, expired) ==
  LET held == Held(answered, expired)
      done == queue = {} /\ held = {}
  IN /\ Fill(batch, queue, held, w)
     /\ verdict' = [p \in Proxies |-> IF p \in expired THEN slot[p] ELSE v[p]]
     /\ healthy' = ok \ expired
     /\ running' = ~done
     /\ timer' = ~done
     /\ batch' = IF done THEN 0 ELSE batch
     /\ assigned' \in IF done THEN AssignAll(healthy', pending) ELSE {assigned}
     /\ pending' = IF done THEN {} ELSE pending
     /\ UNCHANGED <<connected, batches, known>>

(* startProxyPoolTestBatch with the connection up.  A batch that runs is    *)
(* replaced, its queue and slots dropped.                                   *)
StartBatch(q) ==
  /\ batches < MaxBatches
  /\ batches' = batches + 1
  /\ batch' = batches + 1
  /\ running' = TRUE
  /\ timer' = TRUE
  /\ Fill(batches + 1, q, {}, wire)

(* The fields both cancelProxyPoolTestBatch and the abort of the pump clear *)
DropBatch ==
  /\ running' = FALSE
  /\ timer' = FALSE
  /\ batch' = 0
  /\ queue' = {}
  /\ slot' = [p \in Proxies |-> 0]
  /\ UNCHANGED <<batches, sent>>

-----------------------------------------------------------------------------
(* The user                                                                *)

(* importProxyPool of a line whose proxy is new, and the refresh.           *)
Import(p) ==
  /\ p \notin known
  /\ known' = known \cup {p}
  /\ UNCHANGED <<connected, batchState, wire, healthy, verdict, assigned, pending>>

(* releaseProxyPoolFromCheckedProfiles, for one profile.                    *)
Release(f) ==
  /\ assigned' = [p \in Proxies |-> IF assigned[p] = f THEN None ELSE assigned[p]]
  /\ UNCHANGED <<connected, batchState, wire, known, healthy, verdict, pending>>

testProxyPoolAll ==
  /\ connected /\ known # {}
  /\ StartBatch(known)
  /\ UNCHANGED <<connected, poolState, pending>>

cancelProxyPoolTestBatch ==
  /\ running
  /\ DropBatch
  /\ pending' = {}
  /\ UNCHANGED <<connected, wire, poolState>>

(* assignProxyPoolToProfileIds: there is nothing to wait for.               *)
AssignNow(profiles) ==
  /\ hasHealthyFreeProxy \/ (~running /\ Free = {})
  /\ assigned' \in AssignAll(healthy, profiles)
  /\ UNCHANGED <<connected, batchState, wire, known, healthy, verdict, pending>>

(* It waits for the batch that runs, in place of what waited before.        *)
AssignDuringBatch(profiles) ==
  /\ ~hasHealthyFreeProxy /\ running
  /\ pending' = profiles
  /\ UNCHANGED <<connected, batchState, wire, poolState>>

(* It waits for a check of the free proxies, which it starts.               *)
AssignAfterCheck(profiles) ==
  /\ ~hasHealthyFreeProxy /\ ~running /\ Free # {}
  /\ pending' = profiles
  /\ IF connected THEN StartBatch(Free) ELSE UNCHANGED <<batchState, wire>>
  /\ UNCHANGED <<connected, poolState>>

-----------------------------------------------------------------------------
(* Mutant: an answer counts when its proxy is in flight. *)
AnySlot(r) == running /\ slot[r.proxy] # 0

(* The answer is for the batch that runs and the request in flight.         *)
Expected(r) == r.batch = batch /\ slot[r.proxy] # 0 /\ r.request = slot[r.proxy]

(* proxy_pool.test.result: a late one is dropped, another is recorded, its  *)
(* slot finished and the queue pumped.                                      *)
LateAnswer(r) ==
  /\ r \in wire /\ ~Expected(r)
  /\ wire' = wire \ {r}
  /\ UNCHANGED <<connected, batchState, poolState, pending>>

Answer(r, ok, expired) ==
  /\ r \in wire /\ Expected(r)
  /\ expired \subseteq InFlight \ {r.proxy}
  /\ Pump(wire \ {r}, [verdict EXCEPT ![r.proxy] = r.request],
          IF ok THEN healthy \cup {r.proxy} ELSE healthy \ {r.proxy}, {r.proxy}, expired)

(* The 200 ms timer.  Time is left out: any slot may have expired.          *)
Tick(expired) ==
  /\ timer /\ connected
  /\ expired \subseteq InFlight
  /\ Pump(wire, verdict, healthy, {}, expired)

TickDisconnected ==
  /\ timer /\ ~connected
  /\ DropBatch
  /\ UNCHANGED <<connected, wire, poolState, pending>>

(* The connection is lost with everything under way; the agent answers the  *)
(* connection a request came on, or no one.                                 *)
Disconnect ==
  /\ connected
  /\ connected' = FALSE
  /\ wire' = {}
  /\ UNCHANGED <<batchState, poolState, pending>>

Connect ==
  /\ ~connected
  /\ connected' = TRUE
  /\ UNCHANGED <<batchState, wire, poolState, pending>>

Next ==
  \/ \E p \in Proxies : Import(p)
  \/ \E f \in Profiles : Release(f)
  \/ testProxyPoolAll
  \/ cancelProxyPoolTestBatch
  \/ \E profiles \in (SUBSET Profiles) \ {{}} :
       \/ AssignNow(profiles)
       \/ AssignDuringBatch(profiles)
       \/ AssignAfterCheck(profiles)
  \/ \E r \in wire : LateAnswer(r)
  \/ \E r \in wire, ok \in BOOLEAN, expired \in SUBSET InFlight : Answer(r, ok, expired)
  \/ \E expired \in SUBSET InFlight : Tick(expired)
  \/ TickDisconnected
  \/ Disconnect
  \/ Connect

Spec == Init /\ [][Next]_vars

(* A tick that finds the connection down or, once enough time has passed, a *)
(* slot expired.                                                            *)
EndingTick ==
  \/ \E expired \in (SUBSET InFlight) \ {{}} : Tick(expired)
  \/ TickDisconnected

(* Qt delivers the 200 ms timer while it is active.                         *)
FairSpec == Spec /\ WF_vars(EndingTick)

-----------------------------------------------------------------------------
(* A batch that is not running holds no slot, queue or id.  One that runs   *)
(* has its timer and something in flight, or nothing would ever end it; it  *)
(* leaves no slot unused while proxies are queued, never has more than      *)
(* MaxConcurrent, and never queues what is in flight.                       *)
BatchAtWork ==
  /\ ~running => ~timer /\ batch = 0 /\ queue = {} /\ InFlight = {}
  /\ running => timer /\ batch = batches /\ InFlight # {}
  /\ queue # {} => Cardinality(InFlight) = MaxConcurrent
  /\ Cardinality(InFlight) <= MaxConcurrent
  /\ queue \cap InFlight = {}

(* The health of a proxy is only changed by its newest request, of a batch  *)
(* that runs, and by a request once: an answer after the timeout, after the *)
(* cancellation or after the replacement of its batch never overwrites.     *)
OnlyNewestTestCounts ==
  [][\A p \in Proxies :
       verdict'[p] # verdict[p] \/ (p \in healthy) # (p \in healthy') =>
         running /\ verdict[p] < verdict'[p] /\ verdict'[p] = sent[p]]_vars

(* A batch ends, whether the agent answers or not and whether the           *)
(* connection lasts or not.                                                 *)
BatchEnds == running ~> ~running

(* An assignment that waits, waits for a health check that runs.            *)
WaitsForCheck == pending # {} => running
=============================================================================
