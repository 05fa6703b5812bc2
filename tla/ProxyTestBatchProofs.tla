------------------------ MODULE ProxyTestBatchProofs ------------------------
(***************************************************************************)
(* What ProxyTestBatch promises for every finite set of profiles, every    *)
(* number of slots, batches, requests and providers, by one inductive      *)
(* invariant.  The strengthening of the checked invariants is: a slot      *)
(* holds the newest request of its profile, whose outcome has not been     *)
(* recorded yet (NewestHeld), a queued profile may still make a request    *)
(* (QueueHasRoom), a running batch has an id (BatchNamed) and a lookup of  *)
(* a listed profile belongs to a recorded test (GeoRecorded).              *)
(***************************************************************************)
EXTENDS ProxyTestBatch, GeoLookupProofs, FiniteSetTheorems

NewestHeld ==
  \A p \in Profiles :
    /\ verdict[p] <= sent[p]
    /\ slot[p] # 0 => slot[p] = sent[p] /\ verdict[p] < slot[p]

QueueHasRoom == \A p \in queue : sent[p] < MaxRequests

BatchNamed == running => batch # 0

GeoRecorded == \A p \in known, t \in Tests : open[p][t] # {} => t <= verdict[p]

IInv ==
  /\ TypeOK
  /\ BatchAtWork
  /\ NewestHeld
  /\ QueueHasRoom
  /\ BatchNamed
  /\ GeoRecorded

(* The console before its first batch satisfies the inductive invariant. *)
LEMMA InitIInv == Init => IInv
<1> SUFFICES ASSUME Init PROVE IInv
  OBVIOUS
<1>1. InFlight = {}
  BY DEF Init, InFlight
<1>2. GeoTypeOK
  BY GeoAssumption DEF Init, GeoInit, GeoTypeOK, Tests
<1>3. TypeOK
  <2>1. /\ 0 \in 0..MaxRequests
        /\ 0 \in 0..MaxBatches
    BY BatchAssumption, GeoAssumption
  <2>2. /\ slot \in [Profiles -> 0..MaxRequests]
        /\ sent \in [Profiles -> 0..MaxRequests]
        /\ verdict \in [Profiles -> 0..MaxRequests]
    BY <2>1 DEF Init
  <2>3. wire \subseteq Requests
    BY DEF Init
  <2>4. QED
    BY <1>2, <2>1, <2>2, <2>3 DEF Init, TypeOK
<1>4. BatchAtWork
  <2>1. Cardinality(InFlight) = 0
    BY <1>1, FS_EmptySet
  <2>2. QED
    BY <1>1, <2>1, BatchAssumption DEF Init, BatchAtWork
<1>5. NewestHeld /\ QueueHasRoom /\ BatchNamed
  BY DEF Init, NewestHeld, QueueHasRoom, BatchNamed
<1>6. GeoRecorded
  BY DEF Init, TypeOK, GeoInit, GeoRecorded
<1>7. QED
  BY <1>3, <1>4, <1>5, <1>6 DEF IInv

-----------------------------------------------------------------------------
(* The sending loop, from queue q with held slots: what it leaves queued    *)
(* and in flight, and what it does to the numbers of the requests.          *)
LEMMA FillWorks ==
  ASSUME TypeOK, NewestHeld,
         NEW b \in 1..MaxBatches, NEW q \in SUBSET Profiles,
         NEW held \in SUBSET InFlight, NEW w \in SUBSET Requests,
         \A p \in q : sent[p] < MaxRequests,
         q \cap held = {}, Cardinality(held) <= MaxConcurrent,
         Fill(b, q, held, w)
  PROVE  /\ queue' \subseteq Profiles
         /\ slot' \in [Profiles -> 0..MaxRequests]
         /\ sent' \in [Profiles -> 0..MaxRequests]
         /\ wire' \subseteq Requests
         /\ QueueHasRoom'
         /\ queue' \cap InFlight' = {}
         /\ queue' # {} => Cardinality(InFlight') = MaxConcurrent
         /\ Cardinality(InFlight') <= MaxConcurrent
         /\ \A p \in Profiles :
              /\ sent[p] <= sent'[p]
              /\ slot'[p] # 0 => slot'[p] = sent'[p]
              /\ slot'[p] # 0 => sent[p] < slot'[p] \/ (p \in held /\ slot'[p] = slot[p])
<1>1. PICK new \in SUBSET (q \cap known), gone \in SUBSET (q \ known) :
        /\ Cardinality(new) <= Room(held)
        /\ Cardinality(new) < Room(held) => new \cup gone = q
        /\ queue' = StillQueued(q, new \cup gone)
        /\ sent' = [p \in Profiles |-> IF p \in new THEN sent[p] + 1 ELSE sent[p]]
        /\ slot' = [p \in Profiles |-> IF p \in new THEN sent'[p]
                                       ELSE IF p \in held THEN slot[p] ELSE 0]
        /\ wire' = w \cup {[profile |-> p, batch |-> b, request |-> sent'[p]] : p \in new}
  BY DEF Fill
<1>2. /\ queue' \subseteq Profiles
      /\ slot' \in [Profiles -> 0..MaxRequests]
      /\ sent' \in [Profiles -> 0..MaxRequests]
      /\ wire' \subseteq Requests
  <2>1. \A p \in new : p \in Profiles /\ sent[p] + 1 \in 1..MaxRequests
    BY GeoAssumption DEF TypeOK
  <2>2. sent' \in [Profiles -> 0..MaxRequests]
    BY <1>1, <2>1, GeoAssumption DEF TypeOK
  <2>3. slot' \in [Profiles -> 0..MaxRequests]
    BY <1>1, <2>2, GeoAssumption DEF TypeOK
  <2>4. \A p \in new : [profile |-> p, batch |-> b, request |-> sent'[p]] \in Requests
    BY <1>1, <2>1 DEF Requests, Tests
  <2>5. wire' \subseteq Requests
    BY <1>1, <2>4
  <2>6. queue' \subseteq Profiles
    BY <1>1 DEF StillQueued
  <2>7. QED
    BY <2>2, <2>3, <2>5, <2>6
<1>3. \A p \in Profiles : sent[p] \in Nat /\ sent'[p] = IF p \in new THEN sent[p] + 1 ELSE sent[p]
  BY <1>1 DEF TypeOK
<1>4. \A p \in Profiles : slot'[p] = IF p \in new THEN sent'[p]
                                     ELSE IF p \in held THEN slot[p] ELSE 0
  BY <1>1
<1>5. \A p \in held : slot[p] # 0 /\ slot[p] = sent[p]
  BY DEF InFlight, NewestHeld
<1>6. InFlight' = held \cup new
  BY <1>3, <1>4, <1>5 DEF InFlight
<1>7. \A p \in Profiles :
        /\ sent[p] <= sent'[p]
        /\ slot'[p] # 0 => slot'[p] = sent'[p]
        /\ slot'[p] # 0 => sent[p] < slot'[p] \/ (p \in held /\ slot'[p] = slot[p])
  BY <1>1, <1>3, <1>4, <1>5
<1>8. QueueHasRoom'
  BY <1>1, <1>3 DEF QueueHasRoom, StillQueued
<1>9. queue' \cap InFlight' = {}
  BY <1>1, <1>6 DEF StillQueued
<1>10. Cardinality(InFlight') = Cardinality(held) + Cardinality(new)
  <2>1. IsFiniteSet(held) /\ IsFiniteSet(new)
    BY ProfilesFinite, FS_Subset DEF InFlight
  <2>2. held \cap new = {}
    OBVIOUS
  <2>3. Cardinality(held \cup new) = Cardinality(held) + Cardinality(new) - Cardinality({})
    BY <2>1, <2>2, FS_Union
  <2>4. Cardinality(held) \in Nat /\ Cardinality(new) \in Nat
    BY <2>1, FS_CardinalityType
  <2>5. QED
    BY <1>6, <2>3, <2>4, FS_EmptySet
<1>11. Cardinality(held) \in Nat /\ Cardinality(new) \in Nat
  BY ProfilesFinite, FS_Subset, FS_CardinalityType DEF InFlight
<1>12. Cardinality(InFlight') <= MaxConcurrent
  BY <1>1, <1>10, <1>11, BatchAssumption DEF Room
<1>13. queue' # {} => Cardinality(InFlight') = MaxConcurrent
  <2>1. queue' # {} => ~(Cardinality(new) < Room(held))
    BY <1>1 DEF StillQueued
  <2>2. Cardinality(new) <= Room(held)
    BY <1>1
  <2>3. QED
    BY <1>10, <1>11, <2>1, <2>2, BatchAssumption DEF Room
<1>14. QED
  BY <1>2, <1>7, <1>8, <1>9, <1>12, <1>13

-----------------------------------------------------------------------------
(* The test for the end, after the loop: the batch runs on exactly when     *)
(* something is in flight.                                                  *)
LEMMA EndWorks ==
  ASSUME NEW b \in 1..MaxBatches, b = batches', EndIfDone(b),
         slot' \in [Profiles -> 0..MaxRequests],
         queue' \cap InFlight' = {},
         queue' # {} => Cardinality(InFlight') = MaxConcurrent,
         Cardinality(InFlight') <= MaxConcurrent
  PROVE  /\ BatchAtWork' /\ BatchNamed'
         /\ running' \in BOOLEAN /\ timer' \in BOOLEAN /\ batch' \in 0..MaxBatches
<1> DEFINE done == queue' = {} /\ \A p \in Profiles : slot'[p] = 0
<1>1. done <=> queue' = {} /\ InFlight' = {}
  BY DEF InFlight
<1> HIDE DEF done
<1>2. running' = ~done /\ timer' = ~done /\ batch' = IF done THEN 0 ELSE b
  BY DEF EndIfDone, done
<1>3. done \in BOOLEAN
  BY DEF done
<1>4. queue' # {} => InFlight' # {}
  <2>1. Cardinality({}) = 0
    BY FS_EmptySet
  <2>2. QED
    BY <2>1, BatchAssumption
<1>5. running' \in BOOLEAN /\ timer' \in BOOLEAN
  BY <1>2
<1>6. batch' \in 0..MaxBatches
  <2>1. batch' = 0 \/ batch' = b
    BY <1>2
  <2>2. QED
    BY <2>1, BatchAssumption
<1>7. CASE done
  <2>1. ~running' /\ ~timer'
    BY <1>2, <1>7
  <2>2. batch' = 0 /\ queue' = {} /\ InFlight' = {}
    BY <1>1, <1>2, <1>7
  <2>3. BatchAtWork'
    BY <2>1, <2>2 DEF BatchAtWork
  <2>4. QED
    BY <1>5, <1>6, <2>1, <2>3 DEF BatchNamed
<1>8. CASE ~done
  <2>1. running' /\ timer'
    BY <1>2, <1>8
  <2>2. batch' = batches' /\ batch' # 0
    BY <1>2, <1>8
  <2>3. InFlight' # {}
    BY <1>1, <1>4, <1>8
  <2>4. BatchAtWork'
    BY <2>1, <2>2, <2>3 DEF BatchAtWork
  <2>5. QED
    BY <1>5, <1>6, <2>2, <2>4 DEF BatchNamed
<1>9. QED
  BY <1>7, <1>8

(* What is true of the pump's choices: the profiles whose slot it finds     *)
(* held, and none of them in the queue it is given.                         *)
LEMMA HeldFacts ==
  ASSUME BatchAtWork, NEW answered, NEW expired
  PROVE  /\ Held(answered, expired) \subseteq InFlight
         /\ Cardinality(Held(answered, expired)) <= MaxConcurrent
<1>1. Held(answered, expired) \subseteq InFlight
  BY DEF Held
<1>2. IsFiniteSet(InFlight)
  BY ProfilesFinite, FS_Subset DEF InFlight
<1>3. /\ Cardinality(Held(answered, expired)) <= Cardinality(InFlight)
      /\ Cardinality(Held(answered, expired)) \in Nat
      /\ Cardinality(InFlight) \in Nat
  BY <1>1, <1>2, FS_Subset, FS_CardinalityType
<1>4. QED
  BY <1>1, <1>3, BatchAssumption DEF BatchAtWork

(* The pump, whoever calls it, keeps the batch at work, given that the      *)
(* outcomes v it is handed are old ones or that of the answered profile.    *)
LEMMA PumpWorks ==
  ASSUME IInv, running,
         NEW q \in SUBSET Profiles, NEW w \in SUBSET Requests,
         NEW v \in [Profiles -> 0..MaxRequests], NEW ok \in SUBSET Profiles,
         NEW answered, NEW expired \in SUBSET InFlight,
         \A p \in q : sent[p] < MaxRequests,
         q \cap Held(answered, expired) = {},
         \A p \in Profiles : v[p] <= sent[p] /\ (p \notin answered => v[p] = verdict[p]),
         Pump(q, w, v, ok, answered, expired)
  PROVE  /\ running' \in BOOLEAN /\ timer' \in BOOLEAN
         /\ connected' = connected /\ known' = known
         /\ batch' \in 0..MaxBatches /\ batches' \in 0..MaxBatches
         /\ queue' \subseteq Profiles
         /\ slot' \in [Profiles -> 0..MaxRequests]
         /\ sent' \in [Profiles -> 0..MaxRequests]
         /\ wire' \subseteq Requests
         /\ lastOk' \subseteq Profiles
         /\ verdict' \in [Profiles -> 0..MaxRequests]
         /\ BatchAtWork'
         /\ NewestHeld'
         /\ QueueHasRoom'
         /\ BatchNamed'
<1> DEFINE held == Held(answered, expired)
<1>1. TypeOK /\ BatchAtWork /\ NewestHeld /\ QueueHasRoom /\ BatchNamed
  BY DEF IInv
<1>2. batch \in 1..MaxBatches /\ batch = batches
  BY <1>1, BatchAssumption DEF TypeOK, BatchAtWork, BatchNamed
<1>3. held \in SUBSET InFlight /\ Cardinality(held) <= MaxConcurrent
  BY <1>1, HeldFacts
<1>4. Fill(batch, q, held, w) /\ EndIfDone(batch)
  BY DEF Pump
<1>5. held \cap (answered \cup expired) = {}
  BY DEF Held
<1>6. q \cap held = {}
  OBVIOUS
<1> HIDE DEF held
<1>7. /\ queue' \subseteq Profiles
      /\ slot' \in [Profiles -> 0..MaxRequests]
      /\ sent' \in [Profiles -> 0..MaxRequests]
      /\ wire' \subseteq Requests
      /\ QueueHasRoom'
      /\ queue' \cap InFlight' = {}
      /\ queue' # {} => Cardinality(InFlight') = MaxConcurrent
      /\ Cardinality(InFlight') <= MaxConcurrent
      /\ \A p \in Profiles :
           /\ sent[p] <= sent'[p]
           /\ slot'[p] # 0 => slot'[p] = sent'[p]
           /\ slot'[p] # 0 => sent[p] < slot'[p] \/ (p \in held /\ slot'[p] = slot[p])
  BY <1>1, <1>2, <1>3, <1>4, <1>6, FillWorks
<1>8. verdict' = [p \in Profiles |-> IF p \in expired \cap known THEN slot[p] ELSE v[p]]
  BY DEF Pump
<1>9. verdict' \in [Profiles -> 0..MaxRequests]
  BY <1>1, <1>8 DEF TypeOK
<1>10. NewestHeld'
  <2>1. SUFFICES ASSUME NEW p \in Profiles
                 PROVE  /\ verdict'[p] <= sent'[p]
                        /\ slot'[p] # 0 => slot'[p] = sent'[p] /\ verdict'[p] < slot'[p]
    BY DEF NewestHeld
  <2>2. /\ sent[p] \in Nat /\ sent'[p] \in Nat /\ slot[p] \in Nat /\ slot'[p] \in Nat
        /\ v[p] \in Nat /\ verdict[p] \in Nat
    BY <1>1, <1>7, GeoAssumption DEF TypeOK
  <2>3. slot[p] <= sent[p]
    BY <1>1, <2>2 DEF NewestHeld
  <2>4. verdict'[p] <= sent[p]
    BY <1>8, <2>3
  <2>5. verdict'[p] \in Nat
    BY <1>8, <2>2
  <2>6. p \in held => verdict'[p] = verdict[p] /\ verdict[p] < slot[p]
    <3>1. p \in held => slot[p] # 0
      BY <1>3 DEF InFlight
    <3>2. QED
      BY <1>1, <1>5, <1>8, <3>1 DEF NewestHeld
  <2>7. QED
    BY <1>7, <2>2, <2>4, <2>5, <2>6
<1>11. /\ BatchAtWork' /\ BatchNamed'
       /\ running' \in BOOLEAN /\ timer' \in BOOLEAN /\ batch' \in 0..MaxBatches
  <2>1. batches' = batches
    BY DEF Pump
  <2>2. QED
    BY <1>2, <1>4, <1>7, <2>1, EndWorks
<1>12. /\ connected' = connected /\ known' = known
       /\ batches' \in 0..MaxBatches
       /\ lastOk' \subseteq Profiles
  BY <1>1 DEF Pump, TypeOK
<1>13. QED
  BY <1>7, <1>9, <1>10, <1>11, <1>12

-----------------------------------------------------------------------------
(* A new batch takes the place of whatever was there. *)
LEMMA StartBatchStep ==
  ASSUME IInv, NEW q \in SUBSET Profiles, StartBatch(q)
  PROVE  IInv'
<1>1. TypeOK /\ NewestHeld /\ GeoRecorded
  BY DEF IInv
<1>2. batches' \in 1..MaxBatches
  BY <1>1, BatchAssumption DEF StartBatch, TypeOK
<1>3. Cardinality({}) = 0
  BY FS_EmptySet
<1>4. /\ queue' \subseteq Profiles
      /\ slot' \in [Profiles -> 0..MaxRequests]
      /\ sent' \in [Profiles -> 0..MaxRequests]
      /\ wire' \subseteq Requests
      /\ QueueHasRoom'
      /\ queue' \cap InFlight' = {}
      /\ queue' # {} => Cardinality(InFlight') = MaxConcurrent
      /\ Cardinality(InFlight') <= MaxConcurrent
      /\ \A p \in Profiles :
           /\ sent[p] <= sent'[p]
           /\ slot'[p] # 0 => slot'[p] = sent'[p]
           /\ slot'[p] # 0 => sent[p] < slot'[p]
  <2>1. PICK none \in SUBSET InFlight : none = {}
    OBVIOUS
  <2>2. Fill(batches', q, none, wire)
    BY <2>1 DEF StartBatch
  <2>3. \A p \in q : sent[p] < MaxRequests
    BY DEF StartBatch
  <2>4. q \cap none = {} /\ wire \in SUBSET Requests
    BY <1>1, <2>1 DEF TypeOK
  <2>5. Cardinality(none) <= MaxConcurrent
    BY <1>3, <2>1, BatchAssumption
  <2>6. QED
    BY <1>1, <1>2, <2>1, <2>2, <2>3, <2>4, <2>5, FillWorks
<1>5. /\ BatchAtWork' /\ BatchNamed'
      /\ running' \in BOOLEAN /\ timer' \in BOOLEAN /\ batch' \in 0..MaxBatches
  <2>1. EndIfDone(batches')
    BY DEF StartBatch
  <2>2. QED
    BY <1>2, <1>4, <2>1, EndWorks
<1>6. UNCHANGED <<connected, known, lastOk, verdict, used, open, settled, geoOf>>
  BY DEF StartBatch, geoVars
<1>7. TypeOK'
  BY <1>1, <1>2, <1>4, <1>5, <1>6 DEF TypeOK, GeoTypeOK
<1>8. NewestHeld'
  BY <1>1, <1>4, <1>6 DEF NewestHeld, TypeOK
<1>9. GeoRecorded'
  BY <1>1, <1>6 DEF GeoRecorded
<1>10. QED
  BY <1>4, <1>5, <1>7, <1>8, <1>9 DEF IInv

(* Dropping a batch leaves nothing of it but the requests on their way. *)
LEMMA DropBatchStep ==
  ASSUME IInv, DropBatch
  PROVE  IInv'
<1>1. TypeOK /\ NewestHeld /\ GeoRecorded
  BY DEF IInv
<1>2. UNCHANGED <<connected, batches, sent, wire, known, lastOk, verdict, used, open, settled, geoOf>>
  BY DEF DropBatch, geoVars
<1>3. InFlight' = {}
  BY DEF DropBatch, InFlight
<1>4. BatchAtWork'
  <2>1. Cardinality({}) = 0
    BY FS_EmptySet
  <2>2. Cardinality(InFlight') <= MaxConcurrent
    BY <1>3, <2>1, BatchAssumption
  <2>3. ~running' /\ ~timer' /\ batch' = 0 /\ queue' = {}
    BY DEF DropBatch
  <2>4. QED
    BY <1>3, <2>2, <2>3 DEF BatchAtWork
<1>5. slot' \in [Profiles -> 0..MaxRequests]
  BY GeoAssumption DEF DropBatch
<1>6. /\ running' \in BOOLEAN /\ timer' \in BOOLEAN
      /\ batch' \in 0..MaxBatches /\ queue' \subseteq Profiles
  <2>1. running' \in BOOLEAN /\ timer' \in BOOLEAN
    BY DEF DropBatch
  <2>2. batch' \in 0..MaxBatches /\ queue' \subseteq Profiles
    BY BatchAssumption DEF DropBatch
  <2>3. QED
    BY <2>1, <2>2
<1>7. TypeOK'
  BY <1>1, <1>2, <1>5, <1>6 DEF TypeOK, GeoTypeOK
<1>8. NewestHeld'
  BY <1>1, <1>2 DEF NewestHeld, DropBatch
<1>9. QueueHasRoom' /\ BatchNamed'
  BY DEF QueueHasRoom, BatchNamed, DropBatch
<1>10. GeoRecorded'
  BY <1>1, <1>2 DEF GeoRecorded
<1>11. QED
  BY <1>4, <1>7, <1>8, <1>9, <1>10 DEF IInv

(* A pump that leaves the lookups alone. *)
LEMMA PumpAlone ==
  ASSUME IInv, running, NEW q \in SUBSET Profiles, NEW expired \in SUBSET InFlight,
         \A p \in q : sent[p] < MaxRequests,
         q \cap InFlight = {},
         Pump(q, wire, verdict, lastOk, {}, expired),
         UNCHANGED geoVars
  PROVE  IInv'
<1>1. TypeOK /\ NewestHeld /\ GeoRecorded
  BY DEF IInv
<1>2. /\ wire \in SUBSET Requests /\ lastOk \in SUBSET Profiles
      /\ verdict \in [Profiles -> 0..MaxRequests]
  BY <1>1 DEF TypeOK
<1>3. \A p \in Profiles : verdict[p] <= sent[p] /\ (p \notin {} => verdict[p] = verdict[p])
  BY <1>1 DEF NewestHeld
<1>4. q \cap Held({}, expired) = {}
  BY DEF Held
<1>5. /\ running' \in BOOLEAN /\ timer' \in BOOLEAN
      /\ connected' = connected /\ known' = known
      /\ batch' \in 0..MaxBatches /\ batches' \in 0..MaxBatches
      /\ queue' \subseteq Profiles
      /\ slot' \in [Profiles -> 0..MaxRequests]
      /\ sent' \in [Profiles -> 0..MaxRequests]
      /\ wire' \subseteq Requests
      /\ lastOk' \subseteq Profiles
      /\ verdict' \in [Profiles -> 0..MaxRequests]
      /\ BatchAtWork' /\ NewestHeld' /\ QueueHasRoom' /\ BatchNamed'
  <2>1. PICK answered \in SUBSET Profiles : answered = {}
    OBVIOUS
  <2>2. Pump(q, wire, verdict, lastOk, answered, expired)
    BY <2>1
  <2>3. /\ q \cap Held(answered, expired) = {}
        /\ \A p \in Profiles :
             verdict[p] <= sent[p] /\ (p \notin answered => verdict[p] = verdict[p])
    BY <1>3, <1>4, <2>1
  <2>4. QED
    BY <1>2, <2>2, <2>3, PumpWorks
<1>6. UNCHANGED <<used, open, settled, geoOf>>
  BY DEF geoVars
<1>7. TypeOK'
  BY <1>1, <1>5, <1>6 DEF TypeOK, GeoTypeOK
<1>8. \A p \in Profiles : verdict[p] <= verdict'[p]
  <2>1. verdict' = [p \in Profiles |-> IF p \in expired \cap known THEN slot[p] ELSE verdict[p]]
    BY DEF Pump
  <2>2. QED
    BY <1>1, <2>1 DEF NewestHeld, InFlight, TypeOK
<1>9. GeoRecorded'
  BY <1>1, <1>5, <1>6, <1>8, GeoAssumption DEF GeoRecorded, TypeOK, Tests
<1>10. QED
  BY <1>5, <1>7, <1>9 DEF IInv

(* An answer that counts is of the newest request of its profile. *)
LEMMA ExpectedIsNewest ==
  ASSUME IInv, NEW r \in wire, Expected(r)
  PROVE  /\ running
         /\ r.profile \in InFlight
         /\ r.request \in Tests
         /\ r.request = slot[r.profile]
         /\ r.request = sent[r.profile]
         /\ verdict[r.profile] < r.request
<1>1. TypeOK /\ NewestHeld /\ BatchAtWork
  BY DEF IInv
<1>2. r.profile \in Profiles /\ r.request \in Tests
  BY <1>1 DEF TypeOK, Requests
<1>3. slot[r.profile] # 0 /\ r.request = slot[r.profile]
  BY DEF Expected
<1>4. running
  BY <1>1, <1>2, <1>3 DEF BatchAtWork, InFlight
<1>5. QED
  BY <1>1, <1>2, <1>3, <1>4 DEF NewestHeld, InFlight

(* An answer records its outcome, begins its geo lookup and pumps. *)
LEMMA AnswerStep ==
  ASSUME IInv, NEW r \in wire, NEW ok \in BOOLEAN, NEW expired \in SUBSET InFlight,
         Answer(r, ok, expired)
  PROVE  IInv'
<1> DEFINE p == r.profile
           v == [verdict EXCEPT ![p] = IF p \in known THEN r.request ELSE verdict[p]]
           oks == IF ok THEN lastOk \cup ({p} \cap known) ELSE lastOk \ ({p} \cap known)
<1>1. TypeOK /\ NewestHeld /\ GeoRecorded /\ QueueHasRoom /\ BatchAtWork
  BY DEF IInv
<1>2. Expected(r) /\ expired \subseteq InFlight \ {p}
  BY DEF Answer
<1>3. /\ running /\ p \in Profiles /\ p \in InFlight
      /\ r.request \in Tests /\ r.request = sent[p] /\ verdict[p] < r.request
  BY <1>2, ExpectedIsNewest DEF InFlight
<1>4. IF ok THEN Begin(p, r.request) ELSE UNCHANGED geoVars
  BY DEF Answer
<1>5. Pump(queue, wire \ {r}, v, oks, {p}, expired)
  BY <1>1 DEF Answer, TypeOK
<1>6. /\ v \in [Profiles -> 0..MaxRequests]
      /\ v[p] = IF p \in known THEN r.request ELSE verdict[p]
      /\ \A x \in Profiles : x # p => v[x] = verdict[x]
  BY <1>1, <1>3, GeoAssumption DEF TypeOK, Tests
<1>7. \A x \in Profiles : v[x] <= sent[x] /\ (x \notin {p} => v[x] = verdict[x])
  <2>1. TAKE x \in Profiles
  <2>2. CASE x = p
    BY <1>1, <1>3, <1>6, <2>2, GeoAssumption DEF NewestHeld, TypeOK
  <2>3. CASE x # p
    BY <1>1, <1>6, <2>3 DEF NewestHeld
  <2>4. QED
    BY <2>2, <2>3
<1>8. oks \in SUBSET Profiles /\ wire \ {r} \in SUBSET Requests
  BY <1>1, <1>3 DEF TypeOK
<1>9. queue \in SUBSET Profiles /\ queue \cap Held({p}, expired) = {}
  BY <1>1 DEF TypeOK, BatchAtWork, Held
<1>10. \A x \in queue : sent[x] < MaxRequests
  BY <1>1 DEF QueueHasRoom
<1> HIDE DEF v, oks
<1>11. /\ running' \in BOOLEAN /\ timer' \in BOOLEAN
       /\ connected' = connected /\ known' = known
       /\ batch' \in 0..MaxBatches /\ batches' \in 0..MaxBatches
       /\ queue' \subseteq Profiles
       /\ slot' \in [Profiles -> 0..MaxRequests]
       /\ sent' \in [Profiles -> 0..MaxRequests]
       /\ wire' \subseteq Requests
       /\ lastOk' \subseteq Profiles
       /\ verdict' \in [Profiles -> 0..MaxRequests]
       /\ BatchAtWork' /\ NewestHeld' /\ QueueHasRoom' /\ BatchNamed'
  <2>1. PICK w \in SUBSET Requests, answered \in SUBSET Profiles :
          w = wire \ {r} /\ answered = {p}
    BY <1>3, <1>8
  <2>2. Pump(queue, w, v, oks, answered, expired)
    BY <1>5, <2>1
  <2>3. queue \cap Held(answered, expired) = {}
    BY <1>9, <2>1
  <2>4. \A x \in Profiles : v[x] <= sent[x] /\ (x \notin answered => v[x] = verdict[x])
    BY <1>7, <2>1
  <2> HIDE <1>5, <1>7
  <2>5. QED
    BY <1>3, <1>6, <1>8, <1>9, <1>10, <2>2, <2>3, <2>4, PumpWorks
<1>12. verdict' = [x \in Profiles |-> IF x \in expired \cap known THEN slot[x] ELSE v[x]]
  BY <1>5 DEF Pump
<1>13. \A x \in Profiles : verdict[x] <= verdict'[x]
  <2>1. TAKE x \in Profiles
  <2>2. verdict[x] \in Nat /\ slot[x] \in Nat /\ r.request \in Nat
    BY <1>1, <1>3, GeoAssumption DEF TypeOK, Tests
  <2>3. x \in expired => verdict[x] < slot[x]
    BY <1>1, <1>2 DEF NewestHeld, InFlight
  <2>4. verdict[x] <= v[x]
    BY <1>3, <1>6, <2>2
  <2>5. QED
    BY <1>12, <2>2, <2>3, <2>4
<1>14. p \in known => verdict'[p] = r.request
  BY <1>2, <1>3, <1>6, <1>12
<1>15. GeoTypeOK'
  <2>1. GeoTypeOK
    BY <1>1 DEF TypeOK
  <2>2. CASE ok
    BY <1>3, <1>4, <2>1, <2>2, BeginType
  <2>3. CASE ~ok
    BY <1>4, <2>1, <2>3 DEF geoVars, GeoTypeOK
  <2>4. QED
    BY <2>2, <2>3
<1>16. GeoRecorded'
  <2>1. SUFFICES ASSUME NEW x \in known, NEW t \in Tests, open'[x][t] # {}
                 PROVE  t <= verdict'[x]
    BY <1>11 DEF GeoRecorded
  <2>2. x \in Profiles /\ t \in Nat /\ verdict[x] \in Nat /\ verdict'[x] \in Nat
    BY <1>1, <1>11, GeoAssumption DEF TypeOK, Tests
  <2>3. CASE open'[x][t] = open[x][t]
    <3>1. t <= verdict[x]
      BY <1>1, <2>1, <2>3 DEF GeoRecorded
    <3>2. QED
      BY <1>13, <2>2, <3>1
  <2>4. CASE open'[x][t] # open[x][t]
    <3>1. ok
      BY <1>4, <2>4 DEF geoVars
    <3>2. Ask(p, r.request, {}, 1)
      BY <1>4, <3>1 DEF Begin
    <3>3. x = p /\ t = r.request
      <4>1. GeoTypeOK
        BY <1>1 DEF TypeOK
      <4>2. QED
        BY <1>3, <2>2, <2>4, <3>2, <4>1, AskLeavesOthers
    <3>4. QED
      BY <1>14, <2>2, <3>3
  <2>5. QED
    BY <2>3, <2>4
<1>17. TypeOK'
  BY <1>1, <1>11, <1>15 DEF TypeOK
<1>18. QED
  BY <1>11, <1>16, <1>17 DEF IInv

(* A step of a lookup leaves the batch alone. *)
LEMMA GeoStep ==
  ASSUME IInv, Geo
  PROVE  IInv'
<1>1. TypeOK /\ GeoRecorded
  BY DEF IInv
<1>2. UNCHANGED <<connected, running, timer, batch, batches, queue, slot, sent, wire,
                  known, lastOk, verdict>>
  BY DEF Geo, batchVars
<1>3. PICK p \in Profiles, t \in Tests : GeoNext(p, t, Listed(p))
  BY DEF Geo
<1>4. GeoTypeOK
  BY <1>1 DEF TypeOK
<1>5. Listed(p) \in BOOLEAN
  BY DEF Listed
<1>6. GeoTypeOK'
  BY <1>3, <1>4, <1>5, GeoNextType
<1>7. TypeOK'
  BY <1>1, <1>2, <1>6 DEF TypeOK
<1>8. PICK i \in open[p][t], n \in Nat : Ask(p, t, {i}, n)
  BY <1>3 DEF GeoNext, Usable, Unusable, Timeout
<1>9. GeoRecorded'
  <2>1. SUFFICES ASSUME NEW x \in known, NEW u \in Tests, open'[x][u] # {}
                 PROVE  u <= verdict[x]
    BY <1>2 DEF GeoRecorded
  <2>2. x \in Profiles
    BY <1>1 DEF TypeOK
  <2>3. CASE x = p /\ u = t
    BY <1>1, <1>8, <2>3 DEF GeoRecorded
  <2>4. CASE x # p \/ u # t
    BY <1>1, <1>4, <1>8, <2>1, <2>2, <2>4, AskLeavesOthers DEF GeoRecorded
  <2>5. QED
    BY <2>3, <2>4
<1>10. BatchAtWork' /\ NewestHeld' /\ QueueHasRoom' /\ BatchNamed'
  BY <1>2 DEF IInv, BatchAtWork, InFlight, NewestHeld, QueueHasRoom, BatchNamed
<1>11. QED
  BY <1>7, <1>9, <1>10 DEF IInv

(* The steps that pump, and the ones that touch one piece of state. *)
LEMMA NextIInv ==
  ASSUME IInv, [Next]_vars
  PROVE  IInv'
<1>1. TypeOK /\ BatchAtWork /\ NewestHeld /\ QueueHasRoom /\ BatchNamed /\ GeoRecorded
  BY DEF IInv
<1>2. queue \in SUBSET Profiles /\ queue \cap InFlight = {} /\ (timer => running)
  BY <1>1 DEF TypeOK, BatchAtWork
<1>3. CASE testCheckedProxies
  BY <1>1, <1>3, StartBatchStep DEF testCheckedProxies, TypeOK
<1>4. ASSUME NEW p \in Profiles, TestAlone(p)
      PROVE  IInv'
  BY <1>4, StartBatchStep DEF TestAlone
<1>5. ASSUME NEW p \in Profiles, NEW expired \in SUBSET InFlight, TestInBatch(p, expired)
      PROVE  IInv'
  <2>1. PICK q \in SUBSET Profiles : q = queue \cup {p}
    BY <1>2
  <2>2. /\ Pump(q, wire, verdict, lastOk, {}, expired)
        /\ running /\ UNCHANGED geoVars
        /\ p \notin InFlight /\ sent[p] < MaxRequests
    BY <1>5, <2>1 DEF TestInBatch
  <2>3. q \cap InFlight = {} /\ \A x \in q : sent[x] < MaxRequests
    BY <1>1, <1>2, <2>1, <2>2 DEF QueueHasRoom
  <2>4. QED
    BY <2>2, <2>3, PumpAlone
<1>6. ASSUME NEW p \in Profiles, Delete(p)
      PROVE  IInv'
  <2>1. /\ known' \subseteq known /\ lastOk' \subseteq lastOk
        /\ UNCHANGED <<connected, running, timer, batch, batches, queue, slot, sent,
                       wire, verdict, used, open, settled, geoOf>>
    BY <1>6 DEF Delete, batchVars, geoVars
  <2>2. TypeOK'
    BY <1>1, <2>1 DEF TypeOK, GeoTypeOK
  <2>3. BatchAtWork' /\ NewestHeld' /\ QueueHasRoom' /\ BatchNamed' /\ GeoRecorded'
    BY <1>1, <2>1 DEF BatchAtWork, InFlight, NewestHeld, QueueHasRoom, BatchNamed, GeoRecorded
  <2>4. QED
    BY <2>2, <2>3 DEF IInv
<1>7. CASE cancelProxyTestBatch
  BY <1>7, DropBatchStep DEF cancelProxyTestBatch
<1>8. ASSUME NEW r \in wire, NEW ok \in BOOLEAN, NEW expired \in SUBSET InFlight,
             Answer(r, ok, expired)
      PROVE  IInv'
  BY <1>8, AnswerStep
<1>9. ASSUME NEW expired \in SUBSET InFlight, Tick(expired)
      PROVE  IInv'
  BY <1>1, <1>2, <1>9, PumpAlone DEF Tick, QueueHasRoom
<1>10. CASE TickDisconnected
  BY <1>10, DropBatchStep DEF TickDisconnected
<1>11. CASE Geo
  BY <1>11, GeoStep
<1>12. CASE Disconnect \/ Connect \/ \E r \in wire : LateAnswer(r)
  <2>1. /\ wire' \subseteq wire /\ connected' \in BOOLEAN
        /\ UNCHANGED <<running, timer, batch, batches, queue, slot, sent,
                       known, lastOk, verdict, used, open, settled, geoOf>>
    BY <1>1, <1>12 DEF Disconnect, Connect, LateAnswer, batchVars, geoVars, TypeOK
  <2>2. TypeOK'
    BY <1>1, <2>1 DEF TypeOK, GeoTypeOK
  <2>3. BatchAtWork' /\ NewestHeld' /\ QueueHasRoom' /\ BatchNamed' /\ GeoRecorded'
    BY <1>1, <2>1 DEF BatchAtWork, InFlight, NewestHeld, QueueHasRoom, BatchNamed, GeoRecorded
  <2>4. QED
    BY <2>2, <2>3 DEF IInv
<1>13. CASE UNCHANGED vars
  <2>1. UNCHANGED <<connected, running, timer, batch, batches, queue, slot, sent, wire,
                    known, lastOk, verdict, used, open, settled, geoOf>>
    BY <1>13 DEF vars, batchVars, geoVars
  <2>2. QED
    BY <1>1, <2>1 DEF IInv, TypeOK, GeoTypeOK, BatchAtWork, InFlight, NewestHeld,
                      QueueHasRoom, BatchNamed, GeoRecorded
<1>14. QED
  BY <1>3, <1>4, <1>5, <1>6, <1>7, <1>8, <1>9, <1>10, <1>11, <1>12, <1>13 DEF Next

(* Every behaviour of the console stays in the inductive invariant. *)
LEMMA Invariance == Spec => []IInv
BY InitIInv, NextIInv, PTL DEF Spec

(* Every variable keeps its type; in particular no profile makes more       *)
(* requests than it may, queued, in flight or joined to a running batch.    *)
THEOREM TypeCorrect == Spec => []TypeOK
<1>1. IInv => TypeOK
  BY DEF IInv
<1>2. QED
  BY <1>1, Invariance, PTL

(* A batch that runs has its timer and something in flight, uses its slots  *)
(* and never more than MaxConcurrent of them; one that does not run holds   *)
(* nothing.                                                                 *)
THEOREM BatchStaysAtWork == Spec => []BatchAtWork
<1>1. IInv => BatchAtWork
  BY DEF IInv
<1>2. QED
  BY <1>1, Invariance, PTL

-----------------------------------------------------------------------------
(* The step formulas of the two action properties. *)
Counts(p) ==
  \/ verdict'[p] # verdict[p]
  \/ p \in known' /\ ((p \in lastOk) # (p \in lastOk'))
  => running /\ verdict[p] < verdict'[p] /\ verdict'[p] = sent[p]

GeoCounts(p) == geoOf'[p] # geoOf[p] => p \in known /\ geoOf'[p] \in 1..verdict[p]

(* A pump that is handed the old outcomes only records timeouts. *)
LEMMA PumpCounts ==
  ASSUME IInv, running, NEW q, NEW expired \in SUBSET InFlight, NEW p \in Profiles,
         Pump(q, wire, verdict, lastOk, {}, expired)
  PROVE  Counts(p)
<1>1. /\ verdict' = [x \in Profiles |-> IF x \in expired \cap known THEN slot[x] ELSE verdict[x]]
      /\ lastOk' = lastOk \ (expired \cap known)
  BY DEF Pump
<1>2. CASE p \in expired \cap known
  BY <1>1, <1>2 DEF IInv, NewestHeld, InFlight, Counts
<1>3. CASE p \notin expired \cap known
  BY <1>1, <1>3 DEF Counts
<1>4. QED
  BY <1>2, <1>3

(* An answer that is recorded is that of the newest request. *)
LEMMA AnswerCounts ==
  ASSUME IInv, NEW r \in wire, NEW ok \in BOOLEAN, NEW expired \in SUBSET InFlight,
         Answer(r, ok, expired), NEW p \in Profiles
  PROVE  Counts(p)
<1>1. /\ running /\ r.request = sent[r.profile] /\ verdict[r.profile] < r.request
      /\ r.profile \notin expired
  BY ExpectedIsNewest DEF Answer
<1>2. TypeOK /\ NewestHeld
  BY DEF IInv
<1>3. verdict' = [x \in Profiles |->
                   IF x \in expired \cap known THEN slot[x]
                   ELSE [verdict EXCEPT ![r.profile] =
                           IF r.profile \in known THEN r.request ELSE verdict[r.profile]][x]]
  BY <1>2 DEF Answer, Pump, TypeOK
<1>4. /\ p \in expired \cap known => verdict'[p] = slot[p]
      /\ p \notin expired \cap known /\ p = r.profile /\ p \in known => verdict'[p] = r.request
      /\ p \notin expired \cap known /\ ~(p = r.profile /\ p \in known) => verdict'[p] = verdict[p]
  BY <1>2, <1>3 DEF TypeOK
<1>5. p \notin expired \cap known /\ ~(p = r.profile /\ p \in known)
        => (p \in lastOk <=> p \in lastOk')
  BY DEF Answer, Pump
<1>6. CASE p \in expired \cap known
  BY <1>1, <1>2, <1>4, <1>6 DEF NewestHeld, InFlight, Counts
<1>7. CASE p \notin expired \cap known /\ p = r.profile /\ p \in known
  BY <1>1, <1>4, <1>7 DEF Counts
<1>8. CASE p \notin expired \cap known /\ ~(p = r.profile /\ p \in known)
  BY <1>4, <1>5, <1>8 DEF Counts
<1>9. QED
  BY <1>6, <1>7, <1>8

(* The outcome shown for a profile is only changed by its newest request,   *)
(* of a batch that runs, and by a request once.                             *)
THEOREM NewestTestCounts == Spec => OnlyNewestTestCounts
<1>1. ASSUME IInv, [Next]_vars, NEW p \in Profiles
      PROVE  Counts(p)
  <2>1. timer => running
    BY <1>1 DEF IInv, BatchAtWork
  <2>2. CASE \E x \in Profiles, expired \in SUBSET InFlight : TestInBatch(x, expired)
    BY <1>1, <2>2, PumpCounts DEF TestInBatch
  <2>3. CASE \E expired \in SUBSET InFlight : Tick(expired)
    BY <1>1, <2>1, <2>3, PumpCounts DEF Tick
  <2>4. CASE \E r \in wire, ok \in BOOLEAN, expired \in SUBSET InFlight : Answer(r, ok, expired)
    BY <1>1, <2>4, AnswerCounts
  <2>5. CASE \E x \in Profiles : Delete(x)
    BY <2>5 DEF Delete, Counts
  <2>6. CASE \/ testCheckedProxies \/ cancelProxyTestBatch \/ TickDisconnected
             \/ Disconnect \/ Connect \/ Geo \/ UNCHANGED vars
             \/ \E x \in Profiles : TestAlone(x)
             \/ \E r \in wire : LateAnswer(r)
    <3>1. verdict' = verdict /\ lastOk' = lastOk
      BY <2>6 DEF testCheckedProxies, cancelProxyTestBatch, TickDisconnected, Disconnect,
                  Connect, Geo, vars, TestAlone, StartBatch, DropBatch, LateAnswer
    <3>2. QED
      BY <3>1 DEF Counts
  <2>7. QED
    BY <1>1, <2>2, <2>3, <2>4, <2>5, <2>6 DEF Next
<1>2. IInv /\ [Next]_vars =>
        [\A p \in Profiles :
           \/ verdict'[p] # verdict[p]
           \/ p \in known' /\ ((p \in lastOk) # (p \in lastOk'))
           => running /\ verdict[p] < verdict'[p] /\ verdict'[p] = sent[p]]_vars
  BY <1>1 DEF Counts
<1>3. QED
  BY <1>2, Invariance, PTL DEF Spec, OnlyNewestTestCounts

(* A geo answer is written only to a listed profile, and only for a test    *)
(* whose success was recorded.                                              *)
THEOREM GeoBelongsToRecordedTest == Spec => GeoOfRecordedTest
<1>1. ASSUME IInv, [Next]_vars, NEW x \in Profiles
      PROVE  GeoCounts(x)
  <2>1. CASE Geo
    <3>1. PICK p \in Profiles, t \in Tests : GeoNext(p, t, Listed(p))
      BY <2>1 DEF Geo
    <3>2. CASE geoOf' = geoOf
      BY <3>2 DEF GeoCounts
    <3>3. CASE geoOf' # geoOf
      <4>1. PICK i \in open[p][t], follow \in {FALSE, Listed(p)} : Usable(p, t, i, follow)
        BY <3>1, <3>3 DEF GeoNext, Unusable, Timeout
      <4>2. geoOf' = [geoOf EXCEPT ![p] = IF follow THEN t ELSE geoOf[p]]
        BY <3>3, <4>1 DEF Usable
      <4>3. CASE ~follow \/ x # p
        BY <4>2, <4>3 DEF GeoCounts, IInv, TypeOK, GeoTypeOK
      <4>4. CASE follow /\ x = p
        <5>1. p \in known
          BY <4>1, <4>4 DEF Listed
        <5>2. t \in Nat /\ 1 <= t /\ verdict[p] \in Nat
          BY GeoAssumption, <1>1 DEF Tests, IInv, TypeOK
        <5>3. t <= verdict[p]
          BY <1>1, <4>1, <5>1 DEF IInv, GeoRecorded
        <5>4. geoOf'[p] = t
          BY <1>1, <4>2, <4>4 DEF IInv, TypeOK, GeoTypeOK
        <5>5. QED
          BY <4>4, <5>1, <5>2, <5>3, <5>4 DEF GeoCounts
      <4>5. QED
        BY <4>3, <4>4
    <3>4. QED
      BY <3>2, <3>3
  <2>2. CASE ~Geo
    <3>1. geoOf' = geoOf
      BY <1>1, <2>2 DEF Next, vars, geoVars, testCheckedProxies, TestAlone, StartBatch,
           TestInBatch, Delete, cancelProxyTestBatch, DropBatch, LateAnswer, Answer, Begin,
           Tick, TickDisconnected, Disconnect, Connect
    <3>2. QED
      BY <3>1 DEF GeoCounts
  <2>3. QED
    BY <2>1, <2>2
<1>2. IInv /\ [Next]_vars =>
        [\A p \in Profiles :
           geoOf'[p] # geoOf[p] => p \in known /\ geoOf'[p] \in 1..verdict[p]]_vars
  BY <1>1 DEF GeoCounts
<1>3. QED
  BY <1>2, Invariance, PTL DEF Spec, GeoOfRecordedTest
=============================================================================
