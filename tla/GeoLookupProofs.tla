--------------------------- MODULE GeoLookupProofs ---------------------------
(***************************************************************************)
(* What GeoLookup promises for every set of profiles and every number of   *)
(* providers and of lookups.  Both invariants are inductive as they stand: *)
(* a lookup only stops asking by an answer or at the last provider.        *)
(***************************************************************************)
EXTENDS GeoLookup, TLAPS

(* The smaller of two numbers. *)
LEMMA MinOfTwo ==
  ASSUME NEW a \in Nat, NEW b \in Nat
  PROVE  /\ Min({a, b}) \in {a, b}
         /\ Min({a, b}) <= a
         /\ Min({a, b}) <= b
<1>1. \E x \in {a, b} : \A y \in {a, b} : x =< y
  <2>1. CASE a <= b
    BY <2>1
  <2>2. CASE b <= a
    BY <2>2
  <2>3. QED
    BY <2>1, <2>2
<1>2. QED
  BY <1>1 DEF Min

(* doAttempt, run n times, never asks beyond the last provider. *)
LEMMA AskType ==
  ASSUME GeoTypeOK, NEW p \in Profiles, NEW t \in Tests, NEW done, NEW n \in Nat,
         Ask(p, t, done, n)
  PROVE  /\ used' \in [Profiles -> [Tests -> 0..Providers]]
         /\ open' \in [Profiles -> [Tests -> SUBSET (1..Providers)]]
<1> DEFINE last == Min({used[p][t] + n, Providers})
<1>1. used[p][t] \in 0..Providers
  BY DEF GeoTypeOK
<1>2. last \in 0..Providers
  BY <1>1, MinOfTwo, GeoAssumption
<1>3. (open[p][t] \ done) \cup (used[p][t] + 1)..last \in SUBSET (1..Providers)
  BY <1>1, <1>2, GeoAssumption DEF GeoTypeOK
<1>4. used' = [used EXCEPT ![p][t] = last]
  BY DEF Ask
<1>5. open' = [open EXCEPT ![p][t] = (open[p][t] \ done) \cup (used[p][t] + 1)..last]
  BY DEF Ask, GeoTypeOK
<1> HIDE DEF last
<1>6. used' \in [Profiles -> [Tests -> 0..Providers]]
  BY <1>2, <1>4 DEF GeoTypeOK
<1>7. open' \in [Profiles -> [Tests -> SUBSET (1..Providers)]]
  BY <1>3, <1>5 DEF GeoTypeOK
<1>8. QED
  BY <1>6, <1>7

(* Each step of a lookup keeps the types. *)
LEMMA BeginType ==
  ASSUME GeoTypeOK, NEW p \in Profiles, NEW t \in Tests, Begin(p, t)
  PROVE  GeoTypeOK'
<1>1. Ask(p, t, {}, 1)
  BY DEF Begin
<1>2. QED
  BY <1>1, AskType DEF Begin, GeoTypeOK

(* So does every step of the lookups taken on their own. *)
LEMMA GeoNextType ==
  ASSUME GeoTypeOK, NEW p \in Profiles, NEW t \in Tests, NEW e \in BOOLEAN, GeoNext(p, t, e)
  PROVE  GeoTypeOK'
<1>1. PICK i \in open[p][t] :
        \/ \E follow \in {FALSE, e} : Usable(p, t, i, follow)
        \/ Unusable(p, t, i)
        \/ Timeout(p, t, i)
  BY DEF GeoNext
<1>2. \E n \in Nat : Ask(p, t, {i}, n)
  BY <1>1 DEF Usable, Unusable, Timeout
<1>3. /\ used' \in [Profiles -> [Tests -> 0..Providers]]
      /\ open' \in [Profiles -> [Tests -> SUBSET (1..Providers)]]
  BY <1>2, AskType
<1>4. t \in 0..MaxRequests
  BY GeoAssumption DEF Tests
<1>5. /\ settled' \in [Profiles -> [Tests -> BOOLEAN]]
      /\ geoOf' \in [Profiles -> 0..MaxRequests]
  <2>1. CASE \E follow \in {FALSE, e} : Usable(p, t, i, follow)
    <3>1. PICK follow \in {FALSE, e} : Usable(p, t, i, follow)
      BY <2>1
    <3>2. CASE Unsettled(p, t)
      <4>1. /\ settled' = [settled EXCEPT ![p][t] = TRUE]
            /\ geoOf' = [geoOf EXCEPT ![p] = IF follow THEN t ELSE geoOf[p]]
        BY <3>1, <3>2 DEF Usable
      <4>2. (IF follow THEN t ELSE geoOf[p]) \in 0..MaxRequests
        BY <1>4 DEF GeoTypeOK
      <4>3. settled' \in [Profiles -> [Tests -> BOOLEAN]]
        BY <4>1 DEF GeoTypeOK
      <4>4. geoOf' \in [Profiles -> 0..MaxRequests]
        BY <4>1, <4>2 DEF GeoTypeOK
      <4>5. QED
        BY <4>3, <4>4
    <3>3. CASE ~Unsettled(p, t)
      BY <3>1, <3>3 DEF Usable, GeoTypeOK
    <3>4. QED
      BY <3>2, <3>3
  <2>2. CASE Unusable(p, t, i) \/ Timeout(p, t, i)
    BY <2>2 DEF Unusable, Timeout, GeoTypeOK
  <2>3. QED
    BY <1>1, <2>1, <2>2
<1>6. QED
  BY <1>3, <1>5 DEF GeoTypeOK

(* The lookups of every profile, started by successful tests in any order,  *)
(* keep their types.                                                        *)
THEOREM GeoTypeCorrect == GeoSpec => []GeoTypeOK
<1>1. GeoInit => GeoTypeOK
  BY GeoAssumption DEF GeoInit, GeoTypeOK, Tests
<1>2. ASSUME GeoTypeOK,
             [GeoBegin \/ \E p \in Profiles, t \in Tests : GeoNext(p, t, TRUE)]_geoVars
      PROVE  GeoTypeOK'
  <2>1. CASE GeoBegin
    BY <1>2, <2>1, BeginType DEF GeoBegin
  <2>2. CASE \E p \in Profiles, t \in Tests : GeoNext(p, t, TRUE)
    BY <1>2, <2>2, GeoNextType
  <2>3. CASE UNCHANGED geoVars
    BY <1>2, <2>3 DEF geoVars, GeoTypeOK
  <2>4. QED
    BY <1>2, <2>1, <2>2, <2>3
<1>3. QED
  BY <1>1, <1>2, PTL DEF GeoSpec

-----------------------------------------------------------------------------
(* One lookup: a step of it that asks n providers more, and leaves it       *)
(* settled if it asks none, keeps the promise that giving up means every    *)
(* provider was asked.                                                      *)
AskedEnough(p, t) ==
  used[p][t] \in 1..(Providers - 1) => open[p][t] # {} \/ settled[p][t]

LEMMA AskKeepsAsking ==
  ASSUME GeoTypeOK, NEW p \in Profiles, NEW t \in Tests, NEW done, NEW n \in Nat,
         Ask(p, t, done, n), n > 0
  PROVE  AskedEnough(p, t)'
<1> DEFINE last == Min({used[p][t] + n, Providers})
<1>1. used[p][t] \in 0..Providers
  BY DEF GeoTypeOK
<1>2. last \in {used[p][t] + n, Providers}
  BY <1>1, MinOfTwo, GeoAssumption
<1>3. used'[p][t] = last
  BY DEF Ask, GeoTypeOK
<1>4. open'[p][t] = (open[p][t] \ done) \cup (used[p][t] + 1)..last
  BY DEF Ask, GeoTypeOK
<1> HIDE DEF last
<1>5. CASE last = Providers
  BY <1>3, <1>5, GeoAssumption DEF AskedEnough
<1>6. CASE last = used[p][t] + n
  <2>1. used[p][t] + 1 \in (used[p][t] + 1)..last
    BY <1>1, <1>6
  <2>2. QED
    BY <2>1, <1>4 DEF AskedEnough
<1>7. QED
  BY <1>2, <1>5, <1>6

(* The other lookups are left alone. *)
LEMMA AskLeavesOthers ==
  ASSUME GeoTypeOK, NEW p \in Profiles, NEW t \in Tests, NEW done, NEW n \in Nat,
         Ask(p, t, done, n),
         NEW x \in Profiles, NEW u \in Tests, x # p \/ u # t
  PROVE  used'[x][u] = used[x][u] /\ open'[x][u] = open[x][u]
BY DEF Ask, GeoTypeOK

(* An answer, a refusal and a timeout leave no lookup short of a provider. *)
LEMMA StepKeepsAsking ==
  ASSUME GeoTypeOK, NEW p \in Profiles, NEW t \in Tests,
         Begin(p, t) \/ GeoNext(p, t, TRUE) \/ GeoNext(p, t, FALSE),
         NEW x \in Profiles, NEW u \in Tests, AskedEnough(x, u)
  PROVE  AskedEnough(x, u)'
<1>1. CASE Begin(p, t)
  <2>1. Ask(p, t, {}, 1) /\ settled' = settled
    BY <1>1 DEF Begin
  <2>2. CASE x = p /\ u = t
    BY <2>1, <2>2, AskKeepsAsking
  <2>3. CASE x # p \/ u # t
    BY <2>1, <2>3, AskLeavesOthers DEF AskedEnough
  <2>4. QED
    BY <2>2, <2>3
<1>2. ASSUME NEW i \in open[p][t], NEW follow \in BOOLEAN, Usable(p, t, i, follow)
      PROVE  AskedEnough(x, u)'
  <2>1. Ask(p, t, {i}, 0)
    BY <1>2 DEF Usable
  <2>2. CASE x = p /\ u = t
    <3>1. settled'[p][t]
      BY <1>2 DEF Usable, Unsettled, GeoTypeOK
    <3>2. QED
      BY <2>2, <3>1 DEF AskedEnough
  <2>3. CASE x # p \/ u # t
    <3>1. settled'[x][u] = settled[x][u]
      BY <1>2, <2>3 DEF Usable, GeoTypeOK
    <3>2. QED
      BY <2>1, <2>3, <3>1, AskLeavesOthers DEF AskedEnough
  <2>4. QED
    BY <2>2, <2>3
<1>3. ASSUME NEW i \in open[p][t], Unusable(p, t, i) \/ Timeout(p, t, i)
      PROVE  AskedEnough(x, u)'
  <2>1. settled' = settled
    BY <1>3 DEF Unusable, Timeout
  <2>2. PICK n \in Nat : Ask(p, t, {i}, n) /\ (~settled[p][t] => n > 0)
    BY <1>3 DEF Unusable, Timeout, Unsettled
  <2>3. CASE x = p /\ u = t /\ n > 0
    BY <2>2, <2>3, AskKeepsAsking
  <2>4. CASE x = p /\ u = t /\ ~(n > 0)
    BY <2>1, <2>2, <2>4 DEF AskedEnough
  <2>5. CASE x # p \/ u # t
    BY <2>1, <2>2, <2>5, AskLeavesOthers DEF AskedEnough
  <2>6. QED
    BY <2>3, <2>4, <2>5
<1>4. CASE GeoNext(p, t, TRUE) \/ GeoNext(p, t, FALSE)
  BY <1>2, <1>3, <1>4 DEF GeoNext
<1>5. QED
  BY <1>1, <1>4

(* A lookup that ends without an answer has asked every provider: neither a *)
(* failure nor a timeout, which advances twice, loses one.                  *)
THEOREM AsksEveryProviderHolds == GeoSpec => []AsksEveryProvider
<1>1. GeoInit => AsksEveryProvider
  BY GeoAssumption DEF GeoInit, AsksEveryProvider
<1>2. ASSUME GeoTypeOK, AsksEveryProvider,
             [GeoBegin \/ \E p \in Profiles, t \in Tests : GeoNext(p, t, TRUE)]_geoVars
      PROVE  AsksEveryProvider'
  <2>1. \A x \in Profiles, u \in Tests : AskedEnough(x, u)
    BY <1>2 DEF AsksEveryProvider, AskedEnough
  <2>2. SUFFICES \A x \in Profiles, u \in Tests : AskedEnough(x, u)'
    BY DEF AsksEveryProvider, AskedEnough
  <2>3. CASE GeoBegin
    BY <1>2, <2>1, <2>3, StepKeepsAsking DEF GeoBegin
  <2>4. CASE \E p \in Profiles, t \in Tests : GeoNext(p, t, TRUE)
    BY <1>2, <2>1, <2>4, StepKeepsAsking
  <2>5. CASE UNCHANGED geoVars
    BY <2>1, <2>5 DEF geoVars, AskedEnough
  <2>6. QED
    BY <1>2, <2>3, <2>4, <2>5
<1>3. QED
  BY <1>1, <1>2, GeoTypeCorrect, PTL DEF GeoSpec

(* A lookup writes to its profile once: whichever of its attempts answers   *)
(* first, the flag all of them share keeps the others out                   *)
(* (AppController.cpp, applyProxyGeoToProfile).                             *)
THEOREM WritesOnceHolds == GeoSpec => WritesOnce
<1>1. ASSUME GeoTypeOK, GeoBegin \/ \E p \in Profiles, t \in Tests : GeoNext(p, t, TRUE),
             NEW q \in Profiles, geoOf'[q] # geoOf[q]
      PROVE  ~settled[q][geoOf'[q]]
  <2>1. PICK p \in Profiles, t \in Tests, follow \in BOOLEAN :
          \E i \in open[p][t] : Usable(p, t, i, follow)
    BY <1>1 DEF GeoBegin, Begin, GeoNext, Unusable, Timeout
  <2>2. Unsettled(p, t) /\ geoOf' = [geoOf EXCEPT ![p] = IF follow THEN t ELSE @]
    BY <1>1, <2>1 DEF Usable
  <2>3. q = p /\ geoOf'[q] = t
    BY <1>1, <2>2 DEF GeoTypeOK
  <2>4. QED
    BY <2>2, <2>3 DEF Unsettled
<1>2. GeoTypeOK /\ [GeoBegin \/ \E p \in Profiles, t \in Tests : GeoNext(p, t, TRUE)]_geoVars
        => [\A p \in Profiles : geoOf'[p] # geoOf[p] => ~settled[p][geoOf'[p]]]_geoVars
  BY <1>1
<1>3. QED
  BY <1>2, GeoTypeCorrect, PTL DEF GeoSpec, WritesOnce
=============================================================================
