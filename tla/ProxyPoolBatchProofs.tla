------------------------ MODULE ProxyPoolBatchProofs ------------------------
(***************************************************************************)
(* What ProxyPoolBatch promises for every finite pool and set of profiles, *)
(* every number of slots and batches, by one inductive invariant.  The     *)
(* strengthening of the checked invariants is: a slot holds the newest     *)
(* request of its proxy, whose outcome has not been recorded yet (Newest-  *)
(* Held), no proxy was asked for more often than there were batches, and a *)
(* queued one not yet in this one (OncePerBatch), and a running batch has  *)
(* an id (BatchNamed).  The type of the assignments needs that one more    *)
(* profile after the other, in whatever order, is a total function: the    *)
(* recursion of AssignAll is shown to have a solution by induction on the  *)
(* number of profiles that are done.                                       *)
(***************************************************************************)
EXTENDS ProxyPoolBatch, FiniteSetTheorems, WellFoundedInduction, TLAPS

NewestHeld ==
  \A p \in Proxies :
    /\ verdict[p] <= sent[p]
    /\ slot[p] # 0 => slot[p] = sent[p] /\ verdict[p] < slot[p]

OncePerBatch ==
  \A p \in Proxies : sent[p] <= batches /\ (p \in queue => sent[p] < batches)

BatchNamed == running => batch # 0

IInv ==
  /\ TypeOK
  /\ BatchAtWork
  /\ NewestHeld
  /\ OncePerBatch
  /\ BatchNamed

-----------------------------------------------------------------------------
(* Assignments of proxies to profiles.                                     *)

Assignments == [Proxies -> Profiles \cup {None}]

(* One more profile gets a proxy, or none does: every outcome is total. *)
LEMMA AssignNextType ==
  ASSUME NEW a \in Assignments, NEW ok, NEW f \in Profiles
  PROVE  AssignNext(a, ok, f) \subseteq Assignments
<1> DEFINE free == {p \in known : a[p] = None}
           best == IF free \cap ok # {} THEN free \cap ok ELSE free
           given(x) == [p \in Proxies |-> IF p = x THEN f ELSE IF a[p] = f THEN None ELSE a[p]]
<1>1. \A x : given(x) \in Assignments
  BY DEF Assignments
<1>2. AssignNext(a, ok, f) = IF free = {} THEN {a} ELSE {given(x) : x \in best}
  BY DEF AssignNext
<1> HIDE DEF free, best, given
<1>3. {given(x) : x \in best} \subseteq Assignments
  BY <1>1
<1>4. QED
  BY <1>2, <1>3

(* What the recursion of AssignAll says of the profiles done, from what g   *)
(* says of one fewer.                                                       *)
After(g, ok, done) ==
  IF done = {} THEN {assigned}
  ELSE UNION {UNION {AssignNext(a, ok, f) : a \in g[done \ {f}]} : f \in done}

LEMMA AfterType ==
  ASSUME assigned \in Assignments, NEW ok, NEW done \in SUBSET Profiles, NEW g,
         \A f \in done : g[done \ {f}] \subseteq Assignments
  PROVE  After(g, ok, done) \subseteq Assignments
<1>1. SUFFICES ASSUME NEW b \in After(g, ok, done) PROVE b \in Assignments
  OBVIOUS
<1>2. CASE done = {}
  BY <1>2 DEF After
<1>3. CASE done # {}
  <2>1. PICK f \in done : \E a \in g[done \ {f}] : b \in AssignNext(a, ok, f)
    BY <1>3 DEF After
  <2>2. PICK a \in g[done \ {f}] : b \in AssignNext(a, ok, f)
    BY <2>1
  <2>3. QED
    BY <2>2, AssignNextType
<1>4. QED
  BY <1>2, <1>3

(* It only looks at one fewer. *)
LEMMA AfterLocal ==
  ASSUME NEW ok, NEW done, NEW g, NEW h, \A f \in done : g[done \ {f}] = h[done \ {f}]
  PROVE  After(g, ok, done) = After(h, ok, done)
<1> DEFINE of(x, f) == UNION {AssignNext(a, ok, f) : a \in x[done \ {f}]}
<1>1. \A f \in done : of(g, f) = of(h, f)
  OBVIOUS
<1>2. \A x : After(x, ok, done) = IF done = {} THEN {assigned} ELSE UNION {of(x, f) : f \in done}
  BY DEF After
<1> HIDE DEF of
<1>3. {of(g, f) : f \in done} = {of(h, f) : f \in done}
  BY <1>1
<1>4. QED
  BY <1>2, <1>3

LEMMA Least ==
  ASSUME NEW T \in SUBSET Nat, T # {}
  PROVE  \E x \in T : \A y \in T : x <= y
<1> DEFINE R == OpToRel(<, Nat)
<1>1. R = {ss \in Nat \X Nat : ss[1] < ss[2]}
  BY DEF OpToRel
<1> HIDE DEF R
<1>2. IsWellFoundedOn(R, Nat)
  BY NatLessThanWellFounded DEF R
<1>3. PICK x \in T : \A y \in T : <<y, x>> \notin R
  BY <1>2, WFMin
<1>4. \A y \in T : ~(y < x)
  BY <1>1, <1>3
<1>5. QED
  BY <1>4

(* Sets of profiles are finite, and one fewer is one fewer. *)
LEMMA OneFewer ==
  ASSUME NEW done \in SUBSET Profiles
  PROVE  /\ Cardinality(done) \in Nat
         /\ \A f \in done : /\ done \ {f} \in SUBSET Profiles
                            /\ Cardinality(done \ {f}) = Cardinality(done) - 1
                            /\ Cardinality(done \ {f}) \in Nat
         /\ Cardinality(done) = 0 => done = {}
<1>1. IsFiniteSet(done)
  BY PoolFinite, FS_Subset
<1>2. Cardinality(done) \in Nat
  BY <1>1, FS_CardinalityType
<1>3. ASSUME NEW f \in done
      PROVE  /\ Cardinality(done \ {f}) = Cardinality(done) - 1
             /\ Cardinality(done \ {f}) \in Nat
  <2>1. IsFiniteSet(done \ {f}) /\ Cardinality(done \ {f}) = Cardinality(done) - 1
    BY <1>1, FS_RemoveElement
  <2>2. QED
    BY <2>1, FS_CardinalityType
<1>4. Cardinality(done) = 0 => done = {}
  BY <1>1, FS_EmptySet
<1>5. QED
  BY <1>2, <1>3, <1>4

(* The recursion has a solution, whatever the order it is unfolded in. *)
LEMMA AfterExists ==
  ASSUME NEW ok, NEW profiles \in SUBSET Profiles
  PROVE  \E g : g = [done \in SUBSET profiles |-> After(g, ok, done)]
<1> DEFINE Upto(n, g) == \A done \in SUBSET profiles :
                           Cardinality(done) <= n => g[done] = After(g, ok, done)
           Solved(n) == \E g : g = [done \in SUBSET profiles |-> g[done]] /\ Upto(n, g)
           Unsolved == {n \in Nat : ~Solved(n)}
<1>1. ASSUME NEW n \in Nat, n = 0 \/ Solved(n - 1) PROVE Solved(n)
  <2>1. PICK g : /\ g = [done \in SUBSET profiles |-> g[done]]
                 /\ \A done \in SUBSET profiles :
                      Cardinality(done) < n => g[done] = After(g, ok, done)
    <3>1. CASE n = 0
      <4>1. PICK g : g = [done \in SUBSET profiles |-> {}]
        OBVIOUS
      <4>2. g = [done \in SUBSET profiles |-> g[done]]
        BY <4>1
      <4>3. \A done \in SUBSET profiles : ~(Cardinality(done) < n)
        BY <3>1, OneFewer
      <4>4. QED
        BY <4>2, <4>3
    <3>2. CASE n # 0
      <4>1. PICK g : g = [done \in SUBSET profiles |-> g[done]] /\ Upto(n - 1, g)
        BY <1>1, <3>2
      <4>2. \A done \in SUBSET profiles : Cardinality(done) < n => Cardinality(done) <= n - 1
        BY OneFewer
      <4>3. QED
        BY <4>1, <4>2
    <3>3. QED
      BY <3>1, <3>2
  <2>2. PICK h : h = [done \in SUBSET profiles |->
                        IF Cardinality(done) < n THEN g[done] ELSE After(g, ok, done)]
    OBVIOUS
  <2>3. h = [done \in SUBSET profiles |-> h[done]]
    BY <2>2
  <2>4. ASSUME NEW done \in SUBSET profiles, Cardinality(done) <= n
        PROVE  h[done] = After(h, ok, done)
    <3>1. \A f \in done : g[done \ {f}] = h[done \ {f}]
      <4>1. SUFFICES ASSUME NEW f \in done PROVE g[done \ {f}] = h[done \ {f}]
        OBVIOUS
      <4>2. /\ Cardinality(done) \in Nat
            /\ Cardinality(done \ {f}) = Cardinality(done) - 1
            /\ done \ {f} \in SUBSET profiles
        BY OneFewer
      <4>3. Cardinality(done \ {f}) < n
        BY <2>4, <4>2
      <4>4. QED
        BY <2>2, <4>2, <4>3
    <3>2. After(g, ok, done) = After(h, ok, done)
      BY <3>1, AfterLocal
    <3>3. h[done] = After(g, ok, done)
      BY <2>1, <2>2
    <3>4. QED
      BY <3>2, <3>3
  <2>5. QED
    BY <2>3, <2>4
<1>2. Unsolved = {}
  <2>1. SUFFICES ASSUME Unsolved # {} PROVE FALSE
    OBVIOUS
  <2>2. PICK n \in Unsolved : \A m \in Unsolved : n <= m
    BY <2>1, Least
  <2>3. n \in Nat /\ ~Solved(n)
    OBVIOUS
  <2> HIDE DEF Solved
  <2>4. n = 0 \/ Solved(n - 1)
    BY <2>2, <2>3
  <2>5. QED
    BY <1>1, <2>3, <2>4
<1>3. Cardinality(profiles) \in Nat
  BY OneFewer
<1>4. PICK g : /\ g = [done \in SUBSET profiles |-> g[done]]
               /\ Upto(Cardinality(profiles), g)
  BY <1>2, <1>3
<1>5. \A done \in SUBSET profiles : g[done] = After(g, ok, done)
  <2>1. \A done \in SUBSET profiles : Cardinality(done) <= Cardinality(profiles)
    BY PoolFinite, FS_Subset
  <2>2. QED
    BY <1>4, <2>1
<1>6. [done \in SUBSET profiles |-> g[done]] = [done \in SUBSET profiles |-> After(g, ok, done)]
  BY <1>5
<1>7. QED
  BY <1>4, <1>6

(* Every assignment the app may come to is a total function. *)
LEMMA AssignAllType ==
  ASSUME assigned \in Assignments, NEW ok, NEW profiles \in SUBSET Profiles
  PROVE  AssignAll(ok, profiles) \subseteq Assignments
<1> DEFINE h == CHOOSE g : g = [done \in SUBSET profiles |-> After(g, ok, done)]
           Untyped(n) == \E done \in SUBSET profiles :
                           Cardinality(done) = n /\ ~(h[done] \subseteq Assignments)
           Bad == {n \in Nat : Untyped(n)}
<1>1. AssignAll(ok, profiles) = h[profiles]
  BY DEF AssignAll, After
<1>2. h = [done \in SUBSET profiles |-> After(h, ok, done)]
  BY AfterExists
<1> HIDE DEF h
<1>3. \A done \in SUBSET profiles : h[done] = After(h, ok, done)
  BY <1>2
<1>4. Bad = {}
  <2>1. SUFFICES ASSUME Bad # {} PROVE FALSE
    OBVIOUS
  <2>2. PICK n \in Bad : \A m \in Bad : n <= m
    BY <2>1, Least
  <2>3. PICK done \in SUBSET profiles :
          Cardinality(done) = n /\ ~(h[done] \subseteq Assignments)
    BY <2>2
  <2>4. \A f \in done : h[done \ {f}] \subseteq Assignments
    <3>1. SUFFICES ASSUME NEW f \in done, ~(h[done \ {f}] \subseteq Assignments) PROVE FALSE
      OBVIOUS
    <3>2. /\ Cardinality(done \ {f}) = n - 1 /\ Cardinality(done \ {f}) \in Nat
          /\ done \ {f} \in SUBSET profiles
      BY <2>3, OneFewer
    <3>3. n - 1 \in Bad
      BY <3>1, <3>2
    <3>4. QED
      BY <2>2, <3>3
  <2>5. done \in SUBSET Profiles
    OBVIOUS
  <2>6. After(h, ok, done) \subseteq Assignments
    BY <2>4, <2>5, AfterType
  <2>7. QED
    BY <1>3, <2>3, <2>6
<1>5. QED
  <2>1. Cardinality(profiles) \in Nat
    BY OneFewer
  <2>2. Cardinality(profiles) \notin Bad
    BY <1>4
  <2>3. QED
    BY <1>1, <2>1, <2>2

-----------------------------------------------------------------------------
(* The app before its first batch satisfies the inductive invariant. *)
LEMMA InitIInv == Init => IInv
<1> SUFFICES ASSUME Init PROVE IInv
  OBVIOUS
<1>1. InFlight = {}
  BY DEF Init, InFlight
<1>2. 0 \in 0..MaxBatches
  BY MaxBatchesAssumption
<1>3. TypeOK
  <2>1. /\ slot \in [Proxies -> 0..MaxBatches]
        /\ sent \in [Proxies -> 0..MaxBatches]
        /\ verdict \in [Proxies -> 0..MaxBatches]
        /\ assigned \in [Proxies -> Profiles \cup {None}]
    BY <1>2 DEF Init
  <2>2. QED
    BY <1>2, <2>1 DEF Init, TypeOK
<1>4. BatchAtWork
  <2>1. Cardinality(InFlight) = 0
    BY <1>1, FS_EmptySet
  <2>2. QED
    BY <1>1, <2>1, MaxConcurrentAssumption DEF Init, BatchAtWork
<1>5. NewestHeld /\ OncePerBatch /\ BatchNamed
  BY DEF Init, NewestHeld, OncePerBatch, BatchNamed
<1>6. QED
  BY <1>3, <1>4, <1>5 DEF IInv

LEMMA MinOfTwo ==
  ASSUME NEW a \in Int, NEW b \in Int
  PROVE  Min({a, b}) = IF a <= b THEN a ELSE b
BY DEF Min

(* The sending loop for batch b, from queue q with held slots: what it      *)
(* leaves queued and in flight, and what it does to the request numbers.    *)
LEMMA FillWorks ==
  ASSUME TypeOK, NewestHeld,
         NEW b \in 1..MaxBatches, NEW q \in SUBSET Proxies,
         NEW held \in SUBSET InFlight, NEW w \in SUBSET Requests,
         \A p \in Proxies : sent[p] <= b /\ (p \in q => sent[p] < b),
         q \cap held = {}, Cardinality(held) <= MaxConcurrent,
         Fill(b, q, held, w)
  PROVE  /\ queue' \subseteq q
         /\ slot' \in [Proxies -> 0..MaxBatches]
         /\ sent' \in [Proxies -> 0..MaxBatches]
         /\ wire' \subseteq Requests
         /\ queue' \cap InFlight' = {}
         /\ queue' # {} => Cardinality(InFlight') = MaxConcurrent
         /\ Cardinality(InFlight') <= MaxConcurrent
         /\ InFlight' = {} <=> q = {} /\ held = {}
         /\ \A p \in Proxies :
              /\ sent[p] <= sent'[p]
              /\ sent'[p] <= b
              /\ p \in queue' => sent'[p] < b
              /\ slot'[p] # 0 => slot'[p] = sent'[p]
              /\ slot'[p] # 0 => sent[p] < slot'[p] \/ (p \in held /\ slot'[p] = slot[p])
<1>1. PICK new \in kSubset(Min({Cardinality(q), Room(held)}), q) :
        /\ queue' = StillQueued(q, new)
        /\ sent' = [p \in Proxies |-> IF p \in new THEN sent[p] + 1 ELSE sent[p]]
        /\ slot' = [p \in Proxies |-> IF p \in new THEN sent'[p]
                                      ELSE IF p \in held THEN slot[p] ELSE 0]
        /\ wire' = w \cup {[proxy |-> p, batch |-> b, request |-> sent'[p]] : p \in new}
  BY DEF Fill
<1>2. /\ IsFiniteSet(q) /\ IsFiniteSet(held) /\ IsFiniteSet(new)
      /\ Cardinality(q) \in Nat /\ Cardinality(held) \in Nat /\ Cardinality(new) \in Nat
      /\ new \subseteq q
  <2>1. new \subseteq q
    BY DEF kSubset
  <2>2. held \subseteq Proxies
    BY DEF InFlight
  <2>3. IsFiniteSet(q) /\ IsFiniteSet(held) /\ IsFiniteSet(new)
    BY <2>1, <2>2, PoolFinite, FS_Subset
  <2>4. QED
    BY <2>1, <2>3, FS_CardinalityType
<1>3. Cardinality(new) = IF Cardinality(q) <= Room(held) THEN Cardinality(q) ELSE Room(held)
  <2>1. Room(held) \in Int
    BY <1>2, MaxConcurrentAssumption DEF Room
  <2>2. Cardinality(new) = Min({Cardinality(q), Room(held)})
    BY DEF kSubset
  <2>3. QED
    BY <1>2, <2>1, <2>2, MinOfTwo
<1>4. \A p \in Proxies : sent[p] \in Nat /\ sent'[p] = IF p \in new THEN sent[p] + 1 ELSE sent[p]
  BY <1>1 DEF TypeOK
<1>5. \A p \in Proxies : slot'[p] = IF p \in new THEN sent'[p]
                                    ELSE IF p \in held THEN slot[p] ELSE 0
  BY <1>1
<1>6. \A p \in held : slot[p] # 0 /\ slot[p] = sent[p]
  BY DEF InFlight, NewestHeld
<1>7. \A p \in new : p \in Proxies /\ sent[p] + 1 \in 1..MaxBatches
  BY <1>2, <1>4, MaxBatchesAssumption
<1>8. /\ queue' \subseteq q
      /\ slot' \in [Proxies -> 0..MaxBatches]
      /\ sent' \in [Proxies -> 0..MaxBatches]
      /\ wire' \subseteq Requests
  <2>1. sent' \in [Proxies -> 0..MaxBatches]
    BY <1>1, <1>7, MaxBatchesAssumption DEF TypeOK
  <2>2. slot' \in [Proxies -> 0..MaxBatches]
    BY <1>1, <2>1, MaxBatchesAssumption DEF TypeOK
  <2>3. \A p \in new : [proxy |-> p, batch |-> b, request |-> sent'[p]] \in Requests
    BY <1>4, <1>7 DEF Requests
  <2>4. wire' \subseteq Requests
    BY <1>1, <2>3
  <2>5. queue' \subseteq q
    BY <1>1 DEF StillQueued
  <2>6. QED
    BY <2>1, <2>2, <2>4, <2>5
<1>9. InFlight' = held \cup new
  <2>1. held \subseteq Proxies
    BY DEF InFlight
  <2>2. QED
    BY <1>2, <1>4, <1>5, <1>6, <2>1 DEF InFlight
<1>10. \A p \in Proxies :
         /\ sent[p] <= sent'[p]
         /\ sent'[p] <= b
         /\ p \in queue' => sent'[p] < b
         /\ slot'[p] # 0 => slot'[p] = sent'[p]
         /\ slot'[p] # 0 => sent[p] < slot'[p] \/ (p \in held /\ slot'[p] = slot[p])
  BY <1>1, <1>2, <1>4, <1>5, <1>6 DEF StillQueued
<1>11. queue' \cap InFlight' = {}
  BY <1>1, <1>9 DEF StillQueued
<1>12. Cardinality(InFlight') = Cardinality(held) + Cardinality(new)
  <2>1. held \cap new = {}
    BY <1>2
  <2>2. Cardinality(held \cup new) = Cardinality(held) + Cardinality(new) - Cardinality({})
    BY <1>2, <2>1, FS_Union
  <2>3. QED
    BY <1>2, <1>9, <2>2, FS_EmptySet
<1>13. Cardinality(InFlight') <= MaxConcurrent
  BY <1>2, <1>3, <1>12, MaxConcurrentAssumption DEF Room
<1>14. queue' # {} => Cardinality(InFlight') = MaxConcurrent
  <2>1. queue' # {} => Cardinality(new) # Cardinality(q)
    BY <1>1, <1>2, FS_Subset DEF StillQueued
  <2>2. QED
    BY <1>2, <1>3, <1>12, <2>1, MaxConcurrentAssumption DEF Room
<1>15. InFlight' = {} <=> q = {} /\ held = {}
  <2>1. Cardinality(held) = 0 <=> held = {}
    BY <1>2, FS_EmptySet
  <2>2. Cardinality(q) = 0 <=> q = {}
    BY <1>2, FS_EmptySet
  <2>3. Cardinality(new) = 0 <=> new = {}
    BY <1>2, FS_EmptySet
  <2>4. q # {} /\ held = {} => new # {}
    BY <1>2, <1>3, <2>1, <2>2, <2>3, MaxConcurrentAssumption DEF Room
  <2>5. QED
    BY <1>2, <1>9, <2>4
<1>16. QED
  BY <1>8, <1>10, <1>11, <1>13, <1>14, <1>15

-----------------------------------------------------------------------------
(* The pump, whoever calls it, given that the outcomes v it is handed are   *)
(* old ones or that of the answered proxy.                                  *)
LEMMA PumpStep ==
  ASSUME IInv, running,
         NEW w \in SUBSET Requests,
         NEW v \in [Proxies -> 0..MaxBatches], NEW ok \in SUBSET Proxies,
         NEW answered, NEW expired \in SUBSET InFlight,
         \A p \in Proxies : v[p] <= sent[p] /\ (p \notin answered => v[p] = verdict[p]),
         Pump(w, v, ok, answered, expired)
  PROVE  IInv'
<1> DEFINE held == Held(answered, expired)
           done == queue = {} /\ held = {}
<1>1. TypeOK /\ BatchAtWork /\ NewestHeld /\ OncePerBatch /\ BatchNamed
  BY DEF IInv
<1>2. batch \in 1..MaxBatches /\ batch = batches
  BY <1>1, MaxBatchesAssumption DEF TypeOK, BatchAtWork, BatchNamed
<1>3. held \in SUBSET InFlight /\ Cardinality(held) <= MaxConcurrent
  <2>1. held \in SUBSET InFlight
    BY DEF Held
  <2>2. IsFiniteSet(InFlight)
    BY PoolFinite, FS_Subset DEF InFlight
  <2>3. /\ Cardinality(held) <= Cardinality(InFlight)
        /\ Cardinality(held) \in Nat /\ Cardinality(InFlight) \in Nat
    BY <2>1, <2>2, FS_Subset, FS_CardinalityType
  <2>4. QED
    BY <1>1, <2>1, <2>3, MaxConcurrentAssumption DEF BatchAtWork
<1>4. /\ Fill(batch, queue, held, w)
      /\ verdict' = [p \in Proxies |-> IF p \in expired THEN slot[p] ELSE v[p]]
      /\ healthy' = ok \ expired
      /\ running' = ~done /\ timer' = ~done
      /\ batch' = IF done THEN 0 ELSE batch
      /\ assigned' \in IF done THEN AssignAll(healthy', pending) ELSE {assigned}
      /\ pending' = IF done THEN {} ELSE pending
      /\ UNCHANGED <<connected, batches, known>>
  BY DEF Pump
<1>5. held \cap (answered \cup expired) = {} /\ queue \cap held = {}
  BY <1>1 DEF Held, BatchAtWork
<1> HIDE DEF held
<1>6. /\ queue' \subseteq queue
      /\ slot' \in [Proxies -> 0..MaxBatches]
      /\ sent' \in [Proxies -> 0..MaxBatches]
      /\ wire' \subseteq Requests
      /\ queue' \cap InFlight' = {}
      /\ queue' # {} => Cardinality(InFlight') = MaxConcurrent
      /\ Cardinality(InFlight') <= MaxConcurrent
      /\ InFlight' = {} <=> done
      /\ \A p \in Proxies :
           /\ sent[p] <= sent'[p]
           /\ sent'[p] <= batch
           /\ p \in queue' => sent'[p] < batch
           /\ slot'[p] # 0 => slot'[p] = sent'[p]
           /\ slot'[p] # 0 => sent[p] < slot'[p] \/ (p \in held /\ slot'[p] = slot[p])
  <2>1. queue \in SUBSET Proxies
    BY <1>1 DEF TypeOK
  <2>2. \A p \in Proxies : sent[p] <= batch /\ (p \in queue => sent[p] < batch)
    BY <1>1, <1>2 DEF OncePerBatch
  <2>3. PICK q \in SUBSET Proxies : q = queue
    BY <2>1
  <2>4. PICK b \in 1..MaxBatches : b = batch
    BY <1>2
  <2>5. /\ \A p \in Proxies : sent[p] <= b /\ (p \in q => sent[p] < b)
        /\ q \cap held = {} /\ Fill(b, q, held, w)
    BY <1>4, <1>5, <2>2, <2>3, <2>4
  <2>6. /\ queue' \subseteq q
        /\ slot' \in [Proxies -> 0..MaxBatches]
        /\ sent' \in [Proxies -> 0..MaxBatches]
        /\ wire' \subseteq Requests
        /\ queue' \cap InFlight' = {}
        /\ queue' # {} => Cardinality(InFlight') = MaxConcurrent
        /\ Cardinality(InFlight') <= MaxConcurrent
        /\ InFlight' = {} <=> q = {} /\ held = {}
        /\ \A p \in Proxies :
             /\ sent[p] <= sent'[p]
             /\ sent'[p] <= b
             /\ p \in queue' => sent'[p] < b
             /\ slot'[p] # 0 => slot'[p] = sent'[p]
             /\ slot'[p] # 0 => sent[p] < slot'[p] \/ (p \in held /\ slot'[p] = slot[p])
    BY <1>1, <1>3, <2>5, FillWorks
  <2>7. QED
    BY <2>3, <2>4, <2>6
<1> DEFINE d == done
<1>7. d \in BOOLEAN /\ (d => queue = {})
  OBVIOUS
<1>8. /\ running' = ~d /\ timer' = ~d
      /\ batch' = IF d THEN 0 ELSE batch
      /\ assigned' \in IF d THEN AssignAll(healthy', pending) ELSE {assigned}
      /\ pending' = IF d THEN {} ELSE pending
      /\ InFlight' = {} <=> d
  BY <1>4, <1>6
<1> HIDE DEF d
<1>9. verdict' \in [Proxies -> 0..MaxBatches]
  BY <1>1, <1>4 DEF TypeOK
<1>10. assigned' \in [Proxies -> Profiles \cup {None}]
  <2>1. assigned \in Assignments /\ pending \in SUBSET Profiles
    BY <1>1 DEF TypeOK, Assignments
  <2>2. AssignAll(healthy', pending) \subseteq Assignments
    BY <2>1, AssignAllType
  <2>3. assigned' \in Assignments
    BY <1>8, <2>1, <2>2
  <2>4. QED
    BY <2>3 DEF Assignments
<1>11. TypeOK'
  <2>1. running' \in BOOLEAN /\ timer' \in BOOLEAN
    BY <1>7, <1>8
  <2>2. batch' \in 0..MaxBatches
    BY <1>2, <1>8, MaxBatchesAssumption
  <2>3. pending' \subseteq Profiles
    BY <1>1, <1>8 DEF TypeOK
  <2>4. QED
    BY <1>1, <1>4, <1>6, <1>9, <1>10, <2>1, <2>2, <2>3 DEF TypeOK
<1>12. BatchAtWork'
  <2>1. CASE d
    <3>1. ~running' /\ ~timer' /\ batch' = 0
      BY <1>8, <2>1
    <3>2. queue' = {} /\ InFlight' = {}
      BY <1>6, <1>7, <1>8, <2>1
    <3>3. QED
      BY <1>6, <3>1, <3>2 DEF BatchAtWork
  <2>2. CASE ~d
    <3>1. running' /\ timer' /\ batch' = batches'
      BY <1>2, <1>4, <1>8, <2>2
    <3>2. InFlight' # {}
      BY <1>8, <2>2
    <3>3. QED
      BY <1>6, <3>1, <3>2 DEF BatchAtWork
  <2>3. QED
    BY <2>1, <2>2
<1>13. NewestHeld'
  <2>1. SUFFICES ASSUME NEW p \in Proxies
                 PROVE  /\ verdict'[p] <= sent'[p]
                        /\ slot'[p] # 0 => slot'[p] = sent'[p] /\ verdict'[p] < slot'[p]
    BY DEF NewestHeld
  <2>2. /\ sent[p] \in Nat /\ sent'[p] \in Nat /\ slot[p] \in Nat /\ slot'[p] \in Nat
        /\ v[p] \in Nat /\ verdict[p] \in Nat
    BY <1>1, <1>6, MaxBatchesAssumption DEF TypeOK
  <2>3. slot[p] <= sent[p]
    BY <1>1, <2>2 DEF NewestHeld
  <2>4. verdict'[p] = IF p \in expired THEN slot[p] ELSE v[p]
    BY <1>4
  <2>5. verdict'[p] <= sent[p] /\ verdict'[p] \in Nat
    BY <2>2, <2>3, <2>4
  <2>6. p \in held => verdict'[p] = verdict[p] /\ verdict[p] < slot[p]
    <3>1. p \in held => slot[p] # 0
      BY <1>3 DEF InFlight
    <3>2. QED
      BY <1>1, <1>5, <2>4, <3>1 DEF NewestHeld
  <2>7. QED
    BY <1>6, <2>2, <2>5, <2>6
<1>14. OncePerBatch' /\ BatchNamed'
  <2>1. OncePerBatch'
    BY <1>2, <1>4, <1>6 DEF OncePerBatch
  <2>2. d => ~running'
    BY <1>8
  <2>3. ~d => batch' # 0
    BY <1>2, <1>8
  <2>4. BatchNamed'
    BY <2>2, <2>3 DEF BatchNamed
  <2>5. QED
    BY <2>1, <2>4
<1>15. QED
  BY <1>11, <1>12, <1>13, <1>14 DEF IInv

-----------------------------------------------------------------------------
(* A new batch takes the place of whatever was there. *)
LEMMA StartBatchStep ==
  ASSUME IInv, NEW q \in SUBSET Proxies, q # {}, StartBatch(q),
         UNCHANGED <<connected, poolState>>, pending' \subseteq Profiles
  PROVE  IInv'
<1>1. TypeOK /\ NewestHeld /\ OncePerBatch
  BY DEF IInv
<1>2. PICK b \in 1..MaxBatches : b = batches + 1
  BY <1>1, MaxBatchesAssumption DEF StartBatch, TypeOK
<1>3. batches' = b /\ batch' = b /\ running' /\ timer'
  BY <1>2 DEF StartBatch
<1>4. PICK none \in SUBSET InFlight : none = {}
  OBVIOUS
<1>5. /\ queue' \subseteq q
      /\ slot' \in [Proxies -> 0..MaxBatches]
      /\ sent' \in [Proxies -> 0..MaxBatches]
      /\ wire' \subseteq Requests
      /\ queue' \cap InFlight' = {}
      /\ queue' # {} => Cardinality(InFlight') = MaxConcurrent
      /\ Cardinality(InFlight') <= MaxConcurrent
      /\ InFlight' = {} <=> q = {} /\ none = {}
      /\ \A p \in Proxies :
           /\ sent[p] <= sent'[p]
           /\ sent'[p] <= b
           /\ p \in queue' => sent'[p] < b
           /\ slot'[p] # 0 => slot'[p] = sent'[p]
           /\ slot'[p] # 0 => sent[p] < slot'[p] \/ (p \in none /\ slot'[p] = slot[p])
  <2>1. Fill(b, q, none, wire)
    BY <1>2, <1>4 DEF StartBatch
  <2>2. \A p \in Proxies : sent[p] <= b /\ (p \in q => sent[p] < b)
    BY <1>1, <1>2, MaxBatchesAssumption DEF OncePerBatch, TypeOK
  <2>3. q \cap none = {} /\ Cardinality(none) <= MaxConcurrent
    BY <1>4, FS_EmptySet, MaxConcurrentAssumption
  <2>4. PICK w \in SUBSET Requests : w = wire
    BY <1>1 DEF TypeOK
  <2>5. Fill(b, q, none, w)
    BY <2>1, <2>4
  <2>6. QED
    BY <1>1, <2>2, <2>3, <2>5, FillWorks
<1>6. TypeOK'
  <2>1. running' \in BOOLEAN /\ timer' \in BOOLEAN
    BY DEF StartBatch
  <2>2. b \in 0..MaxBatches
    OBVIOUS
  <2>3. QED
    BY <1>1, <1>3, <1>5, <2>1, <2>2 DEF TypeOK, poolState
<1>7. NewestHeld'
  <2>1. SUFFICES ASSUME NEW p \in Proxies
                 PROVE  /\ verdict'[p] <= sent'[p]
                        /\ slot'[p] # 0 => slot'[p] = sent'[p] /\ verdict'[p] < slot'[p]
    BY DEF NewestHeld
  <2>2. /\ sent[p] \in Nat /\ sent'[p] \in Nat /\ slot'[p] \in Nat /\ verdict[p] \in Nat
        /\ verdict[p] <= sent[p] /\ verdict' = verdict
    BY <1>1, <1>5, MaxBatchesAssumption DEF TypeOK, NewestHeld, poolState
  <2>3. QED
    BY <1>4, <1>5, <2>2
<1>8. BatchAtWork'
  <2>1. InFlight' # {}
    BY <1>5
  <2>2. QED
    BY <1>3, <1>5, <2>1 DEF BatchAtWork
<1>9. OncePerBatch'
  BY <1>3, <1>5 DEF OncePerBatch
<1>10. BatchNamed'
  BY <1>3 DEF BatchNamed
<1>11. QED
  BY <1>6, <1>7, <1>8, <1>9, <1>10 DEF IInv

(* Dropping a batch leaves nothing of it but the requests on their way. *)
LEMMA DropBatchStep ==
  ASSUME IInv, DropBatch, UNCHANGED <<connected, wire, poolState>>, pending' \subseteq Profiles
  PROVE  IInv'
<1>1. TypeOK /\ NewestHeld /\ OncePerBatch
  BY DEF IInv
<1>2. InFlight' = {}
  BY DEF DropBatch, InFlight
<1>3. BatchAtWork'
  <2>1. Cardinality(InFlight') <= MaxConcurrent
    BY <1>2, FS_EmptySet, MaxConcurrentAssumption
  <2>2. ~running' /\ ~timer' /\ batch' = 0 /\ queue' = {}
    BY DEF DropBatch
  <2>3. QED
    BY <1>2, <2>1, <2>2 DEF BatchAtWork
<1>4. TypeOK'
  <2>1. running' \in BOOLEAN /\ timer' \in BOOLEAN
    BY DEF DropBatch
  <2>2. /\ slot' \in [Proxies -> 0..MaxBatches]
        /\ batch' \in 0..MaxBatches /\ queue' \subseteq Proxies
    BY MaxBatchesAssumption DEF DropBatch
  <2>3. batches' = batches /\ sent' = sent
    BY DEF DropBatch
  <2>4. QED
    BY <1>1, <2>1, <2>2, <2>3 DEF TypeOK, poolState
<1>5. NewestHeld'
  BY <1>1 DEF NewestHeld, DropBatch, poolState
<1>6. OncePerBatch' /\ BatchNamed'
  BY <1>1 DEF OncePerBatch, BatchNamed, DropBatch
<1>7. QED
  BY <1>3, <1>4, <1>5, <1>6 DEF IInv

(* An answer that counts is of the newest request of its proxy. *)
LEMMA ExpectedIsNewest ==
  ASSUME IInv, NEW r \in wire, Expected(r)
  PROVE  /\ running
         /\ r.proxy \in InFlight
         /\ r.request \in 1..MaxBatches
         /\ r.request = slot[r.proxy]
         /\ r.request = sent[r.proxy]
         /\ verdict[r.proxy] < r.request
<1>1. TypeOK /\ NewestHeld /\ BatchAtWork
  BY DEF IInv
<1>2. r.proxy \in Proxies /\ r.request \in 1..MaxBatches
  BY <1>1 DEF TypeOK, Requests
<1>3. slot[r.proxy] # 0 /\ r.request = slot[r.proxy]
  BY DEF Expected
<1>4. running
  BY <1>1, <1>2, <1>3 DEF BatchAtWork, InFlight
<1>5. QED
  BY <1>1, <1>2, <1>3, <1>4 DEF NewestHeld, InFlight

(* An answer records its outcome and pumps. *)
LEMMA AnswerStep ==
  ASSUME IInv, NEW r \in wire, NEW ok \in BOOLEAN, NEW expired \in SUBSET InFlight,
         Answer(r, ok, expired)
  PROVE  IInv'
<1>1. TypeOK /\ NewestHeld
  BY DEF IInv
<1>2. PICK p \in Proxies : p = r.proxy
  BY <1>1 DEF TypeOK, Requests
<1>3. running /\ r.request \in 1..MaxBatches /\ r.request = sent[p]
  BY <1>2, ExpectedIsNewest DEF Answer
<1>4. PICK v \in [Proxies -> 0..MaxBatches] : v = [verdict EXCEPT ![p] = r.request]
  <2>1. r.request \in 0..MaxBatches
    BY <1>3, MaxBatchesAssumption
  <2>2. QED
    BY <1>1, <2>1 DEF TypeOK
<1>5. PICK oks \in SUBSET Proxies : oks = IF ok THEN healthy \cup {p} ELSE healthy \ {p}
  BY <1>1 DEF TypeOK
<1>6. PICK w \in SUBSET Requests : w = wire \ {r}
  BY <1>1 DEF TypeOK
<1>7. PICK answered \in SUBSET Proxies : answered = {p}
  OBVIOUS
<1>8. Pump(w, v, oks, answered, expired)
  BY <1>2, <1>4, <1>5, <1>6, <1>7 DEF Answer
<1>9. \A x \in Proxies : v[x] <= sent[x] /\ (x \notin answered => v[x] = verdict[x])
  BY <1>1, <1>3, <1>4, <1>7, MaxBatchesAssumption DEF NewestHeld, TypeOK
<1>10. QED
  BY <1>3, <1>8, <1>9, PumpStep

(* A tick pumps with the outcomes that are known. *)
LEMMA TickStep ==
  ASSUME IInv, NEW expired \in SUBSET InFlight, Tick(expired)
  PROVE  IInv'
<1>1. TypeOK /\ NewestHeld /\ running
  BY DEF IInv, Tick, BatchAtWork
<1>2. PICK answered \in SUBSET Proxies, v \in [Proxies -> 0..MaxBatches],
           ok \in SUBSET Proxies, w \in SUBSET Requests :
        answered = {} /\ v = verdict /\ ok = healthy /\ w = wire
  BY <1>1 DEF TypeOK
<1>3. Pump(w, v, ok, answered, expired)
  BY <1>2 DEF Tick
<1>4. \A x \in Proxies : v[x] <= sent[x] /\ (x \notin answered => v[x] = verdict[x])
  BY <1>1, <1>2 DEF NewestHeld
<1>5. QED
  BY <1>1, <1>3, <1>4, PumpStep

(* Steps that leave the batch alone. *)
LEMMA AloneStep ==
  ASSUME IInv, UNCHANGED <<batchState, verdict>>,
         connected' \in BOOLEAN, wire' \subseteq wire, known' \subseteq Proxies,
         UNCHANGED healthy, assigned' \in Assignments, pending' \subseteq Profiles
  PROVE  IInv'
<1>1. TypeOK /\ BatchAtWork /\ NewestHeld /\ OncePerBatch /\ BatchNamed
  BY DEF IInv
<1>2. UNCHANGED <<running, timer, batch, batches, queue, slot, sent>>
  BY DEF batchState
<1>3. TypeOK'
  BY <1>1, <1>2 DEF TypeOK, Assignments
<1>4. BatchAtWork' /\ NewestHeld' /\ OncePerBatch' /\ BatchNamed'
  BY <1>1, <1>2 DEF BatchAtWork, InFlight, NewestHeld, OncePerBatch, BatchNamed
<1>5. QED
  BY <1>3, <1>4 DEF IInv

(* Every step of the app, the user and the agent. *)
LEMMA NextIInv ==
  ASSUME IInv, [Next]_vars
  PROVE  IInv'
<1>1. TypeOK /\ BatchAtWork
  BY DEF IInv
<1>2. /\ assigned \in Assignments /\ pending \subseteq Profiles /\ connected \in BOOLEAN
      /\ known \subseteq Proxies
  BY <1>1 DEF TypeOK, Assignments
<1>3. ASSUME NEW p \in Proxies, Import(p) PROVE IInv'
  BY <1>2, <1>3, AloneStep DEF Import
<1>4. ASSUME NEW f \in Profiles, Release(f) PROVE IInv'
  <2>1. assigned' \in Assignments
    BY <1>2, <1>4 DEF Release, Assignments
  <2>2. QED
    BY <1>2, <1>4, <2>1, AloneStep DEF Release
<1>5. CASE testProxyPoolAll
  <2>1. PICK q \in SUBSET Proxies : q = known
    BY <1>2
  <2>2. q # {} /\ StartBatch(q) /\ UNCHANGED <<connected, poolState, pending>>
    BY <1>5, <2>1 DEF testProxyPoolAll
  <2>3. QED
    BY <1>2, <2>2, StartBatchStep
<1>6. CASE cancelProxyPoolTestBatch
  BY <1>6, DropBatchStep DEF cancelProxyPoolTestBatch
<1>7. ASSUME NEW profiles \in SUBSET Profiles, AssignNow(profiles) PROVE IInv'
  <2>1. AssignAll(healthy, profiles) \subseteq Assignments
    BY <1>2, AssignAllType
  <2>2. assigned' \in Assignments
    BY <1>7, <2>1 DEF AssignNow
  <2>3. QED
    BY <1>2, <1>7, <2>2, AloneStep DEF AssignNow
<1>8. ASSUME NEW profiles \in SUBSET Profiles, AssignDuringBatch(profiles) PROVE IInv'
  BY <1>2, <1>8, AloneStep DEF AssignDuringBatch, poolState
<1>9. ASSUME NEW profiles \in SUBSET Profiles, AssignAfterCheck(profiles) PROVE IInv'
  <2>1. pending' \subseteq Profiles /\ UNCHANGED <<connected, poolState>>
    BY <1>9 DEF AssignAfterCheck
  <2>2. CASE connected
    <3>1. PICK q \in SUBSET Proxies : q = Free
      BY <1>2 DEF Free
    <3>2. q # {} /\ StartBatch(q)
      BY <1>9, <2>2, <3>1 DEF AssignAfterCheck
    <3>3. QED
      BY <2>1, <3>2, StartBatchStep
  <2>3. CASE ~connected
    BY <1>2, <1>9, <2>1, <2>3, AloneStep DEF AssignAfterCheck, poolState
  <2>4. QED
    BY <2>2, <2>3
<1>10. ASSUME NEW r \in wire, LateAnswer(r) PROVE IInv'
  BY <1>2, <1>10, AloneStep DEF LateAnswer, poolState
<1>11. ASSUME NEW r \in wire, NEW ok \in BOOLEAN, NEW expired \in SUBSET InFlight,
              Answer(r, ok, expired)
       PROVE  IInv'
  BY <1>11, AnswerStep
<1>12. ASSUME NEW expired \in SUBSET InFlight, Tick(expired) PROVE IInv'
  BY <1>12, TickStep
<1>13. CASE TickDisconnected
  BY <1>2, <1>13, DropBatchStep DEF TickDisconnected
<1>14. CASE Disconnect \/ Connect
  BY <1>2, <1>14, AloneStep DEF Disconnect, Connect, poolState
<1>15. CASE UNCHANGED vars
  BY <1>2, <1>15, AloneStep DEF vars, batchState
<1>16. QED
  BY <1>3, <1>4, <1>5, <1>6, <1>7, <1>8, <1>9, <1>10, <1>11, <1>12, <1>13, <1>14, <1>15 DEF Next

(* Every behaviour of the app stays in the inductive invariant. *)
LEMMA Invariance == Spec => []IInv
BY InitIInv, NextIInv, PTL DEF Spec

(* Every variable keeps its type: no proxy is asked for more often than     *)
(* there were batches, and every assignment made one profile after the      *)
(* other, in any order, leaves every proxy with a profile or with none.     *)
THEOREM TypeCorrect == Spec => []TypeOK
<1>1. IInv => TypeOK
  BY DEF IInv
<1>2. QED
  BY <1>1, Invariance, PTL

(* AppController.cpp, pumpProxyPoolTestQueue: a batch that runs has its     *)
(* timer and something in flight, uses its slots and never more than        *)
(* MaxConcurrent of them; one that does not run holds nothing.              *)
THEOREM BatchStaysAtWork == Spec => []BatchAtWork
<1>1. IInv => BatchAtWork
  BY DEF IInv
<1>2. QED
  BY <1>1, Invariance, PTL

-----------------------------------------------------------------------------
(* The step formula of OnlyNewestTestCounts, for one proxy. *)
Counts(p) ==
  verdict'[p] # verdict[p] \/ (p \in healthy) # (p \in healthy') =>
    running /\ verdict[p] < verdict'[p] /\ verdict'[p] = sent[p]

(* A tick only records timeouts. *)
LEMMA TickCounts ==
  ASSUME IInv, NEW expired \in SUBSET InFlight, Tick(expired), NEW p \in Proxies
  PROVE  Counts(p)
<1>1. /\ verdict' = [x \in Proxies |-> IF x \in expired THEN slot[x] ELSE verdict[x]]
      /\ healthy' = healthy \ expired
  BY DEF Tick, Pump
<1>2. running
  BY DEF IInv, Tick, BatchAtWork
<1>3. CASE p \in expired
  BY <1>1, <1>2, <1>3 DEF IInv, NewestHeld, InFlight, Counts
<1>4. CASE p \notin expired
  BY <1>1, <1>4 DEF Counts
<1>5. QED
  BY <1>3, <1>4

(* An answer that is recorded is that of the newest request. *)
LEMMA AnswerCounts ==
  ASSUME IInv, NEW r \in wire, NEW ok \in BOOLEAN, NEW expired \in SUBSET InFlight,
         Answer(r, ok, expired), NEW p \in Proxies
  PROVE  Counts(p)
<1>1. /\ running /\ r.request = sent[r.proxy] /\ verdict[r.proxy] < r.request
      /\ r.proxy \notin expired
  BY ExpectedIsNewest DEF Answer
<1>2. TypeOK /\ NewestHeld
  BY DEF IInv
<1>3. verdict' = [x \in Proxies |->
                   IF x \in expired THEN slot[x] ELSE [verdict EXCEPT ![r.proxy] = r.request][x]]
  BY DEF Answer, Pump
<1>4. /\ p \in expired => verdict'[p] = slot[p]
      /\ p = r.proxy => verdict'[p] = r.request
      /\ p \notin expired /\ p # r.proxy => verdict'[p] = verdict[p]
  BY <1>1, <1>2, <1>3 DEF TypeOK
<1>5. p \notin expired /\ p # r.proxy => (p \in healthy <=> p \in healthy')
  BY DEF Answer, Pump
<1>6. CASE p \in expired
  BY <1>1, <1>2, <1>4, <1>6 DEF NewestHeld, InFlight, Counts
<1>7. CASE p = r.proxy
  BY <1>1, <1>4, <1>7 DEF Counts
<1>8. CASE p \notin expired /\ p # r.proxy
  BY <1>4, <1>5, <1>8 DEF Counts
<1>9. QED
  BY <1>6, <1>7, <1>8

(* The health of a proxy is only changed by its newest request, of a batch  *)
(* that runs, and by a request once: an answer that comes after a timeout,  *)
(* a cancellation or a replacement never overwrites (AppController.cpp, the *)
(* handler of proxy_pool.test.result).                                      *)
THEOREM NewestTestCounts == Spec => OnlyNewestTestCounts
<1>1. ASSUME IInv, [Next]_vars, NEW p \in Proxies
      PROVE  Counts(p)
  <2>1. CASE \E expired \in SUBSET InFlight : Tick(expired)
    BY <1>1, <2>1, TickCounts
  <2>2. CASE \E r \in wire, ok \in BOOLEAN, expired \in SUBSET InFlight : Answer(r, ok, expired)
    BY <1>1, <2>2, AnswerCounts
  <2>3. CASE \/ \E x \in Proxies : Import(x)
             \/ \E f \in Profiles : Release(f)
             \/ testProxyPoolAll \/ cancelProxyPoolTestBatch
             \/ \E profiles \in (SUBSET Profiles) \ {{}} :
                  AssignNow(profiles) \/ AssignDuringBatch(profiles) \/ AssignAfterCheck(profiles)
             \/ \E r \in wire : LateAnswer(r)
             \/ TickDisconnected \/ Disconnect \/ Connect \/ UNCHANGED vars
    <3>1. verdict' = verdict /\ healthy' = healthy
      BY <2>3 DEF Import, Release, testProxyPoolAll, cancelProxyPoolTestBatch, AssignNow,
                  AssignDuringBatch, AssignAfterCheck, LateAnswer, TickDisconnected,
                  Disconnect, Connect, vars, poolState
    <3>2. QED
      BY <3>1 DEF Counts
  <2>4. QED
    BY <1>1, <2>1, <2>2, <2>3 DEF Next
<1>2. IInv /\ [Next]_vars =>
        [\A p \in Proxies :
           verdict'[p] # verdict[p] \/ (p \in healthy) # (p \in healthy') =>
             running /\ verdict[p] < verdict'[p] /\ verdict'[p] = sent[p]]_vars
  BY <1>1 DEF Counts
<1>3. QED
  BY <1>2, Invariance, PTL DEF Spec, OnlyNewestTestCounts
=============================================================================
