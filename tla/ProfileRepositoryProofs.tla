----------------------- MODULE ProfileRepositoryProofs -----------------------
(***************************************************************************)
(* ProfileRepository implements ProfileStore, for any consoles, profiles   *)
(* and proxies, and a proxy never has two profiles.  The inductive         *)
(* invariant says what the open transaction of a call has written so far:  *)
(* the committed state, which nobody else can change while the file is     *)
(* locked, with the effect of the statements before the next one.          *)
(***************************************************************************)
EXTENDS ProfileRepository, TLAPS

(* The smaller of two numbers. *)
LEMMA MinOfTwo ==
  ASSUME NEW a \in Nat, NEW b \in Nat
  PROVE  Min({a, b}) \in Nat /\ Min({a, b}) <= a /\ Min({a, b}) <= b
<1>1. \E x \in {a, b} : \A y \in {a, b} : x =< y
  <2>1. CASE a <= b
    BY <2>1
  <2>2. CASE b <= a
    BY <2>2
  <2>3. QED
    BY <2>1, <2>2
<1>2. QED
  BY <1>1 DEF Min

(* A statement that writes one table leaves the types. *)
LEMMA Types ==
  ASSUME NEW n \in Nat, NEW d \in Databases(n), NEW f \in Profiles
  PROVE  /\ \A x \in Proxies \cup {None} : [d EXCEPT !.holds[f] = x] \in Databases(n)
         /\ \A x \in Configs : [d EXCEPT !.config[f] = x] \in Databases(n)
         /\ \A L \in SUBSET Profiles : [d EXCEPT !.listed = L] \in Databases(n)
         /\ \A L \in SUBSET Proxies : [d EXCEPT !.pool = L] \in Databases(n)
         /\ \A m \in 0..n : [d EXCEPT !.rows[f] = m] \in Databases(n)
BY DEF Databases

(* What an operation writes has the types of a database. *)
LEMMA EffectTypes ==
  ASSUME NEW d \in Databases(Keep), NEW f \in Profiles
  PROVE  /\ \A x \in Configs : Saved(d, f, x) \in Databases(Keep)
         /\ Removed(d, f) \in Databases(Keep)
         /\ \A L \in SUBSET Proxies : Imported(d, L) \in Databases(Keep)
         /\ \A x \in Proxies : Given(d, f, x) \in Databases(Keep)
         /\ Released(d, f) \in Databases(Keep)
         /\ Recorded(d, f) \in Databases(Keep)
<1>1. d.rows[f] \in Nat /\ d.rows[f] + 1 \in Nat /\ Keep \in Nat
  BY KeepAssumption DEF Databases
<1>2. Min({d.rows[f] + 1, Keep}) \in 0..Keep
  BY <1>1, MinOfTwo
<1>3. Recorded(d, f) \in Databases(Keep)
  BY <1>2 DEF Recorded, Databases
<1>4. ASSUME NEW x \in Configs PROVE Saved(d, f, x) \in Databases(Keep)
  BY DEF Saved, Databases
<1>5. Removed(d, f) \in Databases(Keep)
  <2>1. PICK e \in Databases(Keep) : e = [d EXCEPT !.listed = @ \ {f}, !.config[f] = "direct"]
    BY DEF Databases, Configs
  <2>2. 0 \in 0..Keep
    BY KeepAssumption
  <2>3. [e EXCEPT !.holds[f] = None, !.rows[f] = 0] \in Databases(Keep)
    BY <2>2 DEF Databases
  <2>4. Removed(d, f) = [e EXCEPT !.holds[f] = None, !.rows[f] = 0]
    BY <2>1 DEF Removed
  <2>5. QED
    BY <2>3, <2>4
<1>6. ASSUME NEW L \in SUBSET Proxies PROVE Imported(d, L) \in Databases(Keep)
  BY DEF Imported, Databases
<1>7. ASSUME NEW x \in Proxies PROVE Given(d, f, x) \in Databases(Keep)
  BY DEF Given, Databases, Configs
<1>8. Released(d, f) \in Databases(Keep)
  BY DEF Released, Databases, Configs
<1>9. QED
  BY <1>3, <1>4, <1>5, <1>6, <1>7, <1>8

-----------------------------------------------------------------------------
(* Every operation keeps the promises about the committed state. *)
LEMMA EffectsKeep ==
  ASSUME StoreOK, NEW c \in Consoles, StoreNext
  PROVE  StoreOK'
<1>1. db \in Databases(Keep)
  BY DEF StoreOK
<1>2. CASE UNCHANGED db
  BY <1>2 DEF StoreOK, NoRows
<1>3. ASSUME NEW L \in SUBSET Proxies, db' = Imported(db, L)
      PROVE  StoreOK'
  <2>1. db' \in Databases(Keep)
    BY <1>1, <1>3 DEF Imported, Databases
  <2>2. QED
    BY <1>1, <1>3, <2>1 DEF StoreOK, NoRows, Imported, Databases
<1>4. ASSUME NEW f \in Profiles, NEW x \in Configs, db' = Saved(db, f, x)
      PROVE  StoreOK'
  <2>1. db' \in Databases(Keep)
    BY <1>1, <1>4, EffectTypes
  <2>2. QED
    BY <1>1, <1>4, <2>1 DEF StoreOK, NoRows, Saved, Databases
<1>5. ASSUME NEW f \in Profiles, db' = Removed(db, f)
      PROVE  StoreOK'
  <2>1. db' \in Databases(Keep)
    BY <1>1, <1>5, EffectTypes
  <2>2. QED
    BY <1>1, <1>5, <2>1, NoneIsNoProxy DEF StoreOK, NoRows, Removed, Databases
<1>6. ASSUME NEW f \in Profiles, NEW x \in Free(db), f \in db.listed, db' = Given(db, f, x)
      PROVE  StoreOK'
  <2>1. x \in Proxies
    BY <1>1, <1>6 DEF Free, Databases
  <2>2. db' \in Databases(Keep)
    BY <1>1, <1>6, <2>1, EffectTypes
  <2>3. QED
    BY <1>1, <1>6, <2>1, <2>2 DEF StoreOK, NoRows, Given, Free, Databases
<1>7. ASSUME NEW f \in Profiles, f \in db.listed, db' = Released(db, f)
      PROVE  StoreOK'
  <2>1. db' \in Databases(Keep)
    BY <1>1, <1>7, EffectTypes
  <2>2. QED
    BY <1>1, <1>7, <2>1, NoneIsNoProxy DEF StoreOK, NoRows, Released, Databases
<1>8. ASSUME NEW f \in Profiles, f \in db.listed, db' = Recorded(db, f)
      PROVE  StoreOK'
  <2>1. db' \in Databases(Keep)
    BY <1>1, <1>8, EffectTypes
  <2>2. QED
    BY <1>1, <1>8, <2>1 DEF StoreOK, NoRows, Recorded, Databases
<1>9. QED
  BY <1>2, <1>3, <1>4, <1>5, <1>6, <1>7, <1>8
     DEF StoreNext, Waits, Fails, import, save, remove, give, release, record, Succeeds

(* The abstract specification: no profile that is not listed has rows, and  *)
(* no proxy has two profiles.                                               *)
THEOREM StoreIsSafe == StoreSpec => []StoreOK
<1>1. StoreInit => StoreOK
  BY KeepAssumption DEF StoreInit, StoreOK, NoRows, Databases, Configs
<1>2. StoreOK /\ [StoreNext]_storeVars => StoreOK'
  <2>1. SUFFICES ASSUME StoreOK, [StoreNext]_storeVars PROVE StoreOK'
    OBVIOUS
  <2>2. CASE StoreNext
    <3>1. PICK c \in Consoles : TRUE
      BY <2>2 DEF StoreNext
    <3>2. QED
      BY <2>1, <2>2, <3>1, EffectsKeep
  <2>3. CASE UNCHANGED storeVars
    BY <2>1, <2>3 DEF storeVars, StoreOK, NoRows
  <2>4. QED
    BY <2>1, <2>2, <2>3
<1>3. QED
  BY <1>1, <1>2, PTL DEF StoreSpec

-----------------------------------------------------------------------------
(* A call that has not touched the file yet, and one whose transaction is d *)
Fresh(c, at) == call[c].at = at /\ lock[c] = "none"

Written(c, at, d) == call[c].at = at /\ lock[c] # "none" /\ work[c] = d

Saving(c, f, x) ==
  /\ call[c].op = "save" /\ x \in Configs
  /\ \/ Fresh(c, "profile")
     \/ Written(c, "config", [db EXCEPT !.listed = @ \cup {f}])
     \/ Written(c, "commit", Saved(db, f, x))

Importing(c) ==
  /\ call[c].op = "import"
  /\ \/ Fresh(c, "line")
     \/ \E L \in SUBSET Proxies :
          \/ Written(c, "line", Imported(db, L))
          \/ Written(c, "commit", Imported(db, L))

Picking(c, x) ==
  \/ call[c].op \in {"assign", "rotate"} /\ Fresh(c, "pick")
  \/ call[c].op = "assign" /\ Fresh(c, "check") /\ x \in Proxies

Giving(c, f, x) ==
  /\ call[c].op \in {"assign", "rotate"} /\ x \in Free(db)
  /\ \/ Written(c, "delete", db)
     \/ Written(c, "insert", [db EXCEPT !.holds[f] = None])
     \/ f \in db.listed /\ Written(c, "config", [db EXCEPT !.holds[f] = x])
     \/ f \in db.listed /\ Written(c, "commit", Given(db, f, x))

Releasing(c, f, x) ==
  /\ call[c].op = "release" /\ x = "direct"
  /\ \/ Fresh(c, "delete")
     \/ Written(c, "config", [db EXCEPT !.holds[f] = None])
     \/ f \in db.listed /\ Written(c, "commit", Released(db, f))

Recording(c, f) ==
  /\ call[c].op = "record"
  /\ \/ Fresh(c, "row")
     \/ f \in db.listed /\ Written(c, "trim", [db EXCEPT !.rows[f] = @ + 1])
     \/ f \in db.listed /\ Written(c, "commit", Recorded(db, f))

InCall(c) ==
  LET f == call[c].profile
      x == call[c].arg
  IN \/ call[c] = Idle
     \/ Importing(c)
     \/ /\ f \in Profiles
        /\ \/ Saving(c, f, x)
           \/ call[c].op = "remove" /\ Fresh(c, "remove")
           \/ Picking(c, x)
           \/ Giving(c, f, x)
           \/ Releasing(c, f, x)
           \/ Recording(c, f)

CallTypes ==
  /\ answer \in [Consoles -> {"none", "ok", "failed"}]
  /\ call \in [Consoles -> Calls \cup {Idle}]
  /\ lock \in [Consoles -> {"none", "shared", "reserved"}]
  /\ work \in [Consoles -> Databases(Keep + 1) \cup {None}]
  /\ \A c \in Consoles : lock[c] # "none" => work[c] \in Databases(Keep + 1)

IInv == StoreOK /\ CallTypes /\ \A c \in Consoles : InCall(c)

(* A step of console c changes nothing of the calls of the others. *)
OnlyOf(c) ==
  \A o \in Consoles \ {c} :
    call'[o] = call[o] /\ lock'[o] = lock[o] /\ work'[o] = work[o]

(* What a call has written stays true while nothing it rests on changes. *)
LEMMA Unmoved ==
  ASSUME NEW o \in Consoles, InCall(o), UNCHANGED db,
         call'[o] = call[o] /\ lock'[o] = lock[o] /\ work'[o] = work[o]
  PROVE  InCall(o)'
<1> DEFINE f == call[o].profile
           x == call[o].arg
<1>1. call[o] = Idle => InCall(o)'
  BY DEF InCall
<1>2. Importing(o) => Importing(o)'
  BY DEF Importing, Fresh, Written, Imported
<1>3. Saving(o, f, x) => Saving(o, f, x)'
  BY DEF Saving, Fresh, Written, Saved
<1>4. call[o].op = "remove" /\ Fresh(o, "remove") => (call[o].op = "remove" /\ Fresh(o, "remove"))'
  BY DEF Fresh
<1>5. Picking(o, x) => Picking(o, x)'
  BY DEF Picking, Fresh
<1>6. Giving(o, f, x) => Giving(o, f, x)'
  BY DEF Giving, Written, Free, Given
<1>7. Releasing(o, f, x) => Releasing(o, f, x)'
  BY DEF Releasing, Fresh, Written, Released
<1>8. Recording(o, f) => Recording(o, f)'
  BY DEF Recording, Fresh, Written, Recorded
<1>9. f' = f
  OBVIOUS
<1>10. QED
  BY <1>1, <1>2, <1>3, <1>4, <1>5, <1>6, <1>7, <1>8, <1>9 DEF InCall

(* The committed state only changes when nobody else has the file locked.   *)
LEMMA OthersKeep ==
  ASSUME NEW c \in Consoles, NEW o \in Consoles \ {c}, InCall(o), OnlyOf(c),
         UNCHANGED db \/ MayCommit(c)
  PROVE  InCall(o)'
<1>1. call'[o] = call[o] /\ lock'[o] = lock[o] /\ work'[o] = work[o]
  BY DEF OnlyOf
<1>2. CASE UNCHANGED db
  BY <1>1, <1>2, Unmoved
<1>3. CASE MayCommit(c)
  <2>1. lock[o] = "none"
    BY <1>3 DEF MayCommit
  <2>2. QED
    BY <1>1, <2>1 DEF InCall, Saving, Importing, Picking, Giving, Releasing, Recording,
         Fresh, Written
<1>4. QED
  BY <1>2, <1>3

(* What has to be shown of a step of console c. *)
LEMMA StepKeeps ==
  ASSUME IInv, NEW c \in Consoles, OnlyOf(c), CallTypes', InCall(c)',
         StoreNext \/ UNCHANGED db, UNCHANGED db \/ MayCommit(c)
  PROVE  IInv'
<1>1. StoreOK'
  <2>1. CASE StoreNext
    BY <2>1, EffectsKeep DEF IInv
  <2>2. CASE UNCHANGED db
    BY <2>2 DEF IInv, StoreOK, NoRows
  <2>3. QED
    BY <2>1, <2>2
<1>2. \A o \in Consoles : InCall(o)'
  BY OthersKeep DEF IInv
<1>3. QED
  BY <1>1, <1>2 DEF IInv

(* A database with room for a row more. *)
LEMMA RoomForARow ==
  ASSUME NEW d \in Databases(Keep) PROVE d \in Databases(Keep + 1)
BY KeepAssumption DEF Databases

(* What a statement sees of the committed state. *)
LEMMA ViewType ==
  ASSUME IInv, NEW c \in Consoles, call[c] # Idle
  PROVE  /\ View(c) \in Databases(Keep + 1)
         /\ call[c] \in Calls
         /\ lock[c] = "none" => View(c) = db
         /\ lock[c] # "none" => View(c) = work[c]
BY RoomForARow DEF IInv, StoreOK, CallTypes, View

-----------------------------------------------------------------------------
(* Going to the next statement changes nothing else of the call. *)
LEMMA GotoMoves ==
  ASSUME CallTypes, NEW c \in Consoles, call[c] \in Calls, NEW s \in Statements, Goto(c, s)
  PROVE  /\ call' = [call EXCEPT ![c] = call'[c]]
         /\ call'[c] \in Calls
         /\ call'[c].at = s
         /\ call'[c].op = call[c].op
         /\ call'[c].profile = call[c].profile
         /\ call'[c].arg = call[c].arg
<1>1. call'[c] = [call[c] EXCEPT !.at = s]
  BY DEF Goto, CallTypes
<1>2. call' = [call EXCEPT ![c] = call'[c]]
  BY DEF Goto, CallTypes
<1>3. QED
  BY <1>1, <1>2 DEF Calls

(* A statement that writes d in the transaction of c. *)
LEMMA WriteStep ==
  ASSUME IInv, NEW c \in Consoles, NEW d \in Databases(Keep + 1), Writes(c, d),
         call'[c] \in Calls, call' = [call EXCEPT ![c] = call'[c]], UNCHANGED <<db, answer>>
  PROVE  /\ OnlyOf(c) /\ CallTypes'
         /\ lock'[c] # "none" /\ work'[c] = d
<1>1. CallTypes
  BY DEF IInv
<1>2. call' \in [Consoles -> Calls \cup {Idle}]
  BY <1>1 DEF CallTypes
<1>3. /\ lock' \in [Consoles -> {"none", "shared", "reserved"}]
      /\ work' \in [Consoles -> Databases(Keep + 1) \cup {None}]
      /\ lock'[c] = "reserved" /\ work'[c] = d
      /\ \A o \in Consoles \ {c} : lock'[o] = lock[o] /\ work'[o] = work[o]
  BY <1>1 DEF CallTypes, Writes
<1>4. \A o \in Consoles \ {c} : call'[o] = call[o]
  BY <1>1 DEF CallTypes
<1>5. \A o \in Consoles : lock'[o] # "none" => work'[o] \in Databases(Keep + 1)
  BY <1>1, <1>3 DEF CallTypes
<1>6. QED
  BY <1>1, <1>2, <1>3, <1>4, <1>5 DEF CallTypes, OnlyOf

(* A statement that only reads. *)
LEMMA ReadStep ==
  ASSUME IInv, NEW c \in Consoles, call[c] # Idle, Reads(c),
         call'[c] \in Calls, call' = [call EXCEPT ![c] = call'[c]], UNCHANGED <<db, answer>>
  PROVE  /\ OnlyOf(c) /\ CallTypes'
         /\ lock'[c] # "none" /\ work'[c] = View(c)
<1>1. CallTypes
  BY DEF IInv
<1>2. call' \in [Consoles -> Calls \cup {Idle}]
  BY <1>1 DEF CallTypes
<1>3. View(c) \in Databases(Keep + 1)
  BY ViewType
<1>4. /\ lock' \in [Consoles -> {"none", "shared", "reserved"}]
      /\ work' \in [Consoles -> Databases(Keep + 1) \cup {None}]
      /\ lock'[c] # "none" /\ work'[c] = View(c)
      /\ \A o \in Consoles \ {c} : lock'[o] = lock[o] /\ work'[o] = work[o]
  BY <1>1, <1>3 DEF CallTypes, Reads
<1>5. \A o \in Consoles \ {c} : call'[o] = call[o]
  BY <1>1 DEF CallTypes
<1>6. \A o \in Consoles : lock'[o] # "none" => work'[o] \in Databases(Keep + 1)
  BY <1>1, <1>3, <1>4 DEF CallTypes
<1>7. QED
  BY <1>1, <1>2, <1>4, <1>5, <1>6 DEF CallTypes, OnlyOf

(* A step that leaves console c without a transaction. *)
LEMMA UnlockStep ==
  ASSUME IInv, NEW c \in Consoles, Unlock(c),
         call'[c] \in Calls \cup {Idle}, call' = [call EXCEPT ![c] = call'[c]],
         NEW a \in {"none", "ok", "failed"}, answer' = [answer EXCEPT ![c] = a]
  PROVE  /\ OnlyOf(c) /\ CallTypes'
         /\ lock'[c] = "none"
<1>1. CallTypes
  BY DEF IInv
<1>2. call' \in [Consoles -> Calls \cup {Idle}] /\ answer' \in [Consoles -> {"none", "ok", "failed"}]
  BY <1>1 DEF CallTypes
<1>3. /\ lock' \in [Consoles -> {"none", "shared", "reserved"}]
      /\ work' \in [Consoles -> Databases(Keep + 1) \cup {None}]
      /\ lock'[c] = "none"
      /\ \A o \in Consoles \ {c} : lock'[o] = lock[o] /\ work'[o] = work[o]
  BY <1>1 DEF CallTypes, Unlock
<1>4. \A o \in Consoles \ {c} : call'[o] = call[o]
  BY <1>1 DEF CallTypes
<1>5. \A o \in Consoles : lock'[o] # "none" => work'[o] \in Databases(Keep + 1)
  BY <1>1, <1>3 DEF CallTypes
<1>6. QED
  BY <1>2, <1>3, <1>4, <1>5 DEF CallTypes, OnlyOf

(* The calls of a console, while they run, know their profile. *)
LEMMA CallFacts ==
  ASSUME IInv, NEW c \in Consoles, call[c].at \in Statements
  PROVE  /\ call[c] # Idle
         /\ call[c] \in Calls
         /\ Importing(c) \/ call[c].profile \in Profiles
<1>1. call[c] # Idle
  BY DEF Statements, Idle
<1>2. QED
  BY <1>1 DEF IInv, CallTypes, InCall

-----------------------------------------------------------------------------
(* The statements *)

(* A call begins without a transaction. *)
LEMMA BeginStep ==
  ASSUME IInv, NEW c \in Consoles, NEW op \in Operations, NEW f \in Profiles \cup {None},
         NEW arg \in Configs \cup {None}, NEW lines \in SUBSET Proxies, NEW first \in Statements,
         Begin(c, op, f, arg, lines, first)
  PROVE  /\ OnlyOf(c) /\ CallTypes' /\ UNCHANGED db
         /\ call'[c].op = op /\ call'[c].profile = f /\ call'[c].arg = arg
         /\ Fresh(c, first)'
<1>1. CallTypes
  BY DEF IInv
<1>2. call'[c] = [op |-> op, profile |-> f, arg |-> arg, lines |-> lines, at |-> first]
  BY <1>1 DEF Begin, CallTypes
<1>3. call' = [call EXCEPT ![c] = call'[c]]
  BY <1>1, <1>2 DEF Begin
<1>4. call'[c] \in Calls
  BY <1>2 DEF Calls
<1>5. Unlock(c) /\ answer' = [answer EXCEPT ![c] = "none"] /\ UNCHANGED db
  BY DEF Begin, Reopen, Waits
<1>6. OnlyOf(c) /\ CallTypes' /\ lock'[c] = "none"
  BY <1>3, <1>4, <1>5, UnlockStep
<1>7. QED
  BY <1>2, <1>5, <1>6 DEF Fresh

(* The seven calls begin. *)
LEMMA BeginKeeps ==
  ASSUME IInv, NEW c \in Consoles,
         \/ \E f \in Profiles, config \in Configs : upsert(c, f, config)
         \/ \E f \in Profiles : removeProfile(c, f)
         \/ \E lines \in (SUBSET Proxies) \ {{}} : importProxyPool(c, lines)
         \/ \E f \in Profiles : assignNextAvailableProxyToProfile(c, f)
         \/ \E f \in Profiles : rotateProxyForProfile(c, f)
         \/ \E f \in Profiles : releaseProxyFromProfile(c, f)
         \/ \E f \in Profiles : insertRow(c, f)
  PROVE  IInv'
<1>1. ASSUME NEW f \in Profiles, NEW config \in Configs, upsert(c, f, config)
      PROVE  IInv'
  <2>1. Begin(c, "save", f, config, {}, "profile")
    BY <1>1 DEF upsert
  <2>2. /\ OnlyOf(c) /\ CallTypes' /\ UNCHANGED db
        /\ call'[c].op = "save" /\ call'[c].profile = f /\ call'[c].arg = config
        /\ Fresh(c, "profile")'
    BY <2>1, BeginStep DEF Operations, Statements
  <2>3. InCall(c)'
    BY <2>2 DEF InCall, Saving
  <2>4. QED
    BY <2>2, <2>3, StepKeeps
<1>2. ASSUME NEW f \in Profiles, removeProfile(c, f)
      PROVE  IInv'
  <2>1. Begin(c, "remove", f, None, {}, "remove")
    BY <1>2 DEF removeProfile
  <2>2. /\ OnlyOf(c) /\ CallTypes' /\ UNCHANGED db
        /\ call'[c].op = "remove" /\ call'[c].profile = f
        /\ Fresh(c, "remove")'
    BY <2>1, BeginStep DEF Operations, Statements
  <2>3. InCall(c)'
    BY <2>2 DEF InCall
  <2>4. QED
    BY <2>2, <2>3, StepKeeps
<1>3. ASSUME NEW lines \in SUBSET Proxies, importProxyPool(c, lines)
      PROVE  IInv'
  <2>1. Begin(c, "import", None, None, lines, "line")
    BY <1>3 DEF importProxyPool
  <2>2. /\ OnlyOf(c) /\ CallTypes' /\ UNCHANGED db
        /\ call'[c].op = "import"
        /\ Fresh(c, "line")'
    BY <2>1, BeginStep DEF Operations, Statements
  <2>3. InCall(c)'
    BY <2>2 DEF InCall, Importing
  <2>4. QED
    BY <2>2, <2>3, StepKeeps
<1>4. ASSUME NEW f \in Profiles, NEW op \in {"assign", "rotate"},
             Begin(c, op, f, None, {}, "pick")
      PROVE  IInv'
  <2>1. op \in Operations
    BY DEF Operations
  <2>2. /\ OnlyOf(c) /\ CallTypes' /\ UNCHANGED db
        /\ call'[c].op = op /\ call'[c].profile = f
        /\ Fresh(c, "pick")'
    BY <1>4, <2>1, BeginStep DEF Statements
  <2>3. InCall(c)'
    BY <2>2 DEF InCall, Picking
  <2>4. QED
    BY <2>2, <2>3, StepKeeps
<1>5. ASSUME NEW f \in Profiles, releaseProxyFromProfile(c, f)
      PROVE  IInv'
  <2>1. Begin(c, "release", f, "direct", {}, "delete")
    BY <1>5 DEF releaseProxyFromProfile
  <2>2. /\ OnlyOf(c) /\ CallTypes' /\ UNCHANGED db
        /\ call'[c].op = "release" /\ call'[c].profile = f /\ call'[c].arg = "direct"
        /\ Fresh(c, "delete")'
    BY <2>1, BeginStep DEF Operations, Statements, Configs
  <2>3. InCall(c)'
    BY <2>2 DEF InCall, Releasing
  <2>4. QED
    BY <2>2, <2>3, StepKeeps
<1>6. ASSUME NEW f \in Profiles, insertRow(c, f)
      PROVE  IInv'
  <2>1. Begin(c, "record", f, None, {}, "row")
    BY <1>6 DEF insertRow
  <2>2. /\ OnlyOf(c) /\ CallTypes' /\ UNCHANGED db
        /\ call'[c].op = "record" /\ call'[c].profile = f
        /\ Fresh(c, "row")'
    BY <2>1, BeginStep DEF Operations, Statements
  <2>3. InCall(c)'
    BY <2>2 DEF InCall, Recording
  <2>4. QED
    BY <2>2, <2>3, StepKeeps
<1>7. QED
  BY <1>1, <1>2, <1>3, <1>4, <1>5, <1>6
     DEF assignNextAvailableProxyToProfile, rotateProxyForProfile

(* A picked proxy was free in what the pick read. *)
LEMMA PickKeeps ==
  ASSUME IInv, NEW c \in Consoles, PickForAssign(c) \/ PickForRotate(c) \/ Check(c)
  PROVE  IInv'
<1>1. /\ call[c].at \in {"pick", "check"} /\ UNCHANGED <<db, answer>>
      /\ call[c].op \in {"assign", "rotate"}
  BY DEF PickForAssign, PickForRotate, Check, At
<1>2. /\ call[c] # Idle /\ call[c] \in Calls
      /\ call[c].profile \in Profiles
      /\ Picking(c, call[c].arg) /\ lock[c] = "none" /\ View(c) = db
  <2>1. call[c] # Idle /\ call[c] \in Calls /\ (Importing(c) \/ call[c].profile \in Profiles)
    BY <1>1, CallFacts DEF Statements
  <2>2. InCall(c)
    BY DEF IInv
  <2>3. call[c].profile \in Profiles /\ Picking(c, call[c].arg)
    BY <1>1, <2>1, <2>2 DEF InCall, Importing, Saving, Giving, Releasing, Recording, Fresh, Written
  <2>4. QED
    BY <1>1, <2>1, <2>3 DEF Picking, Fresh, View
<1>3. CallTypes /\ Free(db) \subseteq Proxies
  BY DEF IInv, StoreOK, Databases, Free
<1>4. ASSUME NEW x \in Free(db), NEW s \in {"check", "delete"},
             call' = [call EXCEPT ![c].arg = x, ![c].at = s]
      PROVE  /\ call' = [call EXCEPT ![c] = call'[c]] /\ call'[c] \in Calls
             /\ call'[c].op = call[c].op /\ call'[c].profile = call[c].profile
             /\ call'[c].arg = x /\ call'[c].at = s
  <2>1. call'[c] = [call[c] EXCEPT !.arg = x, !.at = s]
    BY <1>3, <1>4 DEF CallTypes
  <2>2. call' = [call EXCEPT ![c] = call'[c]]
    BY <1>3, <1>4, <2>1 DEF CallTypes
  <2>3. x \in Configs /\ s \in Statements
    BY <1>3, <1>4 DEF Configs, Statements
  <2>4. QED
    BY <1>2, <2>1, <2>2, <2>3 DEF Calls
<1>5. CASE PickForAssign(c)
  <2>1. PICK x \in Free(db) : call' = [call EXCEPT ![c].arg = x, ![c].at = "check"]
    BY <1>5 DEF PickForAssign
  <2>2. /\ call' = [call EXCEPT ![c] = call'[c]] /\ call'[c] \in Calls
        /\ call'[c].op = "assign" /\ call'[c].profile \in Profiles
        /\ call'[c].arg = x /\ call'[c].at = "check"
    BY <1>2, <1>4, <1>5, <2>1 DEF PickForAssign, At
  <2>3. /\ UNCHANGED <<db, answer, lock, work>>
    BY <1>5 DEF PickForAssign
  <2>4. OnlyOf(c) /\ CallTypes' /\ Fresh(c, "check")'
    BY <1>2, <1>3, <2>2, <2>3 DEF OnlyOf, CallTypes, Fresh
  <2>5. InCall(c)'
    BY <1>3, <2>2, <2>4 DEF InCall, Picking
  <2>6. QED
    BY <2>3, <2>4, <2>5, StepKeeps
<1>6. CASE PickForRotate(c)
  <2>1. PICK x \in Free(db) : call' = [call EXCEPT ![c].arg = x, ![c].at = "delete"]
    BY <1>2, <1>6 DEF PickForRotate
  <2>2. /\ call' = [call EXCEPT ![c] = call'[c]] /\ call'[c] \in Calls
        /\ call'[c].op = "rotate" /\ call'[c].profile \in Profiles
        /\ call'[c].arg = x /\ call'[c].at = "delete"
    BY <1>2, <1>4, <1>6, <2>1 DEF PickForRotate, At
  <2>3. OnlyOf(c) /\ CallTypes' /\ lock'[c] # "none" /\ work'[c] = db
    BY <1>1, <1>2, <1>6, <2>2, ReadStep DEF PickForRotate
  <2>4. InCall(c)'
    BY <1>1, <2>2, <2>3 DEF InCall, Giving, Written, Free
  <2>5. QED
    BY <1>1, <2>3, <2>4, StepKeeps
<1>7. CASE Check(c)
  <2>1. /\ call' = [call EXCEPT ![c] = call'[c]] /\ call'[c] \in Calls
        /\ call'[c].op = call[c].op /\ call'[c].profile \in Profiles
        /\ call'[c].arg = call[c].arg /\ call'[c].at = "delete"
    BY <1>2, <1>3, <1>7, GotoMoves DEF Check, Statements
  <2>2. OnlyOf(c) /\ CallTypes' /\ lock'[c] # "none" /\ work'[c] = db
    BY <1>1, <1>2, <1>7, <2>1, ReadStep DEF Check
  <2>3. call[c].arg \in Free(db)
    BY <1>2, <1>7 DEF Check
  <2>4. InCall(c)'
    BY <1>1, <2>1, <2>2, <2>3 DEF InCall, Giving, Written, Free
  <2>5. QED
    BY <1>1, <2>2, <2>4, StepKeeps
<1>8. QED
  BY <1>5, <1>6, <1>7

(* What a call has read and written before a statement of its transaction. *)
LEMMA Before ==
  ASSUME IInv, NEW c \in Consoles, call[c].at \in Statements,
         NEW f, NEW x, f = call[c].profile, x = call[c].arg
  PROVE  /\ call[c].at = "delete" =>
              /\ f \in Profiles /\ View(c) = db
              /\ \/ call[c].op \in {"assign", "rotate"} /\ x \in Free(db)
                 \/ call[c].op = "release" /\ x = "direct"
         /\ call[c].at = "insert" =>
              /\ f \in Profiles /\ call[c].op \in {"assign", "rotate"} /\ x \in Free(db)
              /\ View(c) = [db EXCEPT !.holds[f] = None]
         /\ call[c].at = "config" =>
              /\ f \in Profiles
              /\ \/ /\ call[c].op = "save" /\ x \in Configs
                    /\ View(c) = [db EXCEPT !.listed = @ \cup {f}]
                 \/ /\ call[c].op \in {"assign", "rotate"} /\ x \in Free(db)
                    /\ View(c) = [db EXCEPT !.holds[f] = x]
                 \/ /\ call[c].op = "release" /\ x = "direct"
                    /\ View(c) = [db EXCEPT !.holds[f] = None]
         /\ call[c].at = "profile" =>
              f \in Profiles /\ View(c) = db /\ call[c].op = "save" /\ x \in Configs
         /\ call[c].at = "line" =>
              /\ call[c].op = "import"
              /\ View(c) = db \/ \E L \in SUBSET Proxies : View(c) = Imported(db, L)
         /\ call[c].at = "row" => f \in Profiles /\ View(c) = db /\ call[c].op = "record"
         /\ call[c].at = "trim" =>
              /\ f \in Profiles /\ f \in db.listed /\ call[c].op = "record"
              /\ View(c) = [db EXCEPT !.rows[f] = @ + 1]
<1>1. call[c] # Idle /\ InCall(c)
  BY CallFacts DEF IInv
<1>2. /\ Fresh(c, call[c].at) => View(c) = db
      /\ \A d : Written(c, call[c].at, d) => View(c) = d
  BY DEF Fresh, Written, View
<1>3. CASE Importing(c)
  BY <1>2, <1>3 DEF Importing, Fresh, Written
<1>4. CASE f \in Profiles /\ Saving(c, f, x)
  BY <1>2, <1>4 DEF Saving, Fresh, Written
<1>5. CASE f \in Profiles /\ call[c].op = "remove" /\ Fresh(c, "remove")
  BY <1>5 DEF Fresh
<1>6. CASE f \in Profiles /\ Picking(c, x)
  BY <1>6 DEF Picking, Fresh
<1>7. CASE f \in Profiles /\ Giving(c, f, x)
  BY <1>2, <1>7 DEF Giving, Fresh, Written
<1>8. CASE f \in Profiles /\ Releasing(c, f, x)
  BY <1>2, <1>8 DEF Releasing, Fresh, Written
<1>9. CASE f \in Profiles /\ Recording(c, f)
  BY <1>2, <1>9 DEF Recording, Fresh, Written
<1>10. QED
  BY <1>1, <1>3, <1>4, <1>5, <1>6, <1>7, <1>8, <1>9 DEF InCall

(* A statement that writes d and goes on to the statement s. *)
LEMMA Wrote ==
  ASSUME IInv, NEW c \in Consoles, call[c].at \in Statements, NEW s \in Statements,
         NEW d \in Databases(Keep + 1), Writes(c, d), Goto(c, s), UNCHANGED <<db, answer>>
  PROVE  /\ OnlyOf(c) /\ CallTypes' /\ UNCHANGED db
         /\ call'[c].at = s /\ lock'[c] # "none" /\ work'[c] = d
         /\ call'[c].op = call[c].op
         /\ call'[c].profile = call[c].profile
         /\ call'[c].arg = call[c].arg
<1>1. CallTypes /\ call[c] \in Calls
  BY CallFacts DEF IInv
<1>2. /\ call' = [call EXCEPT ![c] = call'[c]] /\ call'[c] \in Calls
      /\ call'[c].at = s /\ call'[c].op = call[c].op
      /\ call'[c].profile = call[c].profile /\ call'[c].arg = call[c].arg
  BY <1>1, GotoMoves
<1>3. OnlyOf(c) /\ CallTypes' /\ lock'[c] # "none" /\ work'[c] = d
  BY <1>2, WriteStep
<1>4. QED
  BY <1>2, <1>3

(* The assignment of the profile is deleted, before another is made or to  *)
(* release the proxy.                                                       *)
LEMMA DeleteKeeps ==
  ASSUME IInv, NEW c \in Consoles, Delete(c)
  PROVE  IInv'
<1> DEFINE f == call[c].profile
           x == call[c].arg
           d == [View(c) EXCEPT !.holds[f] = None]
           s == IF call[c].op = "release" THEN "config" ELSE "insert"
<1>1. call[c].at = "delete" /\ call[c].at \in Statements /\ s \in Statements
  BY DEF Delete, Statements
<1>2. /\ f \in Profiles /\ View(c) = db
      /\ \/ call[c].op \in {"assign", "rotate"} /\ x \in Free(db)
         \/ call[c].op = "release" /\ x = "direct"
  BY <1>1, Before
<1>3. d \in Databases(Keep + 1)
  <2>1. View(c) \in Databases(Keep + 1) /\ Keep + 1 \in Nat
    BY <1>1, CallFacts, ViewType, KeepAssumption
  <2>2. QED
    BY <1>2, <2>1, Types
<1>4. Writes(c, d) /\ Goto(c, s) /\ UNCHANGED <<db, answer>>
  BY DEF Delete
<1>5. /\ OnlyOf(c) /\ CallTypes' /\ UNCHANGED db
      /\ call'[c].at = s /\ lock'[c] # "none" /\ work'[c] = d
      /\ call'[c].op = call[c].op /\ call'[c].profile = f /\ call'[c].arg = x
  <2> HIDE DEF d, s
  <2> QED
    BY <1>1, <1>3, <1>4, Wrote
<1>6. InCall(c)'
  <2>1. CASE call[c].op \in {"assign", "rotate"} /\ x \in Free(db)
    BY <1>2, <1>5, <2>1 DEF InCall, Giving, Written, Free
  <2>2. CASE call[c].op = "release" /\ x = "direct"
    BY <1>2, <1>5, <2>2 DEF InCall, Releasing, Written
  <2>3. QED
    BY <1>2, <2>1, <2>2
<1>7. QED
  BY <1>5, <1>6, StepKeeps

(* The new assignment: the constraints say that the profile is listed. *)
LEMMA InsertKeeps ==
  ASSUME IInv, NEW c \in Consoles, Insert(c)
  PROVE  IInv'
<1> DEFINE f == call[c].profile
           x == call[c].arg
           d == [View(c) EXCEPT !.holds[f] = x]
<1>1. call[c].at = "insert" /\ call[c].at \in Statements /\ "config" \in Statements
  BY DEF Insert, Statements
<1>2. /\ f \in Profiles /\ call[c].op \in {"assign", "rotate"} /\ x \in Free(db)
      /\ View(c) = [db EXCEPT !.holds[f] = None]
  BY <1>1, Before
<1>3. db \in Databases(Keep) /\ x \in Proxies
  BY <1>2 DEF IInv, StoreOK, Databases, Free
<1>4. d \in Databases(Keep + 1)
  <2>1. View(c) \in Databases(Keep + 1) /\ Keep + 1 \in Nat
    BY <1>1, CallFacts, ViewType, KeepAssumption
  <2>2. QED
    BY <1>2, <1>3, <2>1, Types
<1>5. Writes(c, d) /\ Goto(c, "config") /\ UNCHANGED <<db, answer>>
  BY DEF Insert
<1>6. /\ OnlyOf(c) /\ CallTypes' /\ UNCHANGED db
      /\ call'[c].at = "config" /\ lock'[c] # "none" /\ work'[c] = d
      /\ call'[c].op = call[c].op /\ call'[c].profile = f /\ call'[c].arg = x
  <2> HIDE DEF d
  <2> QED
    BY <1>1, <1>4, <1>5, Wrote
<1>7. f \in db.listed /\ d = [db EXCEPT !.holds[f] = x]
  BY <1>2, <1>3 DEF Insert, Databases
<1>8. InCall(c)'
  <2> HIDE DEF d
  <2> QED
    BY <1>2, <1>6, <1>7 DEF InCall, Giving, Written, Free
<1>9. QED
  BY <1>6, <1>8, StepKeeps

(* The profile's configuration follows the assignment, or the save. *)
LEMMA ConfigKeeps ==
  ASSUME IInv, NEW c \in Consoles, Config(c)
  PROVE  IInv'
<1> DEFINE f == call[c].profile
           x == call[c].arg
           d == [View(c) EXCEPT !.config[f] = x]
<1>1. call[c].at = "config" /\ call[c].at \in Statements /\ "commit" \in Statements
  BY DEF Config, Statements
<1>2. /\ f \in Profiles
      /\ \/ /\ call[c].op = "save" /\ x \in Configs
            /\ View(c) = [db EXCEPT !.listed = @ \cup {f}]
         \/ /\ call[c].op \in {"assign", "rotate"} /\ x \in Free(db)
            /\ View(c) = [db EXCEPT !.holds[f] = x]
         \/ /\ call[c].op = "release" /\ x = "direct"
            /\ View(c) = [db EXCEPT !.holds[f] = None]
  BY <1>1, Before
<1>3. db \in Databases(Keep) /\ Free(db) \subseteq Proxies
  BY DEF IInv, StoreOK, Databases, Free
<1>4. d \in Databases(Keep + 1)
  <2>1. x \in Configs
    BY <1>2, <1>3 DEF Configs
  <2>2. QED
    BY <1>1, <1>2, <2>1, CallFacts, ViewType, Types, KeepAssumption
<1>5. Writes(c, d) /\ Goto(c, "commit") /\ UNCHANGED <<db, answer>> /\ f \in View(c).listed
  BY DEF Config
<1>6. /\ OnlyOf(c) /\ CallTypes' /\ UNCHANGED db
      /\ call'[c].at = "commit" /\ lock'[c] # "none" /\ work'[c] = d
      /\ call'[c].op = call[c].op /\ call'[c].profile = f /\ call'[c].arg = x
  <2> HIDE DEF d
  <2> QED
    BY <1>1, <1>4, <1>5, Wrote
<1>7. InCall(c)'
  <2>1. CASE /\ call[c].op = "save" /\ x \in Configs
             /\ View(c) = [db EXCEPT !.listed = @ \cup {f}]
    <3>1. d = Saved(db, f, x)
      BY <1>2, <1>3, <2>1 DEF Saved, Databases
    <3> HIDE DEF d
    <3>2. QED
      BY <1>2, <1>6, <2>1, <3>1 DEF InCall, Saving, Written, Saved
  <2>2. CASE /\ call[c].op \in {"assign", "rotate"} /\ x \in Free(db)
             /\ View(c) = [db EXCEPT !.holds[f] = x]
    <3>1. d = Given(db, f, x) /\ f \in db.listed
      BY <1>2, <1>3, <1>5, <2>2 DEF Given, Databases
    <3> HIDE DEF d
    <3>2. QED
      BY <1>2, <1>6, <2>2, <3>1 DEF InCall, Giving, Written, Free, Given
  <2>3. CASE /\ call[c].op = "release" /\ x = "direct"
             /\ View(c) = [db EXCEPT !.holds[f] = None]
    <3>1. d = Released(db, f) /\ f \in db.listed
      BY <1>2, <1>3, <1>5, <2>3 DEF Released, Databases
    <3> HIDE DEF d
    <3>2. QED
      BY <1>2, <1>6, <2>3, <3>1 DEF InCall, Releasing, Written, Released
  <2>4. QED
    BY <1>2, <2>1, <2>2, <2>3
<1>8. QED
  BY <1>6, <1>7, StepKeeps

(* A save lists the profile first. *)
LEMMA ProfileKeeps ==
  ASSUME IInv, NEW c \in Consoles, Profile(c)
  PROVE  IInv'
<1> DEFINE f == call[c].profile
           x == call[c].arg
           d == [View(c) EXCEPT !.listed = @ \cup {f}]
<1>1. call[c].at = "profile" /\ call[c].at \in Statements /\ "config" \in Statements
  BY DEF Profile, Statements
<1>2. f \in Profiles /\ View(c) = db /\ call[c].op = "save" /\ x \in Configs
  BY <1>1, Before
<1>3. d \in Databases(Keep + 1)
  <2>1. View(c) \in Databases(Keep + 1) /\ Keep + 1 \in Nat
    BY <1>1, CallFacts, ViewType, KeepAssumption
  <2>2. View(c).listed \cup {f} \in SUBSET Profiles
    BY <1>2, <2>1 DEF Databases
  <2>3. QED
    BY <1>2, <2>1, <2>2, Types
<1>4. Writes(c, d) /\ Goto(c, "config") /\ UNCHANGED <<db, answer>>
  BY DEF Profile
<1>5. /\ OnlyOf(c) /\ CallTypes' /\ UNCHANGED db
      /\ call'[c].at = "config" /\ lock'[c] # "none" /\ work'[c] = d
      /\ call'[c].op = call[c].op /\ call'[c].profile = f /\ call'[c].arg = x
  <2> HIDE DEF d
  <2> QED
    BY <1>1, <1>3, <1>4, Wrote
<1>6. InCall(c)'
  BY <1>2, <1>5 DEF InCall, Saving, Written
<1>7. QED
  BY <1>5, <1>6, StepKeeps

(* What a run event, a log line or a test run adds to its table. *)
LEMMA RowKeeps ==
  ASSUME IInv, NEW c \in Consoles, Row(c)
  PROVE  IInv'
<1> DEFINE f == call[c].profile
           d == [View(c) EXCEPT !.rows[f] = @ + 1]
<1>1. call[c].at = "row" /\ call[c].at \in Statements /\ "trim" \in Statements
  BY DEF Row, Statements
<1>2. f \in Profiles /\ View(c) = db /\ call[c].op = "record"
  BY <1>1, Before
<1>3. d \in Databases(Keep + 1)
  <2>1. View(c) \in Databases(Keep + 1) /\ Keep + 1 \in Nat
    BY <1>1, CallFacts, ViewType, KeepAssumption
  <2>2. View(c).rows[f] + 1 \in 0..(Keep + 1)
    BY <1>2, KeepAssumption DEF IInv, StoreOK, Databases
  <2>3. QED
    BY <1>2, <2>1, <2>2, Types
<1>4. Writes(c, d) /\ Goto(c, "trim") /\ UNCHANGED <<db, answer>> /\ f \in db.listed
  BY <1>2 DEF Row
<1>5. /\ OnlyOf(c) /\ CallTypes' /\ UNCHANGED db
      /\ call'[c].at = "trim" /\ lock'[c] # "none" /\ work'[c] = d
      /\ call'[c].op = call[c].op /\ call'[c].profile = f
  <2> HIDE DEF d
  <2> QED
    BY <1>1, <1>3, <1>4, Wrote
<1>6. InCall(c)'
  BY <1>2, <1>4, <1>5 DEF InCall, Recording, Written
<1>7. QED
  BY <1>5, <1>6, StepKeeps

(* The oldest rows go, so that no more than Keep are left. *)
LEMMA TrimKeeps ==
  ASSUME IInv, NEW c \in Consoles, Trim(c)
  PROVE  IInv'
<1> DEFINE f == call[c].profile
           d == [View(c) EXCEPT !.rows[f] = Kept(@)]
<1>1. call[c].at = "trim" /\ call[c].at \in Statements /\ "commit" \in Statements
  BY DEF Trim, Statements
<1>2. /\ f \in Profiles /\ f \in db.listed /\ call[c].op = "record"
      /\ View(c) = [db EXCEPT !.rows[f] = @ + 1]
  BY <1>1, Before
<1>3. db \in Databases(Keep)
  BY DEF IInv, StoreOK
<1>4. d = Recorded(db, f)
  BY <1>2, <1>3 DEF Kept, Recorded, Databases
<1>5. d \in Databases(Keep + 1)
  BY <1>2, <1>3, <1>4, EffectTypes, RoomForARow
<1>6. Writes(c, d) /\ Goto(c, "commit") /\ UNCHANGED <<db, answer>>
  BY DEF Trim
<1>7. /\ OnlyOf(c) /\ CallTypes' /\ UNCHANGED db
      /\ call'[c].at = "commit" /\ lock'[c] # "none" /\ work'[c] = d
      /\ call'[c].op = call[c].op /\ call'[c].profile = f
  <2> HIDE DEF d
  <2> QED
    BY <1>1, <1>5, <1>6, Wrote
<1>8. InCall(c)'
  <2> HIDE DEF d
  <2> QED
    BY <1>2, <1>4, <1>7 DEF InCall, Recording, Written, Recorded
<1>9. QED
  BY <1>7, <1>8, StepKeeps

(* A line of an import; the last one is followed by the commit. *)
LEMMA LineKeeps ==
  ASSUME IInv, NEW c \in Consoles, Line(c)
  PROVE  IInv'
<1>1. call[c].at = "line" /\ call[c].at \in Statements
  BY DEF Line, Statements
<1>2. /\ call[c].op = "import"
      /\ View(c) = db \/ \E L \in SUBSET Proxies : View(c) = Imported(db, L)
  BY <1>1, Before
<1>3. CallTypes /\ call[c] \in Calls /\ db \in Databases(Keep)
      /\ View(c) \in Databases(Keep + 1) /\ Keep + 1 \in Nat
  BY <1>1, CallFacts, ViewType, KeepAssumption DEF IInv, StoreOK
<1>4. PICK x \in call[c].lines :
        /\ Writes(c, [View(c) EXCEPT !.pool = @ \cup {x}])
        /\ call' = [call EXCEPT ![c].lines = @ \ {x},
                                ![c].at = IF call[c].lines = {x} THEN "commit" ELSE "line"]
        /\ UNCHANGED <<db, answer>>
  BY DEF Line
<1> DEFINE d == [View(c) EXCEPT !.pool = @ \cup {x}]
<1>5. x \in Proxies
  BY <1>3 DEF Calls
<1>6. PICK L \in SUBSET Proxies : d = Imported(db, L)
  <2>1. CASE View(c) = db
    BY <1>5, <2>1 DEF Imported
  <2>2. ASSUME NEW K \in SUBSET Proxies, View(c) = Imported(db, K)
        PROVE  \E L \in SUBSET Proxies : d = Imported(db, L)
    <3>1. d = Imported(db, K \cup {x})
      BY <1>3, <2>2 DEF Imported, Databases
    <3>2. QED
      BY <1>5, <3>1
  <2>3. QED
    BY <1>2, <2>1, <2>2
<1>7. d \in Databases(Keep + 1)
  BY <1>3, <1>6, RoomForARow DEF Imported, Databases
<1>8. /\ call' = [call EXCEPT ![c] = call'[c]] /\ call'[c] \in Calls
      /\ call'[c].op = "import" /\ call'[c].at \in {"line", "commit"}
  <2> DEFINE s == IF call[c].lines = {x} THEN "commit" ELSE "line"
  <2>1. call'[c] = [call[c] EXCEPT !.lines = @ \ {x}, !.at = s]
    BY <1>3, <1>4 DEF CallTypes
  <2>2. call' = [call EXCEPT ![c] = call'[c]]
    BY <1>3, <1>4, <2>1 DEF CallTypes
  <2>3. s \in Statements /\ s \in {"line", "commit"}
    BY DEF Statements
  <2>4. QED
    BY <1>2, <1>3, <2>1, <2>2, <2>3 DEF Calls
<1>9. OnlyOf(c) /\ CallTypes' /\ lock'[c] # "none" /\ work'[c] = d
  <2> HIDE DEF d
  <2>1. Writes(c, d)
    BY <1>4 DEF d
  <2>2. QED
    BY <1>4, <1>7, <1>8, <2>1, WriteStep
<1>10. InCall(c)'
  <2> HIDE DEF d
  <2> QED
    BY <1>4, <1>6, <1>8, <1>9 DEF InCall, Importing, Written, Imported
<1>11. QED
  BY <1>4, <1>9, <1>10, StepKeeps

-----------------------------------------------------------------------------
(* The ends of a call *)

(* What a call commits is the effect of its operation on the state that is  *)
(* committed at that moment.                                                *)
LEMMA CommitIsAnOperation ==
  ASSUME IInv, NEW c \in Consoles, Commit(c)
  PROVE  StoreNext
<1> DEFINE f == call[c].profile
           x == call[c].arg
<1>1. call[c].at = "commit" /\ Succeeds(c, work[c])
  BY DEF Commit
<1>2. call[c] # Idle /\ InCall(c)
  BY <1>1, CallFacts DEF IInv, Statements
<1>3. CASE Importing(c)
  <2>1. PICK L \in SUBSET Proxies : work[c] = Imported(db, L)
    BY <1>1, <1>3 DEF Importing, Fresh, Written
  <2>2. import(c)
    BY <1>1, <2>1 DEF import
  <2>3. QED
    BY <2>2 DEF StoreNext
<1>4. ASSUME f \in Profiles, Saving(c, f, x)
      PROVE  StoreNext
  <2>1. x \in Configs /\ work[c] = Saved(db, f, x)
    BY <1>1, <1>4 DEF Saving, Fresh, Written
  <2>2. save(c, f)
    BY <1>1, <2>1 DEF save
  <2>3. QED
    BY <1>4, <2>2 DEF StoreNext
<1>5. ASSUME f \in Profiles, Giving(c, f, x)
      PROVE  StoreNext
  <2>1. x \in Free(db) /\ f \in db.listed /\ work[c] = Given(db, f, x)
    BY <1>1, <1>5 DEF Giving, Written
  <2>2. give(c, f)
    BY <1>1, <2>1 DEF give
  <2>3. QED
    BY <1>5, <2>2 DEF StoreNext
<1>6. ASSUME f \in Profiles, Releasing(c, f, x)
      PROVE  StoreNext
  <2>1. f \in db.listed /\ work[c] = Released(db, f)
    BY <1>1, <1>6 DEF Releasing, Fresh, Written
  <2>2. release(c, f)
    BY <1>1, <2>1 DEF release
  <2>3. QED
    BY <1>6, <2>2 DEF StoreNext
<1>7. ASSUME f \in Profiles, Recording(c, f)
      PROVE  StoreNext
  <2>1. f \in db.listed /\ work[c] = Recorded(db, f)
    BY <1>1, <1>7 DEF Recording, Fresh, Written
  <2>2. record(c, f)
    BY <1>1, <2>1 DEF record
  <2>3. QED
    BY <1>7, <2>2 DEF StoreNext
<1>8. ~ (call[c].op = "remove" /\ Fresh(c, "remove")) /\ ~ Picking(c, x)
  BY <1>1 DEF Fresh, Picking
<1>9. QED
  BY <1>2, <1>3, <1>4, <1>5, <1>6, <1>7, <1>8 DEF InCall

(* Removing a profile is one statement. *)
LEMMA RemoveIsAnOperation ==
  ASSUME IInv, NEW c \in Consoles, RemoveOne(c)
  PROVE  StoreNext /\ lock[c] = "none"
<1>1. call[c].at = "remove" /\ Succeeds(c, Removed(db, call[c].profile))
  BY DEF RemoveOne
<1>2. call[c] # Idle /\ InCall(c)
  BY <1>1, CallFacts DEF IInv, Statements
<1>3. call[c].profile \in Profiles /\ Fresh(c, "remove")
  BY <1>1, <1>2 DEF InCall, Importing, Saving, Picking, Giving, Releasing, Recording, Fresh, Written
<1>4. remove(c, call[c].profile)
  BY <1>1 DEF remove
<1>5. QED
  BY <1>3, <1>4 DEF StoreNext, Fresh

(* Every step is one of the store's operations or changes nothing of what   *)
(* is committed and answered.                                               *)
LEMMA StepImplements ==
  ASSUME IInv, [Next]_vars
  PROVE  [StoreNext]_storeVars
<1>1. CASE UNCHANGED vars
  BY <1>1 DEF vars, storeVars
<1>2. ASSUME NEW c \in Consoles, Waits(c) \/ Fails(c)
      PROVE  StoreNext
  BY <1>2 DEF StoreNext
<1>3. ASSUME NEW c \in Consoles, UNCHANGED <<db, answer>>
      PROVE  UNCHANGED storeVars
  BY <1>3 DEF storeVars
<1>4. CASE Next
  BY <1>2, <1>3, <1>4, CommitIsAnOperation, RemoveIsAnOperation
     DEF Next, upsert, removeProfile, importProxyPool, assignNextAvailableProxyToProfile,
         rotateProxyForProfile, releaseProxyFromProfile, insertRow, Begin,
         PickForAssign, PickForRotate, Check, Delete, Insert, Config, Profile, Line, Row, Trim,
         StatementFails, CommitFails, Killed
<1>5. QED
  BY <1>1, <1>4

(* The ways a call ends, and its transaction with it or not. *)
LEMMA EndKeeps ==
  ASSUME IInv, NEW c \in Consoles,
         Commit(c) \/ RemoveOne(c) \/ StatementFails(c) \/ CommitFails(c) \/ Killed(c)
  PROVE  IInv'
<1>1. Returns(c) /\ CallTypes
  BY DEF IInv, Commit, RemoveOne, StatementFails, CommitFails, Killed
<1>2. call'[c] = Idle /\ call' = [call EXCEPT ![c] = call'[c]] /\ InCall(c)'
  BY <1>1 DEF Returns, CallTypes, InCall
<1>3. ASSUME Unlock(c), NEW a \in {"none", "ok", "failed"}, answer' = [answer EXCEPT ![c] = a]
      PROVE  OnlyOf(c) /\ CallTypes'
  BY <1>2, <1>3, UnlockStep
<1>4. ASSUME UNCHANGED <<lock, work>>, NEW a \in {"none", "ok", "failed"},
             answer' = [answer EXCEPT ![c] = a]
      PROVE  OnlyOf(c) /\ CallTypes'
  BY <1>1, <1>2, <1>4 DEF OnlyOf, CallTypes
<1>5. CASE Commit(c)
  <2>1. StoreNext /\ MayCommit(c)
    BY <1>5, CommitIsAnOperation DEF Commit
  <2>2. OnlyOf(c) /\ CallTypes'
    BY <1>3, <1>5 DEF Commit, Succeeds
  <2>3. QED
    BY <1>2, <2>1, <2>2, StepKeeps
<1>6. CASE RemoveOne(c)
  <2>1. StoreNext /\ MayCommit(c)
    BY <1>6, RemoveIsAnOperation DEF RemoveOne
  <2>2. OnlyOf(c) /\ CallTypes'
    BY <1>4, <1>6 DEF RemoveOne, Succeeds
  <2>3. QED
    BY <1>2, <2>1, <2>2, StepKeeps
<1>7. CASE StatementFails(c)
  <2>1. OnlyOf(c) /\ CallTypes' /\ UNCHANGED db
    BY <1>3, <1>7 DEF StatementFails, Fails
  <2>2. QED
    BY <1>2, <2>1, StepKeeps
<1>8. CASE CommitFails(c)
  <2>1. OnlyOf(c) /\ CallTypes' /\ UNCHANGED db
    BY <1>4, <1>8 DEF CommitFails, Fails
  <2>2. QED
    BY <1>2, <2>1, StepKeeps
<1>9. CASE Killed(c)
  <2>1. OnlyOf(c) /\ CallTypes' /\ UNCHANGED db
    BY <1>3, <1>9 DEF Killed, Waits
  <2>2. QED
    BY <1>2, <2>1, StepKeeps
<1>10. QED
  BY <1>5, <1>6, <1>7, <1>8, <1>9

-----------------------------------------------------------------------------
(* The invariant holds in the initial states. *)
LEMMA InitIInv == Init => IInv
<1>1. SUFFICES ASSUME Init PROVE IInv
  OBVIOUS
<1>2. StoreOK
  BY <1>1, KeepAssumption DEF Init, StoreInit, StoreOK, NoRows, Databases, Configs
<1>3. CallTypes /\ \A c \in Consoles : InCall(c)
  BY <1>1 DEF Init, StoreInit, CallTypes, InCall
<1>4. QED
  BY <1>2, <1>3 DEF IInv

(* Every step keeps it. *)
LEMMA NextIInv == IInv /\ [Next]_vars => IInv'
<1>1. SUFFICES ASSUME IInv, [Next]_vars PROVE IInv'
  OBVIOUS
<1>2. CASE UNCHANGED vars
  <2>1. UNCHANGED <<db, answer, call, lock, work>>
    BY <1>2 DEF vars
  <2>2. StoreOK' /\ CallTypes'
    BY <1>1, <2>1 DEF IInv, StoreOK, NoRows, CallTypes
  <2>3. ASSUME NEW o \in Consoles PROVE InCall(o)'
    BY <1>1, <2>1, Unmoved DEF IInv
  <2>4. QED
    BY <2>2, <2>3 DEF IInv
<1>3. CASE Next
  BY <1>1, <1>3, BeginKeeps, PickKeeps, DeleteKeeps, InsertKeeps, ConfigKeeps, ProfileKeeps,
     LineKeeps, RowKeeps, TrimKeeps, EndKeeps DEF Next
<1>4. QED
  BY <1>1, <1>2, <1>3

(* The inductive invariant. *)
LEMMA Invariance == Spec => []IInv
BY InitIInv, NextIInv, PTL DEF Spec

(* The types, with what StoreOK says of the committed state, for any        *)
(* consoles: no proxy has two profiles, whatever fails or is killed.        *)
THEOREM TypeCorrect == Spec => []TypeOK
<1>1. IInv => TypeOK
  BY DEF IInv, CallTypes, TypeOK
<1>2. QED
  BY <1>1, Invariance, PTL

(* The statements of the transactions, in whatever order the consoles       *)
(* execute them and wherever they fail, implement operations that happen at *)
(* once or not at all.                                                      *)
THEOREM Implements == Spec => ImplementsStore
<1>1. Init => StoreInit
  BY DEF Init
<1>2. IInv /\ [Next]_vars => [StoreNext]_storeVars
  BY StepImplements
<1>3. QED
  BY <1>1, <1>2, Invariance, PTL DEF Spec, ImplementsStore, StoreSpec
=============================================================================
