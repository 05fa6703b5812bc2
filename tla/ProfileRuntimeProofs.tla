------------------------ MODULE ProfileRuntimeProofs ------------------------
(***************************************************************************)
(* What ProfileRuntime promises for every set of profiles, launches and    *)
(* resource kinds, by one inductive invariant.  The strengthening is       *)
(* Owned: the tables only name launches of their own profile, and a launch *)
(* without an owner has not begun; and StopRemembered: a browser that was  *)
(* asked to terminate is one whose exit the manager expects.               *)
(***************************************************************************)
EXTENDS ProfileRuntime, TLAPS

Owned ==
  /\ \A p \in Profiles : proc[p] \in Procs => owner[proc[p]] = p
  /\ \A p \in Profiles, k \in Kinds : table[p][k] \in Procs => owner[table[p][k]] = p
  /\ \A q \in Procs :
       owner[q] = None => ~Alive(q) /\ runChecks[q] = 0 /\ attach[q] = "idle"
  /\ \A q \in Procs : mayRetry[q] => runChecks[q] <= 1

StopRemembered ==
  \A q \in Procs :
    /\ signals[q] # {} => Alive(q)
    /\ "term" \in signals[q] => owner[q] \in stopReq

IInv ==
  /\ TypeOK
  /\ Owned
  /\ StopRemembered
  /\ OneBrowserPerProfile
  /\ ResourcesTracked
  /\ StoppedMeansGone
  /\ DestroyLeavesNoFile

-----------------------------------------------------------------------------
(* The fresh manager satisfies the inductive invariant. *)
LEMMA InitIInv == Init => IInv
BY ConstantsDistinct, BoundAssumption
   DEF Init, IInv, TypeOK, Owned, StopRemembered, OneBrowserPerProfile, ResourcesTracked,
       StoppedMeansGone, DestroyLeavesNoFile, Alive, isCurrentProcess, Reports

(* What the two operations on the resource tables do to their types. *)
LEMMA CleanupType ==
  ASSUME TypeOK, NEW p \in Profiles, cleanupProfileResources(p)
  PROVE  /\ table' \in [Profiles -> [Kinds -> Procs \cup {None}]]
         /\ live' \in [Kinds -> SUBSET Procs]
<1>1. \A k \in Kinds : live[k] \ {table[p][k]} \in SUBSET Procs
  BY DEF TypeOK
<1>2. live' \in [Kinds -> SUBSET Procs]
  BY <1>1 DEF cleanupProfileResources
<1>3. table' \in [Profiles -> [Kinds -> Procs \cup {None}]]
  BY DEF cleanupProfileResources, TypeOK
<1>4. QED
  BY <1>2, <1>3

(* The same of the insertions of a launch. *)
LEMMA LaunchType ==
  ASSUME TypeOK, NEW p \in Profiles, NEW q \in Procs, NEW S \in SUBSET StartKinds,
         launchResources(p, q, S)
  PROVE  /\ table' \in [Profiles -> [Kinds -> Procs \cup {None}]]
         /\ live' \in [Kinds -> SUBSET Procs]
<1>1. \A k \in Kinds :
        (live[k] \ {table[p][k]}) \cup (IF k \in S THEN {q} ELSE {}) \in SUBSET Procs
  BY DEF TypeOK
<1>2. live' \in [Kinds -> SUBSET Procs]
  BY <1>1 DEF launchResources
<1>3. [k \in Kinds |-> IF k \in S THEN q ELSE None] \in [Kinds -> Procs \cup {None}]
  OBVIOUS
<1>4. table' \in [Profiles -> [Kinds -> Procs \cup {None}]]
  BY <1>3 DEF launchResources, TypeOK
<1>5. QED
  BY <1>2, <1>4


(* No handler leaves the types; Owned bounds the checks of a relaunched      *)
(* QProcess.                                                               *)
LEMMA NextTypeOK ==
  ASSUME TypeOK, Owned, [Next]_vars
  PROVE  TypeOK'
<1> USE ConstantsDistinct, BoundAssumption
<1>1. CASE UNCHANGED vars
  BY <1>1 DEF vars, TypeOK
<1>2. CASE Destroy
  <2>1. \A k \in Kinds :
          {q \in live[k] : k \in FileKinds /\ \A p \in Profiles : table[p][k] # q}
            \in SUBSET Procs
    BY DEF TypeOK
  <2>2. live' \in [Kinds -> SUBSET Procs]
    BY <1>2, <2>1 DEF Destroy
  <2>3. table' \in [Profiles -> [Kinds -> Procs \cup {None}]]
    BY <1>2 DEF Destroy
  <2>4. signals' \in [Procs -> SUBSET {"term", "kill"}]
    BY <1>2 DEF Destroy
  <2>5. mayRetry' \in [Procs -> BOOLEAN]
    BY <1>2, Zenon DEF Destroy
  <2>6. killTimers' \in [Profiles -> 0..MaxKillTimers] /\ runChecks' \in [Procs -> 0..2]
    BY <1>2 DEF Destroy
  <2>7. QED
    BY <1>2, <2>2, <2>3, <2>4, <2>5, <2>6 DEF Destroy, TypeOK
<1>3. ASSUME NEW p \in Profiles, OnProfile(p) PROVE TypeOK'
  <2>1. CASE StopIdle(p)
    BY <2>1 DEF StopIdle, Say, TypeOK, resources, perProc, Reports
  <2>2. CASE StopBusy(p)
    BY <2>2 DEF StopBusy, Busy, Say, TypeOK, resources, Reports
  <2>3. CASE KillTimer(p)
    BY <2>3 DEF KillTimer, Busy, TypeOK, resources
  <2>4. CASE StartBusy(p)
    BY <2>4 DEF StartBusy, Say, TypeOK, resources, perProc, Reports
  <2>5. CASE StartRefused(p)
    BY <2>5 DEF StartRefused, Say, TypeOK, resources, perProc, Reports
  <2>6. CASE StartConfigFails(p)
    BY <2>6, CleanupType DEF StartConfigFails, Say, TypeOK, perProc, Reports
  <2>7. ASSUME NEW q \in Procs, NEW S \in SUBSET StartKinds,
               NEW compat \in BOOLEAN, NEW cdp \in BOOLEAN, NEW spawned \in BOOLEAN,
               Start(p, q, S, compat, cdp, spawned)
        PROVE  TypeOK'
    <3>1. /\ table' \in [Profiles -> [Kinds -> Procs \cup {None}]]
          /\ live' \in [Kinds -> SUBSET Procs]
      BY <2>7, LaunchType DEF Start
    <3>2. report' \in [Profiles -> Reports]
      BY <2>7 DEF Start, Say, TypeOK, Reports
    <3>3. mayRetry' \in [Procs -> BOOLEAN]
      BY <2>7 DEF Start, TypeOK
    <3>4. runChecks' \in [Procs -> 0..2] /\ attach' \in [Procs -> {"idle", "wait", "asked"}]
      BY <2>7 DEF Start, TypeOK
    <3>5. state' \in [Procs -> {"NotRunning", "Starting", "Running"}]
      BY <2>7 DEF Start, TypeOK
    <3>6. QED
      BY <2>7, <3>1, <3>2, <3>3, <3>4, <3>5 DEF Start, TypeOK
  <2>8. QED
    BY <1>3, <2>1, <2>2, <2>3, <2>4, <2>5, <2>6, <2>7 DEF OnProfile
<1>4. ASSUME NEW q \in Procs, OnProc(q) PROVE TypeOK'
  <2>1. CASE Started(q)
    BY <2>1 DEF Started, TypeOK, resources
  <2>2. CASE FailedToStart(q)
    BY <2>2 DEF FailedToStart, Say, TypeOK, resources, Reports
  <2>3. CASE FinishedExpected(q)
    <3>1. owner[q] \in Profiles
      BY <2>3 DEF FinishedExpected, expectedStop, TypeOK
    <3>2. QED
      BY <2>3, <3>1, CleanupType DEF FinishedExpected, Say, TypeOK, Reports
  <2>4. ASSUME NEW respawned \in BOOLEAN, FinishedRetry(q, respawned) PROVE TypeOK'
    <3>1. owner[q] \in Profiles /\ runChecks[q] <= 1
      BY <2>4 DEF FinishedRetry, Owned, Alive, TypeOK
    <3>2. runChecks' \in [Procs -> 0..2]
      BY <2>4, <3>1 DEF FinishedRetry, TypeOK
    <3>3. mayRetry' \in [Procs -> BOOLEAN]
      BY <2>4 DEF FinishedRetry, TypeOK
    <3>4. report' \in [Profiles -> Reports]
      BY <2>4, <3>1 DEF FinishedRetry, Say, TypeOK, Reports
    <3>5. QED
      BY <2>4, <3>2, <3>3, <3>4 DEF FinishedRetry, TypeOK, resources
  <2>5. ASSUME NEW exit \in Exits, FinishedLast(q, exit) PROVE TypeOK'
    <3>1. owner[q] \in Profiles
      BY <2>5 DEF FinishedLast, Owned, Alive, TypeOK
    <3>2. CASE isCurrentProcess(q)
      <4>1. cleanupProfileResources(owner[q])
        BY <2>5, <3>2 DEF FinishedLast
      <4>2. /\ table' \in [Profiles -> [Kinds -> Procs \cup {None}]]
            /\ live' \in [Kinds -> SUBSET Procs]
        BY <3>1, <4>1, CleanupType
      <4>3. QED
        BY <2>5, <3>1, <3>2, <4>2 DEF FinishedLast, Say, TypeOK, Reports
    <3>3. CASE ~isCurrentProcess(q)
      BY <2>5, <3>3 DEF FinishedLast, TypeOK, resources
    <3>4. QED
      BY <3>2, <3>3
  <2>6. CASE RunCheck(q)
    BY <2>6 DEF RunCheck, Say, TypeOK, resources, Reports
  <2>7. CASE PollAsk(q)
    BY <2>7 DEF PollAsk, TypeOK, resources
  <2>8. CASE PollEnd(q)
    BY <2>8 DEF PollEnd, TypeOK, resources
  <2>9. CASE PollNoAnswer(q)
    BY <2>9 DEF PollNoAnswer, TypeOK, resources
  <2>10. CASE PollAnswer(q)
    BY <2>10 DEF PollAnswer, TypeOK, Kinds
  <2>11. QED
    BY <1>4, <2>1, <2>2, <2>3, <2>4, <2>5, <2>6, <2>7, <2>8, <2>9, <2>10 DEF OnProc
<1>5. QED
  BY <1>1, <1>2, <1>3, <1>4 DEF Next

(* A launch enters the tables of the profile it was started for and no      *)
(* other, and has no timer or attach chain before that.                     *)
LEMMA NextOwned ==
  ASSUME TypeOK, Owned, OneBrowserPerProfile, [Next]_vars
  PROVE  Owned'
<1> USE ConstantsDistinct DEF TypeOK, Owned, OneBrowserPerProfile, isCurrentProcess, Alive
<1>1. CASE UNCHANGED vars
  BY <1>1 DEF vars
<1>2. CASE Destroy
  BY <1>2 DEF Destroy
<1>3. ASSUME NEW p \in Profiles, OnProfile(p) PROVE Owned'
  <2>1. CASE StopIdle(p)
    BY <2>1 DEF StopIdle, resources, perProc
  <2>2. CASE StopBusy(p)
    BY <2>2 DEF StopBusy, resources
  <2>3. CASE KillTimer(p)
    BY <2>3 DEF KillTimer, resources
  <2>4. CASE StartBusy(p)
    BY <2>4 DEF StartBusy, resources, perProc
  <2>5. CASE StartRefused(p)
    BY <2>5 DEF StartRefused, resources, perProc
  <2>6. CASE StartConfigFails(p)
    BY <2>6 DEF StartConfigFails, cleanupProfileResources, perProc
  <2>7. ASSUME NEW q \in Procs, NEW S \in SUBSET StartKinds,
               NEW compat \in BOOLEAN, NEW cdp \in BOOLEAN, NEW spawned \in BOOLEAN,
               Start(p, q, S, compat, cdp, spawned)
        PROVE  Owned'
    BY <2>7 DEF Start, launchResources
  <2>8. QED
    <3> HIDE DEF TypeOK, Owned, OneBrowserPerProfile, isCurrentProcess, Alive
    <3>1. QED
      BY <1>3, <2>1, <2>2, <2>3, <2>4, <2>5, <2>6, <2>7 DEF OnProfile
<1>4. ASSUME NEW q \in Procs, OnProc(q) PROVE Owned'
  <2>1. CASE Started(q)
    BY <2>1 DEF Started, resources
  <2>2. CASE FailedToStart(q)
    BY <2>2 DEF FailedToStart, resources
  <2>3. CASE FinishedExpected(q)
    BY <2>3 DEF FinishedExpected, cleanupProfileResources
  <2>4. ASSUME NEW respawned \in BOOLEAN, FinishedRetry(q, respawned) PROVE Owned'
    BY <2>4 DEF FinishedRetry, resources
  <2>5. ASSUME NEW exit \in Exits, FinishedLast(q, exit) PROVE Owned'
    <3>1. CASE isCurrentProcess(q)
      <4>1. owner[q] \in Profiles /\ proc' = [proc EXCEPT ![owner[q]] = None]
        BY <2>5, <3>1 DEF FinishedLast
      <4>2. table' = [table EXCEPT ![owner[q]] = [k \in Kinds |-> None]]
        BY <2>5, <3>1 DEF FinishedLast, cleanupProfileResources
      <4>3. /\ \A p \in Profiles : proc'[p] \in Procs => proc'[p] = proc[p]
            /\ \A p \in Profiles, k \in Kinds :
                 table'[p][k] \in Procs => table'[p][k] = table[p][k]
        BY <4>1, <4>2
      <4>4. /\ UNCHANGED <<owner, runChecks, attach, mayRetry>>
            /\ \A r \in Procs : state'[r] # "NotRunning" => state'[r] = state[r]
        BY <2>5 DEF FinishedLast
      <4>5. QED
        BY <4>3, <4>4
    <3>2. CASE ~isCurrentProcess(q)
      BY <2>5, <3>2 DEF FinishedLast, resources
    <3>3. QED
      BY <3>1, <3>2
  <2>6. CASE RunCheck(q)
    BY <2>6 DEF RunCheck, resources
  <2>7. CASE PollAsk(q)
    BY <2>7 DEF PollAsk, resources
  <2>8. CASE PollEnd(q)
    BY <2>8 DEF PollEnd, resources
  <2>9. CASE PollNoAnswer(q)
    BY <2>9 DEF PollNoAnswer, resources
  <2>10. CASE PollAnswer(q)
    BY <2>10 DEF PollAnswer
  <2>11. QED
    <3> HIDE DEF TypeOK, Owned, OneBrowserPerProfile, isCurrentProcess, Alive
    <3>1. QED
      BY <1>4, <2>1, <2>2, <2>3, <2>4, <2>5, <2>6, <2>7, <2>8, <2>9, <2>10 DEF OnProc
<1>5. QED
  BY <1>1, <1>2, <1>3, <1>4 DEF Next

(* A browser is put in place of another one only when that one has ended.   *)
LEMMA NextOneBrowser ==
  ASSUME TypeOK, Owned, OneBrowserPerProfile, [Next]_vars
  PROVE  OneBrowserPerProfile'
<1> USE ConstantsDistinct DEF TypeOK, Owned, OneBrowserPerProfile, isCurrentProcess, Alive
<1>1. CASE UNCHANGED vars
  BY <1>1 DEF vars
<1>2. CASE Destroy
  BY <1>2 DEF Destroy
<1>3. ASSUME NEW p \in Profiles, OnProfile(p) PROVE OneBrowserPerProfile'
  <2>1. CASE StopIdle(p)
    BY <2>1 DEF StopIdle, Busy, perProc
  <2>2. CASE StopBusy(p)
    BY <2>2 DEF StopBusy
  <2>3. CASE KillTimer(p)
    BY <2>3 DEF KillTimer
  <2>4. CASE StartBusy(p)
    BY <2>4 DEF StartBusy, perProc
  <2>5. CASE StartRefused(p)
    BY <2>5 DEF StartRefused, Busy, perProc
  <2>6. CASE StartConfigFails(p)
    BY <2>6 DEF StartConfigFails, Busy, perProc
  <2>7. ASSUME NEW q \in Procs, NEW S \in SUBSET StartKinds,
               NEW compat \in BOOLEAN, NEW cdp \in BOOLEAN, NEW spawned \in BOOLEAN,
               Start(p, q, S, compat, cdp, spawned)
        PROVE  OneBrowserPerProfile'
    BY <2>7 DEF Start, Busy
  <2>8. QED
    <3> HIDE DEF TypeOK, Owned, OneBrowserPerProfile, isCurrentProcess, Alive
    <3>1. QED
      BY <1>3, <2>1, <2>2, <2>3, <2>4, <2>5, <2>6, <2>7 DEF OnProfile
<1>4. ASSUME NEW q \in Procs, OnProc(q) PROVE OneBrowserPerProfile'
  <2>1. CASE Started(q)
    BY <2>1 DEF Started
  <2>2. CASE FailedToStart(q)
    BY <2>2 DEF FailedToStart
  <2>3. CASE FinishedExpected(q)
    BY <2>3 DEF FinishedExpected
  <2>4. ASSUME NEW respawned \in BOOLEAN, FinishedRetry(q, respawned) PROVE OneBrowserPerProfile'
    BY <2>4 DEF FinishedRetry
  <2>5. ASSUME NEW exit \in Exits, FinishedLast(q, exit) PROVE OneBrowserPerProfile'
    BY <2>5 DEF FinishedLast
  <2>6. CASE RunCheck(q)
    BY <2>6 DEF RunCheck
  <2>7. CASE PollAsk(q)
    BY <2>7 DEF PollAsk
  <2>8. CASE PollEnd(q)
    BY <2>8 DEF PollEnd
  <2>9. CASE PollNoAnswer(q)
    BY <2>9 DEF PollNoAnswer
  <2>10. CASE PollAnswer(q)
    BY <2>10 DEF PollAnswer
  <2>11. QED
    <3> HIDE DEF TypeOK, Owned, OneBrowserPerProfile, isCurrentProcess, Alive
    <3>1. QED
      BY <1>4, <2>1, <2>2, <2>3, <2>4, <2>5, <2>6, <2>7, <2>8, <2>9, <2>10 DEF OnProc
<1>5. QED
  BY <1>1, <1>2, <1>3, <1>4 DEF Next

(* A handler that makes a resource has released the one it takes the place  *)
(* of; one that empties a table entry has released what it named.           *)
LEMMA NextResourcesTracked ==
  ASSUME TypeOK, Owned, ResourcesTracked, [Next]_vars
  PROVE  ResourcesTracked'
<1> USE ConstantsDistinct DEF TypeOK, Owned, ResourcesTracked
<1>1. CASE UNCHANGED vars
  BY <1>1 DEF vars
<1>2. CASE Destroy
  BY <1>2 DEF Destroy
<1>3. ASSUME NEW p \in Profiles, OnProfile(p) PROVE ResourcesTracked'
  <2>1. CASE StopIdle(p)
    BY <2>1 DEF StopIdle, resources, perProc
  <2>2. CASE StopBusy(p)
    BY <2>2 DEF StopBusy, resources
  <2>3. CASE KillTimer(p)
    BY <2>3 DEF KillTimer, resources
  <2>4. CASE StartBusy(p)
    BY <2>4 DEF StartBusy, resources, perProc
  <2>5. CASE StartRefused(p)
    BY <2>5 DEF StartRefused, resources, perProc
  <2>6. CASE StartConfigFails(p)
    BY <2>6 DEF StartConfigFails, cleanupProfileResources, perProc
  <2>7. ASSUME NEW q \in Procs, NEW S \in SUBSET StartKinds,
               NEW compat \in BOOLEAN, NEW cdp \in BOOLEAN, NEW spawned \in BOOLEAN,
               Start(p, q, S, compat, cdp, spawned)
        PROVE  ResourcesTracked'
    BY <2>7 DEF Start, launchResources, StartKinds, Kinds
  <2>8. QED
    <3> HIDE DEF TypeOK, Owned, ResourcesTracked
    <3>1. QED
      BY <1>3, <2>1, <2>2, <2>3, <2>4, <2>5, <2>6, <2>7 DEF OnProfile
<1>4. ASSUME NEW q \in Procs, OnProc(q) PROVE ResourcesTracked'
  <2>1. CASE Started(q)
    BY <2>1 DEF Started, resources
  <2>2. CASE FailedToStart(q)
    BY <2>2 DEF FailedToStart, resources
  <2>3. CASE FinishedExpected(q)
    BY <2>3 DEF FinishedExpected, cleanupProfileResources
  <2>4. ASSUME NEW respawned \in BOOLEAN, FinishedRetry(q, respawned) PROVE ResourcesTracked'
    BY <2>4 DEF FinishedRetry, resources
  <2>5. ASSUME NEW exit \in Exits, FinishedLast(q, exit) PROVE ResourcesTracked'
    BY <2>5 DEF FinishedLast, cleanupProfileResources, resources, Alive
  <2>6. CASE RunCheck(q)
    BY <2>6 DEF RunCheck, resources
  <2>7. CASE PollAsk(q)
    BY <2>7 DEF PollAsk, resources
  <2>8. CASE PollEnd(q)
    BY <2>8 DEF PollEnd, resources
  <2>9. CASE PollNoAnswer(q)
    BY <2>9 DEF PollNoAnswer, resources
  <2>10. CASE PollAnswer(q)
    BY <2>10 DEF PollAnswer, Kinds
  <2>11. QED
    <3> HIDE DEF TypeOK, Owned, ResourcesTracked
    <3>1. QED
      BY <1>4, <2>1, <2>2, <2>3, <2>4, <2>5, <2>6, <2>7, <2>8, <2>9, <2>10 DEF OnProc
<1>5. QED
  BY <1>1, <1>2, <1>3, <1>4 DEF Next

(* A handler that says "stopped" or "crashed" is one after which the        *)
(* profile has no browser.                                                  *)
LEMMA NextStoppedMeansGone ==
  ASSUME TypeOK, Owned, OneBrowserPerProfile, StoppedMeansGone, [Next]_vars
  PROVE  StoppedMeansGone'
<1> USE ConstantsDistinct DEF TypeOK, Owned, OneBrowserPerProfile, isCurrentProcess, Alive, StoppedMeansGone
<1>1. CASE UNCHANGED vars
  BY <1>1 DEF vars
<1>2. CASE Destroy
  BY <1>2 DEF Destroy
<1>3. ASSUME NEW p \in Profiles, OnProfile(p) PROVE StoppedMeansGone'
  <2>1. CASE StopIdle(p)
    BY <2>1 DEF StopIdle, Busy, perProc, Say
  <2>2. CASE StopBusy(p)
    BY <2>2 DEF StopBusy, Say
  <2>3. CASE KillTimer(p)
    BY <2>3 DEF KillTimer
  <2>4. CASE StartBusy(p)
    BY <2>4 DEF StartBusy, perProc, Say
  <2>5. CASE StartRefused(p)
    BY <2>5 DEF StartRefused, Busy, perProc, Say
  <2>6. CASE StartConfigFails(p)
    BY <2>6 DEF StartConfigFails, Busy, perProc, Say
  <2>7. ASSUME NEW q \in Procs, NEW S \in SUBSET StartKinds,
               NEW compat \in BOOLEAN, NEW cdp \in BOOLEAN, NEW spawned \in BOOLEAN,
               Start(p, q, S, compat, cdp, spawned)
        PROVE  StoppedMeansGone'
    BY <2>7 DEF Start, Busy, Say
  <2>8. QED
    <3> HIDE DEF TypeOK, Owned, OneBrowserPerProfile, isCurrentProcess, Alive, StoppedMeansGone
    <3>1. QED
      BY <1>3, <2>1, <2>2, <2>3, <2>4, <2>5, <2>6, <2>7 DEF OnProfile
<1>4. ASSUME NEW q \in Procs, OnProc(q) PROVE StoppedMeansGone'
  <2>1. CASE Started(q)
    BY <2>1 DEF Started
  <2>2. CASE FailedToStart(q)
    BY <2>2 DEF FailedToStart, Say
  <2>3. CASE FinishedExpected(q)
    BY <2>3 DEF FinishedExpected, Say
  <2>4. ASSUME NEW respawned \in BOOLEAN, FinishedRetry(q, respawned) PROVE StoppedMeansGone'
    BY <2>4 DEF FinishedRetry, Say
  <2>5. ASSUME NEW exit \in Exits, FinishedLast(q, exit) PROVE StoppedMeansGone'
    BY <2>5 DEF FinishedLast, Say
  <2>6. CASE RunCheck(q)
    BY <2>6 DEF RunCheck, Say
  <2>7. CASE PollAsk(q)
    BY <2>7 DEF PollAsk
  <2>8. CASE PollEnd(q)
    BY <2>8 DEF PollEnd
  <2>9. CASE PollNoAnswer(q)
    BY <2>9 DEF PollNoAnswer
  <2>10. CASE PollAnswer(q)
    BY <2>10 DEF PollAnswer
  <2>11. QED
    <3> HIDE DEF TypeOK, Owned, OneBrowserPerProfile, isCurrentProcess, Alive, StoppedMeansGone
    <3>1. QED
      BY <1>4, <2>1, <2>2, <2>3, <2>4, <2>5, <2>6, <2>7, <2>8, <2>9, <2>10 DEF OnProc
<1>5. QED
  BY <1>1, <1>2, <1>3, <1>4 DEF Next

(* A request to terminate is forgotten only when the browser has ended.     *)
LEMMA NextStopRemembered ==
  ASSUME TypeOK, Owned, OneBrowserPerProfile, StopRemembered, [Next]_vars
  PROVE  StopRemembered'
<1> USE ConstantsDistinct DEF TypeOK, Owned, OneBrowserPerProfile, isCurrentProcess, Alive, StopRemembered
<1>1. CASE UNCHANGED vars
  BY <1>1 DEF vars
<1>2. CASE Destroy
  BY <1>2 DEF Destroy
<1>3. ASSUME NEW p \in Profiles, OnProfile(p) PROVE StopRemembered'
  <2>1. CASE StopIdle(p)
    BY <2>1 DEF StopIdle, perProc
  <2>2. CASE StopBusy(p)
    BY <2>2 DEF StopBusy, Busy
  <2>3. CASE KillTimer(p)
    BY <2>3 DEF KillTimer, Busy
  <2>4. CASE StartBusy(p)
    BY <2>4 DEF StartBusy, perProc
  <2>5. CASE StartRefused(p)
    BY <2>5 DEF StartRefused, perProc
  <2>6. CASE StartConfigFails(p)
    BY <2>6 DEF StartConfigFails, perProc
  <2>7. ASSUME NEW q \in Procs, NEW S \in SUBSET StartKinds,
               NEW compat \in BOOLEAN, NEW cdp \in BOOLEAN, NEW spawned \in BOOLEAN,
               Start(p, q, S, compat, cdp, spawned)
        PROVE  StopRemembered'
    BY <2>7 DEF Start, Busy
  <2>8. QED
    <3> HIDE DEF TypeOK, Owned, OneBrowserPerProfile, isCurrentProcess, Alive, StopRemembered
    <3>1. QED
      BY <1>3, <2>1, <2>2, <2>3, <2>4, <2>5, <2>6, <2>7 DEF OnProfile
<1>4. ASSUME NEW q \in Procs, OnProc(q) PROVE StopRemembered'
  <2>1. CASE Started(q)
    BY <2>1 DEF Started
  <2>2. CASE FailedToStart(q)
    BY <2>2 DEF FailedToStart
  <2>3. CASE FinishedExpected(q)
    BY <2>3 DEF FinishedExpected, expectedStop
  <2>4. ASSUME NEW respawned \in BOOLEAN, FinishedRetry(q, respawned) PROVE StopRemembered'
    BY <2>4 DEF FinishedRetry, expectedStop
  <2>5. ASSUME NEW exit \in Exits, FinishedLast(q, exit) PROVE StopRemembered'
    BY <2>5 DEF FinishedLast, expectedStop
  <2>6. CASE RunCheck(q)
    BY <2>6 DEF RunCheck
  <2>7. CASE PollAsk(q)
    BY <2>7 DEF PollAsk
  <2>8. CASE PollEnd(q)
    BY <2>8 DEF PollEnd
  <2>9. CASE PollNoAnswer(q)
    BY <2>9 DEF PollNoAnswer
  <2>10. CASE PollAnswer(q)
    BY <2>10 DEF PollAnswer
  <2>11. QED
    <3> HIDE DEF TypeOK, Owned, OneBrowserPerProfile, isCurrentProcess, Alive, StopRemembered
    <3>1. QED
      BY <1>4, <2>1, <2>2, <2>3, <2>4, <2>5, <2>6, <2>7, <2>8, <2>9, <2>10 DEF OnProc
<1>5. QED
  BY <1>1, <1>2, <1>3, <1>4 DEF Next

(* Only the destructor clears up, and what a table names it releases. *)
LEMMA NextDestroyLeavesNoFile ==
  ASSUME TypeOK, ResourcesTracked, DestroyLeavesNoFile, [Next]_vars
  PROVE  DestroyLeavesNoFile'
<1>1. CASE UNCHANGED vars
  BY <1>1 DEF vars, DestroyLeavesNoFile
<1>2. CASE Destroy
  BY <1>2 DEF Destroy, DestroyLeavesNoFile, ResourcesTracked, TypeOK
<1>3. ASSUME NEW p \in Profiles, OnProfile(p) PROVE DestroyLeavesNoFile'
  BY <1>3 DEF OnProfile, StopIdle, StopBusy, KillTimer, StartBusy, StartRefused,
     StartConfigFails, Start, DestroyLeavesNoFile
<1>4. ASSUME NEW q \in Procs, OnProc(q) PROVE DestroyLeavesNoFile'
  BY <1>4 DEF OnProc, Started, FailedToStart, FinishedExpected, FinishedRetry,
     FinishedLast, RunCheck, PollAsk, PollEnd, PollNoAnswer, PollAnswer,
     DestroyLeavesNoFile
<1>5. QED
  BY <1>1, <1>2, <1>3, <1>4 DEF Next

(* The inductive invariant is one. *)
LEMMA NextIInv == IInv /\ [Next]_vars => IInv'
BY NextTypeOK, NextOwned, NextStopRemembered, NextOneBrowser, NextResourcesTracked,
   NextStoppedMeansGone, NextDestroyLeavesNoFile DEF IInv

(* Every behaviour of the manager stays in it. *)
LEMMA Invariance == Spec => []IInv
BY InitIInv, NextIInv, PTL DEF Spec

-----------------------------------------------------------------------------
(* The tables, timers and states of ProfileRuntimeManager stay in their     *)
(* types: timers do not go negative, a QProcess has at most two checks.     *)
THEOREM TypeCorrect == Spec => []TypeOK
BY Invariance, PTL DEF IInv

(* No order of start, stop, relaunch and failure gives a profile two        *)
(* browsers on its data directory (profile.start, finished).                *)
THEOREM OneBrowser == Spec => []OneBrowserPerProfile
BY Invariance, PTL DEF IInv

(* No handler loses track of a mapper, extension directory, runtime.json or *)
(* CDP client it made (cleanupProfileResources before each insertion).      *)
THEOREM NoResourceLost == Spec => []ResourcesTracked
BY Invariance, PTL DEF IInv

(* The status callback says "stopped" or "crashed" only of a profile with   *)
(* no browser (profile.stop, finished).                                     *)
THEOREM StoppedIsTrue == Spec => []StoppedMeansGone
BY Invariance, PTL DEF IInv

(* The destructor leaves no extension directory and no runtime.json.        *)
THEOREM CleanDestruction == Spec => []DestroyLeavesNoFile
BY Invariance, PTL DEF IInv

(* No step releases a launch resource while its browser lives on            *)
(* (cleanupProfileResources is only called for profiles without one).       *)
THEOREM ResourcesOutliveBrowser == Spec => BrowserKeepsItsResources
<1> DEFINE Keeps == \A k \in StartKinds : \A q \in live[k] \ live'[k] : state'[q] = "NotRunning"
<1>1. IInv /\ [Next]_vars => [Keeps]_vars
  <2> SUFFICES ASSUME IInv, Next, NEW k \in StartKinds, NEW r \in live[k] \ live'[k]
               PROVE  state'[r] = "NotRunning"
    OBVIOUS
  <2> USE ConstantsDistinct DEF IInv, TypeOK, Owned, OneBrowserPerProfile, ResourcesTracked,
          isCurrentProcess, Alive
  <2>1. r \in Procs /\ k \in Kinds /\ owner[r] \in Profiles /\ table[owner[r]][k] = r
    BY DEF Kinds
  <2>2. CASE Destroy
    BY <2>1, <2>2 DEF Destroy
  <2>3. ASSUME NEW p \in Profiles, OnProfile(p) PROVE state'[r] = "NotRunning"
    <3>1. CASE StopIdle(p) \/ StopBusy(p) \/ KillTimer(p) \/ StartBusy(p) \/ StartRefused(p)
      BY <3>1 DEF StopIdle, StopBusy, KillTimer, StartBusy, StartRefused, resources
    <3>2. CASE StartConfigFails(p)
      BY <2>1, <3>2 DEF StartConfigFails, cleanupProfileResources, Busy, perProc
    <3>3. ASSUME NEW q \in Procs, NEW S \in SUBSET StartKinds,
                 NEW compat \in BOOLEAN, NEW cdp \in BOOLEAN, NEW spawned \in BOOLEAN,
                 Start(p, q, S, compat, cdp, spawned)
          PROVE  state'[r] = "NotRunning"
      <4>1. r # q
        BY <2>1, <3>3 DEF Start
      <4>2. table[p][k] = r
        BY <2>1, <3>3, <4>1 DEF Start, launchResources
      <4>3. ~Alive(r)
        BY <2>1, <3>3, <4>2 DEF Start, Busy
      <4>4. QED
        BY <2>1, <3>3, <4>1, <4>3 DEF Start
    <3>4. QED
      BY <2>3, <3>1, <3>2, <3>3 DEF OnProfile
  <2>4. ASSUME NEW q \in Procs, OnProc(q) PROVE state'[r] = "NotRunning"
    <3>1. CASE FinishedExpected(q)
      BY <2>1, <3>1 DEF FinishedExpected, cleanupProfileResources, expectedStop
    <3>2. ASSUME NEW exit \in Exits, FinishedLast(q, exit) PROVE state'[r] = "NotRunning"
      BY <2>1, <3>2 DEF FinishedLast, cleanupProfileResources, resources
    <3>3. CASE PollAnswer(q)
      BY <2>1, <3>3 DEF PollAnswer, StartKinds
    <3>4. QED
      BY <2>4, <3>1, <3>2, <3>3
         DEF OnProc, Started, FailedToStart, FinishedRetry, RunCheck, PollAsk, PollEnd,
             PollNoAnswer, resources
  <2>5. QED
    BY <2>2, <2>3, <2>4 DEF Next
<1>2. QED
  BY <1>1, Invariance, PTL DEF Spec, BrowserKeepsItsResources

(* The compatibility relaunch never brings back a browser that profile.stop *)
(* asked to terminate (consumeExpectedStop in finished).                    *)
THEOREM StoppedStaysStopped == Spec => StoppedIsNotRelaunched
<1> DEFINE Stays == \A q \in Procs :
             "term" \in signals[q] => ~(state[q] = "Running" /\ state'[q] = "Starting")
<1>1. IInv /\ [Next]_vars => [Stays]_vars
  <2> SUFFICES ASSUME IInv, Next, NEW r \in Procs, "term" \in signals[r],
                      state[r] = "Running", state'[r] = "Starting"
               PROVE  FALSE
    OBVIOUS
  <2> USE ConstantsDistinct DEF IInv, TypeOK, Owned, StopRemembered, Alive
  <2>1. CASE Destroy
    BY <2>1 DEF Destroy
  <2>2. ASSUME NEW p \in Profiles, OnProfile(p) PROVE FALSE
    BY <2>2 DEF OnProfile, StopIdle, StopBusy, KillTimer, StartBusy, StartRefused,
       StartConfigFails, Start, perProc
  <2>3. ASSUME NEW q \in Procs, OnProc(q) PROVE FALSE
    <3>1. ASSUME NEW respawned \in BOOLEAN, FinishedRetry(q, respawned) PROVE FALSE
      BY <3>1 DEF FinishedRetry, expectedStop
    <3>2. QED
      BY <2>3, <3>1 DEF OnProc, Started, FailedToStart, FinishedExpected, FinishedLast,
         RunCheck, PollAsk, PollEnd, PollNoAnswer, PollAnswer
  <2>4. QED
    BY <2>1, <2>2, <2>3 DEF Next
<1>2. QED
  BY <1>1, Invariance, PTL DEF Spec, StoppedIsNotRelaunched
=============================================================================
