--------------------------- MODULE ProfileRuntime ---------------------------
(***************************************************************************)
(* ProfileRuntimeManager with SystemChromeEngine::launchProcess and        *)
(* attachCdpWhenReady: the part of the agent that owns the browser         *)
(* processes.  The agent has one thread; every handler, QProcess signal    *)
(* and timer callback runs to its end before the next one, so each is one  *)
(* action.  The interleavings are those of client messages, of the         *)
(* operating system's processes and of the single-shot timers.             *)
(***************************************************************************)
EXTENDS Naturals, FiniteSets

CONSTANTS
  Profiles,      \* profile ids
  Procs,         \* QProcess objects: each launch creates one, none is reused
  FileKinds,     \* launch resources on disk (extension dir, Doke runtime.json)
  ObjectKinds,   \* launch resources in memory (proxy mapper, debug port)
  MaxKillTimers, \* bound: kill timers of one profile that are pending at once
  None

ASSUME ConstantsDistinct ==
  /\ None \notin Procs
  /\ None \notin Profiles
  /\ FileKinds \cap ObjectKinds = {}
  /\ "cdp" \notin FileKinds \cup ObjectKinds

ASSUME BoundAssumption == MaxKillTimers \in Nat \ {0}

StartKinds == FileKinds \cup ObjectKinds
Kinds      == StartKinds \cup {"cdp"}

VARIABLES
  up,         \* the manager exists: its destructor has not run
  proc,       \* m_processByProfileId
  stopReq,    \* m_stopRequested
  table,      \* the five tables of resources by profile: the launch they belong to
  live,       \* resources that exist, tabled or not: the launches, by kind
  owner,      \* the profile id the callbacks of a QProcess captured
  state,      \* QProcess::state()
  signals,    \* what was sent to the operating system's process that runs
  mayRetry,   \* none of compat_requested, compat_tried, compat_retried is set
  runChecks,  \* pending 900 ms checks of a QProcess
  killTimers, \* pending 1200 ms timers of a profile
  attach,     \* the CDP attach chain of a launch
  report      \* the last profile.status sent for a profile

vars == <<up, proc, stopReq, table, live, owner, state, signals, mayRetry,
          runChecks, killTimers, attach, report>>

resources == <<table, live>>
perProc   == <<owner, state, signals, mayRetry, runChecks, attach>>

Exits == {"clean", "failure", "crash"}
Reports == {"none", "starting", "running", "stopping", "stopped", "crashed", "error"}

TypeOK ==
  /\ up \in BOOLEAN
  /\ proc \in [Profiles -> Procs \cup {None}]
  /\ stopReq \subseteq Profiles
  /\ table \in [Profiles -> [Kinds -> Procs \cup {None}]]
  /\ live \in [Kinds -> SUBSET Procs]
  /\ owner \in [Procs -> Profiles \cup {None}]
  /\ state \in [Procs -> {"NotRunning", "Starting", "Running"}]
  /\ signals \in [Procs -> SUBSET {"term", "kill"}]
  /\ mayRetry \in [Procs -> BOOLEAN]
  /\ runChecks \in [Procs -> 0..2]
  /\ killTimers \in [Profiles -> 0..MaxKillTimers]
  /\ attach \in [Procs -> {"idle", "wait", "asked"}]
  /\ report \in [Profiles -> Reports]

Init ==
  /\ up = TRUE
  /\ proc = [p \in Profiles |-> None]
  /\ stopReq = {}
  /\ table = [p \in Profiles |-> [k \in Kinds |-> None]]
  /\ live = [k \in Kinds |-> {}]
  /\ owner = [q \in Procs |-> None]
  /\ state = [q \in Procs |-> "NotRunning"]
  /\ signals = [q \in Procs |-> {}]
  /\ mayRetry = [q \in Procs |-> FALSE]
  /\ runChecks = [q \in Procs |-> 0]
  /\ killTimers = [p \in Profiles |-> 0]
  /\ attach = [q \in Procs |-> "idle"]
  /\ report = [p \in Profiles |-> "none"]

-----------------------------------------------------------------------------
Alive(q) == state[q] # "NotRunning"

(* Mutant: a process that is still starting counts as gone. *)
BusyIfRunning(p) == proc[p] # None /\ state[proc[p]] = "Running"

(* The profile has a process whose state is not NotRunning. *)
Busy(p) == proc[p] # None /\ Alive(proc[p])

isCurrentProcess(q) == proc[owner[q]] = q

(* Mutant: the exit of a browser that had to be killed is not expected. *)
ExpectedUnlessKilled(q) == owner[q] \in stopReq /\ "kill" \notin signals[q]

(* consumeExpectedStop answers TRUE. *)
expectedStop(q) == owner[q] \in stopReq

Say(p, s) == report' = [report EXCEPT ![p] = s]

(* Every table's entry of p is taken and what it named is released. *)
cleanupProfileResources(p) ==
  /\ table' = [table EXCEPT ![p] = [k \in Kinds |-> None]]
  /\ live' = [k \in Kinds |-> live[k] \ {table[p][k]}]

(* Mutant: the new launch's entries overwrite what an earlier one left. *)
OverwriteResources(p, q, S) ==
  /\ table' = [table EXCEPT ![p] = [k \in Kinds |-> IF k \in S THEN q ELSE @[k]]]
  /\ live' = [k \in Kinds |-> live[k] \cup (IF k \in S THEN {q} ELSE {})]

(* cleanupProfileResources, then the insertions for launch q. *)
launchResources(p, q, S) ==
  /\ table' = [table EXCEPT ![p] = [k \in Kinds |-> IF k \in S THEN q ELSE None]]
  /\ live' = [k \in Kinds |->
                 (live[k] \ {table[p][k]}) \cup (IF k \in S THEN {q} ELSE {})]

-----------------------------------------------------------------------------
(* profile.stop                                                            *)

(* No process, or one that never ran (FailedToStart) and is dropped. *)
StopIdle(p) ==
  /\ up /\ ~Busy(p)
  /\ proc' = [proc EXCEPT ![p] = None]
  /\ Say(p, "stopped")
  /\ UNCHANGED <<up, stopReq, resources, perProc, killTimers>>

(* Mutant: resources are released when the stop is asked for. *)
StopAndRelease(p) ==
  /\ up /\ Busy(p)
  /\ killTimers[p] < MaxKillTimers
  /\ stopReq' = stopReq \cup {p}
  /\ Say(p, "stopping")
  /\ signals' = [signals EXCEPT ![proc[p]] = @ \cup {"term"}]
  /\ killTimers' = [killTimers EXCEPT ![p] = @ + 1]
  /\ cleanupProfileResources(p)
  /\ UNCHANGED <<up, proc, owner, state, mayRetry, runChecks, attach>>

StopBusy(p) ==
  /\ up /\ Busy(p)
  /\ killTimers[p] < MaxKillTimers
  /\ stopReq' = stopReq \cup {p}
  /\ Say(p, "stopping")
  /\ signals' = [signals EXCEPT ![proc[p]] = @ \cup {"term"}]
  /\ killTimers' = [killTimers EXCEPT ![p] = @ + 1]
  /\ UNCHANGED <<up, proc, resources, owner, state, mayRetry, runChecks, attach>>

(* Mutant: the timer asks politely again. *)
KillTimerTerminates(p) ==
  /\ up /\ killTimers[p] > 0
  /\ killTimers' = [killTimers EXCEPT ![p] = @ - 1]
  /\ signals' = IF Busy(p) THEN [signals EXCEPT ![proc[p]] = @ \cup {"term"}] ELSE signals
  /\ UNCHANGED <<up, proc, stopReq, resources, owner, state, mayRetry, runChecks,
                 attach, report>>

(* The timer of profile.stop looks the process up by profile id when it     *)
(* fires, whichever launch that is by then.                                 *)
KillTimer(p) ==
  /\ up /\ killTimers[p] > 0
  /\ killTimers' = [killTimers EXCEPT ![p] = @ - 1]
  /\ signals' = IF Busy(p) THEN [signals EXCEPT ![proc[p]] = @ \cup {"kill"}] ELSE signals
  /\ UNCHANGED <<up, proc, stopReq, resources, owner, state, mayRetry, runChecks,
                 attach, report>>

-----------------------------------------------------------------------------
(* profile.start                                                           *)

StartBusy(p) ==
  /\ up /\ Busy(p)
  /\ Say(p, "running")
  /\ UNCHANGED <<up, proc, stopReq, resources, perProc, killTimers>>

(* Unsupported engine, no executable, or no data directory: the returns     *)
(* before cleanupProfileResources.                                          *)
StartRefused(p) ==
  /\ up /\ ~Busy(p)
  /\ proc' = [proc EXCEPT ![p] = None]
  /\ Say(p, "error")
  /\ UNCHANGED <<up, stopReq, resources, perProc, killTimers>>

(* Doke/runtime.json cannot be written: what the handler made is released.  *)
StartConfigFails(p) ==
  /\ up /\ ~Busy(p)
  /\ proc' = [proc EXCEPT ![p] = None]
  /\ cleanupProfileResources(p)
  /\ Say(p, "error")
  /\ UNCHANGED <<up, stopReq, perProc, killTimers>>

(* The whole launch.  S: the resources this request needs and gets.  cdp:   *)
(* it injects through CDP and has a debug port.  spawned: QProcess::start() *)
(* did not fail at once; when it did, errorOccurred ran inside the handler  *)
(* and the QProcess enters the table dead.                                  *)
Start(p, q, S, compat, cdp, spawned) ==
  /\ up /\ ~Busy(p)
  /\ owner[q] = None
  /\ owner' = [owner EXCEPT ![q] = p]
  /\ launchResources(p, q, S)
  /\ mayRetry' = [mayRetry EXCEPT ![q] = ~compat]
  /\ state' = [state EXCEPT ![q] = IF spawned THEN "Starting" ELSE "NotRunning"]
  /\ Say(p, IF spawned \/ p \in stopReq THEN "starting" ELSE "error")
  /\ runChecks' = [runChecks EXCEPT ![q] = 1]
  /\ attach' = [attach EXCEPT ![q] = IF cdp THEN "wait" ELSE "idle"]
  /\ proc' = [proc EXCEPT ![p] = q]
  /\ UNCHANGED <<up, stopReq, signals, killTimers>>

-----------------------------------------------------------------------------
(* QProcess signals and the running check                                  *)

(* started: the code connects nothing to it. *)
Started(q) ==
  /\ up /\ state[q] = "Starting"
  /\ state' = [state EXCEPT ![q] = "Running"]
  /\ UNCHANGED <<up, proc, stopReq, resources, owner, signals, mayRetry, runChecks,
                 killTimers, attach, report>>

(* errorOccurred(FailedToStart): finished never follows. *)
FailedToStart(q) ==
  /\ up /\ state[q] = "Starting"
  /\ state' = [state EXCEPT ![q] = "NotRunning"]
  /\ signals' = [signals EXCEPT ![q] = {}]
  /\ IF owner[q] \in stopReq THEN UNCHANGED report ELSE Say(owner[q], "error")
  /\ UNCHANGED <<up, proc, stopReq, resources, owner, mayRetry, runChecks,
                 killTimers, attach>>

(* finished after profile.stop.  A crash emits errorOccurred first, which   *)
(* the stop request silences.                                               *)
FinishedExpected(q) ==
  /\ up /\ state[q] = "Running" /\ expectedStop(q)
  /\ state' = [state EXCEPT ![q] = "NotRunning"]
  /\ stopReq' = stopReq \ {owner[q]}
  /\ proc' = [proc EXCEPT ![owner[q]] = None]
  /\ cleanupProfileResources(owner[q])
  /\ Say(owner[q], "stopped")
  /\ signals' = [signals EXCEPT ![q] = {}]
  /\ UNCHANGED <<up, owner, mayRetry, runChecks, killTimers, attach>>

(* finished of a first launch: the same QProcess starts again with the      *)
(* compatibility arguments, whatever the exit was.                          *)
FinishedRetry(q, respawned) ==
  /\ up /\ state[q] = "Running" /\ ~expectedStop(q)
  /\ isCurrentProcess(q) /\ mayRetry[q]
  /\ mayRetry' = [mayRetry EXCEPT ![q] = FALSE]
  /\ state' = [state EXCEPT ![q] = IF respawned THEN "Starting" ELSE "NotRunning"]
  /\ signals' = [signals EXCEPT ![q] = {}]
  /\ Say(owner[q], IF respawned THEN "starting" ELSE "error")
  /\ runChecks' = [runChecks EXCEPT ![q] = @ + 1]
  /\ UNCHANGED <<up, proc, stopReq, resources, owner, killTimers, attach>>

(* finished of the last launch; a process that is no longer the profile's   *)
(* only ends.                                                               *)
FinishedLast(q, exit) ==
  /\ up /\ state[q] = "Running" /\ ~expectedStop(q)
  /\ state' = [state EXCEPT ![q] = "NotRunning"]
  /\ IF isCurrentProcess(q)
       THEN /\ ~mayRetry[q]
            /\ proc' = [proc EXCEPT ![owner[q]] = None]
            /\ cleanupProfileResources(owner[q])
            /\ Say(owner[q], IF exit = "clean" THEN "stopped" ELSE "crashed")
       ELSE UNCHANGED <<proc, resources, report>>
  /\ signals' = [signals EXCEPT ![q] = {}]
  /\ UNCHANGED <<up, stopReq, owner, mayRetry, runChecks, killTimers, attach>>

(* Mutant: one check too many fires. *)
RunCheckAgain(q) ==
  /\ up /\ owner[q] # None
  /\ runChecks' = [runChecks EXCEPT ![q] = @ - 1]
  /\ IF isCurrentProcess(q) /\ state[q] = "Running"
       THEN Say(owner[q], "running") ELSE UNCHANGED report
  /\ UNCHANGED <<up, proc, stopReq, resources, owner, state, signals, mayRetry,
                 killTimers, attach>>

RunCheck(q) ==
  /\ up /\ runChecks[q] > 0
  /\ runChecks' = [runChecks EXCEPT ![q] = @ - 1]
  /\ IF isCurrentProcess(q) /\ state[q] = "Running"
       THEN Say(owner[q], "running") ELSE UNCHANGED report
  /\ UNCHANGED <<up, proc, stopReq, resources, owner, state, signals, mayRetry,
                 killTimers, attach>>

-----------------------------------------------------------------------------
(* CDP attach chain: poll /json/version until it answers                   *)

(* isActive asks only whether the profile has some process. *)
isActive(q) == proc[owner[q]] # None

PollAsk(q) ==
  /\ up /\ attach[q] = "wait" /\ isActive(q)
  /\ attach' = [attach EXCEPT ![q] = "asked"]
  /\ UNCHANGED <<up, proc, stopReq, resources, owner, state, signals, mayRetry,
                 runChecks, killTimers, report>>

(* Not active, before or after a request, or (the count of attempts is      *)
(* left out) the attempts are used up.                                      *)
PollEnd(q) ==
  /\ up
  /\ attach[q] = "wait" \/ (attach[q] = "asked" /\ ~isActive(q))
  /\ attach' = [attach EXCEPT ![q] = "idle"]
  /\ UNCHANGED <<up, proc, stopReq, resources, owner, state, signals, mayRetry,
                 runChecks, killTimers, report>>

PollNoAnswer(q) ==
  /\ up /\ attach[q] = "asked" /\ isActive(q)
  /\ attach' = [attach EXCEPT ![q] = "wait"]
  /\ UNCHANGED <<up, proc, stopReq, resources, owner, state, signals, mayRetry,
                 runChecks, killTimers, report>>

(* Something answered on the port: cleanupCdp, then the client of launch q  *)
(* is inserted, and the chain ends.                                         *)
PollAnswer(q) ==
  /\ up /\ attach[q] = "asked" /\ isActive(q)
  /\ attach' = [attach EXCEPT ![q] = "idle"]
  /\ table' = [table EXCEPT ![owner[q]]["cdp"] = q]
  /\ live' = [live EXCEPT !["cdp"] = (@ \ {table[owner[q]]["cdp"]}) \cup {q}]
  /\ UNCHANGED <<up, proc, stopReq, owner, state, signals, mayRetry, runChecks,
                 killTimers, report>>

-----------------------------------------------------------------------------
(* The destructor: tabled processes are killed, tabled resources released;  *)
(* every QProcess, mapper and CDP client is a QObject child of the manager  *)
(* and goes with it, files stay unless a table names them.                  *)
Destroy ==
  /\ up
  /\ up' = FALSE
  /\ proc' = [p \in Profiles |-> None]
  /\ state' = [q \in Procs |-> "NotRunning"]
  /\ table' = [p \in Profiles |-> [k \in Kinds |-> None]]
  /\ live' = [k \in Kinds |->
                 {q \in live[k] : k \in FileKinds /\ \A p \in Profiles : table[p][k] # q}]
  /\ runChecks' = [q \in Procs |-> 0]
  /\ killTimers' = [p \in Profiles |-> 0]
  /\ attach' = [q \in Procs |-> "idle"]
  /\ signals' = [q \in Procs |-> {}]
  /\ mayRetry' = [q \in Procs |-> FALSE]
  /\ UNCHANGED <<stopReq, owner, report>>

OnProfile(p) ==
  \/ StopIdle(p)
  \/ StopBusy(p)
  \/ KillTimer(p)
  \/ StartBusy(p)
  \/ StartRefused(p)
  \/ StartConfigFails(p)
  \/ \E q \in Procs, S \in SUBSET StartKinds, compat, cdp, spawned \in BOOLEAN :
       Start(p, q, S, compat, cdp, spawned)

OnProc(q) ==
  \/ Started(q)
  \/ FailedToStart(q)
  \/ FinishedExpected(q)
  \/ \E respawned \in BOOLEAN : FinishedRetry(q, respawned)
  \/ \E exit \in Exits : FinishedLast(q, exit)
  \/ RunCheck(q)
  \/ PollAsk(q)
  \/ PollEnd(q)
  \/ PollNoAnswer(q)
  \/ PollAnswer(q)

Next ==
  \/ \E p \in Profiles : OnProfile(p)
  \/ \E q \in Procs : OnProc(q)
  \/ Destroy

Spec == Init /\ [][Next]_vars

(* A process that was sent SIGKILL ends. *)
KilledEnds(q) ==
  /\ "kill" \in signals[q]
  /\ \/ FinishedExpected(q)
     \/ \E respawned \in BOOLEAN : FinishedRetry(q, respawned)
     \/ \E exit \in Exits : FinishedLast(q, exit)

(* Qt's event loop delivers the timers; the operating system lets a spawned *)
(* process run or fail, and a killed one end.  A browser that is only asked *)
(* to terminate may ignore it; clients may stay silent.                     *)
FairSpec ==
  /\ Spec
  /\ \A p \in Profiles : WF_vars(KillTimer(p))
  /\ \A q \in Procs :
       /\ WF_vars(Started(q) \/ FailedToStart(q))
       /\ WF_vars(KilledEnds(q))
       /\ WF_vars(RunCheck(q))

-----------------------------------------------------------------------------
(* Every browser process that has not ended is the one its profile's table  *)
(* names, so a profile (and its data directory) never has two, through any  *)
(* order of start, stop, relaunch and failed start.                         *)
OneBrowserPerProfile == \A q \in Procs : Alive(q) => isCurrentProcess(q)

(* Every mapper, extension directory, runtime.json and CDP client that      *)
(* exists can still be found through the table of its profile, so a later   *)
(* launch, exit or the destructor releases it: no handler overwrites one.   *)
ResourcesTracked ==
  \A k \in Kinds : \A q \in live[k] : owner[q] # None /\ table[owner[q]][k] = q

(* "stopped" and "crashed" are only reported, and only stand, while no      *)
(* browser of the profile runs: a client may then use the data directory.   *)
StoppedMeansGone ==
  \A q \in Procs :
    Alive(q) => report[owner[q]] \notin {"stopped", "crashed"}

(* When the manager has been destroyed no file of a launch is left behind,  *)
(* whatever failed starts and stops came before.                            *)
DestroyLeavesNoFile == ~up => \A k \in Kinds : live[k] = {}

(* What a launch was given is not released under a browser that lives on,   *)
(* the compatibility relaunch included (it reuses the launch's arguments).  *)
BrowserKeepsItsResources ==
  [][\A k \in StartKinds : \A q \in live[k] \ live'[k] : state'[q] = "NotRunning"]_vars

(* A browser that profile.stop asked to terminate never comes back: the     *)
(* compatibility relaunch is for exits nobody asked for.                    *)
StoppedIsNotRelaunched ==
  [][\A q \in Procs :
       "term" \in signals[q] => ~(state[q] = "Running" /\ state'[q] = "Starting")]_vars

(* A browser that ignores the request to terminate is gone in the end.      *)
StopEndsBrowser ==
  \A q \in Procs : ("term" \in signals[q] /\ Alive(q)) ~> ~Alive(q)

(* The kill timer of a profile.stop is for the browser that stop was about: *)
(* only a process that was asked to terminate is killed.                    *)
KilledOnlyIfStopped ==
  [][\A q \in Procs : "kill" \in signals'[q] \ signals[q] => "term" \in signals[q]]_vars

(* A client that reads "stopping" reads another status in the end.          *)
StopIsAnswered ==
  \A p \in Profiles : (up /\ report[p] = "stopping") ~> (~up \/ report[p] # "stopping")
=============================================================================
