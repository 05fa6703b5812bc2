--------------------------- MODULE ProfileConsole ---------------------------
(***************************************************************************)
(* The profiles in the console: the list, its selection, the checked ones, *)
(* the filtered view, the rows in the database, and the statuses, written  *)
(* when a request is made and again when the agent reports.  The database  *)
(* may refuse a write, the connection and the agent may go away, and the   *)
(* console may be closed and started again.  Of a row only its status is   *)
(* kept, and of all that the user edits, whether the database has it as it *)
(* is shown; "ended" stands for "stopped", "crashed" and "error".          *)
(*                                                                         *)
(* The agent is what ProfileRuntime.tla shows it to be, one profile at a   *)
(* time: messages of different profiles do not affect each other, so each  *)
(* profile has its own queues.                                             *)
(***************************************************************************)
EXTENDS Naturals, Sequences, FiniteSets

CONSTANTS
  Profiles,   \* ids, each given once
  MaxEvents,  \* bound: profiles, requests, lost connections and restarts, together
  MaxReports, \* bound: reports on their way
  MaxBehind   \* bound: rows whose last write failed

ASSUME ProfilesFinite == IsFiniteSet(Profiles)
ASSUME ConsoleBounds == MaxEvents \in Nat /\ MaxReports \in Nat /\ MaxBehind \in Nat

VARIABLES
  rows,       \* m_profiles
  selected,   \* m_selectedProfileIndex + 1
  checkedSet, \* m_checkedSet
  checkedIds, \* m_checkedIds
  onlyChecked, \* m_showOnlyChecked
  filter,     \* m_filtered: its checked ids and its only-checked flag
  stored,     \* the profiles in the database: their status, and whether the rest is
              \* as it is shown
  link,       \* the console's connection: none, the agent's peer, replaced as peer, dead
  toAgent,    \* requests on their way, by profile
  toConsole,  \* reports on their way, by profile
  proc,       \* the state of a profile's process in the agent's table
  stopReq,    \* m_stopRequested
  events,     \* requests, losses and restarts so far
  behind,     \* history: rows whose last write failed
  gone,       \* history: profiles deleted
  synced      \* history: profiles with a request or report on this connection

listVars  == <<rows, stored, behind>>
checkVars == <<checkedSet, checkedIds, onlyChecked, filter>>
tableVars == <<proc, stopReq>>
agentVars == <<link, toAgent, toConsole, tableVars, synced>>
vars == <<listVars, selected, checkVars, agentVars, events, gone>>

Statuses == {"starting", "running", "stopping", "ended"}

Listed == {rows[i].id : i \in DOMAIN rows}

TypeOK ==
  /\ rows \in Seq([id : Profiles, status : Statuses])
  /\ \A i, j \in DOMAIN rows : rows[i].id = rows[j].id => i = j
  /\ selected \in 0..Len(rows) /\ (rows # <<>> => selected # 0)
  /\ checkedSet \subseteq Profiles /\ checkedIds \subseteq Profiles
  /\ onlyChecked \in BOOLEAN
  /\ filter \in [checked : SUBSET Profiles, only : BOOLEAN]
  /\ DOMAIN stored \subseteq Profiles
  /\ \A p \in DOMAIN stored : stored[p] \in [status : Statuses, current : BOOLEAN]
  /\ link \in {"none", "peer", "replaced", "dead"}
  /\ toAgent \in [Profiles -> Seq({"start", "stop"})]
  /\ toConsole \in [Profiles -> Seq(Statuses)]
  /\ proc \in [Profiles -> {"NotRunning", "Starting", "Running"}]
  /\ stopReq \subseteq Profiles
  /\ events \in 0..MaxEvents
  /\ behind \subseteq Profiles /\ gone \subseteq Profiles /\ synced \subseteq Profiles

-----------------------------------------------------------------------------
(* Rows and the database                                                   *)

makeDefault(p) == [id |-> p, status |-> "ended"]

InDb(row) == [status |-> row.status, current |-> TRUE]

NoProcess == [p \in Profiles |-> "NotRunning"]
NoMessages == [p \in Profiles |-> <<>>]

Alive(p) == proc[p] # "NotRunning"

Known == Listed \cup DOMAIN stored \cup gone

WithinBound == Cardinality(Known) + events < MaxEvents

New == IF WithinBound THEN Profiles \ Known ELSE {}

RowIn(list, p) == list[CHOOSE i \in DOMAIN list : list[i].id = p]

(* An upsert of each of the rows ids, any of which the database may refuse; *)
(* old: what it has then.                                                   *)
persistProfile(ids, old) ==
  \E failed \in SUBSET ids :
    /\ behind' = (behind \ ids) \cup failed
    /\ Cardinality(behind') <= MaxBehind
    /\ stored' = [p \in DOMAIN stored \cup (ids \ failed) |->
                    IF p \in ids \ failed THEN InDb(RowIn(rows', p)) ELSE old[p]]

(* Mutant: the rows change on the screen only. *)
ShowStatus(ids, status) ==
  /\ rows' = [i \in DOMAIN rows |->
                IF rows[i].id \in ids THEN [rows[i] EXCEPT !.status = status] ELSE rows[i]]
  /\ UNCHANGED <<stored, behind>>

(* updateAt and persistProfile; that a write fails is only logged. *)
updateStatus(ids, status) ==
  /\ rows' = [i \in DOMAIN rows |->
                IF rows[i].id \in ids THEN [rows[i] EXCEPT !.status = status] ELSE rows[i]]
  /\ persistProfile(ids \cap Listed, stored)

edit(ids) ==
  /\ UNCHANGED rows
  /\ persistProfile(ids \cap Listed,
       [p \in DOMAIN stored |-> IF p \in ids THEN [stored[p] EXCEPT !.current = FALSE] ELSE stored[p]])

(* Every profile of the database, in some order (created_at). *)
Loaded(db) ==
  {order \in [1..Cardinality(DOMAIN db) -> DOMAIN db] :
     \A p \in DOMAIN db : \E i \in DOMAIN order : order[i] = p}

RowOf(db, p) == [id |-> p, status |-> db[p].status]

(* loadProfiles: every row of the database; a default profile, saved and    *)
(* listed even if not saved, when there is none or the read fails; nothing  *)
(* when the schema cannot be made.                                          *)
loadProfiles ==
  \/ /\ DOMAIN stored # {}
     /\ \E order \in Loaded(stored) : rows' = [i \in DOMAIN order |-> RowOf(stored, order[i])]
     /\ stored' = [p \in DOMAIN stored |-> [stored[p] EXCEPT !.current = TRUE]]
     /\ behind' = {}
  \/ \E p \in New :
       /\ rows' = <<makeDefault(p)>>
       /\ \/ stored' = stored /\ behind' = {p}
          \/ stored' = [q \in DOMAIN stored \cup {p} |->
                          IF q = p THEN InDb(makeDefault(p)) ELSE stored[q]] /\ behind' = {}
  \/ rows' = <<>> /\ behind' = {} /\ UNCHANGED stored

(* A new database holds the profiles of the file of an earlier version,     *)
(* with the statuses they have there, or the default profile.               *)
Init ==
  /\ \E imported \in (SUBSET Profiles) \ {{}}, s \in {"ended", "running"} :
       /\ stored = [p \in imported |-> [status |-> s, current |-> TRUE]]
       /\ \E order \in Loaded(stored) : rows = [i \in DOMAIN order |-> RowOf(stored, order[i])]
  /\ selected = 1
  /\ checkedSet = {} /\ checkedIds = {}
  /\ onlyChecked = FALSE
  /\ filter = [checked |-> {}, only |-> FALSE]
  /\ link = "none"
  /\ toAgent = [p \in Profiles |-> <<>>]
  /\ toConsole = [p \in Profiles |-> <<>>]
  /\ proc = NoProcess /\ stopReq = {}
  /\ events = 0
  /\ behind = {} /\ gone = {} /\ synced = {}

Event == WithinBound /\ events' = events + 1

-----------------------------------------------------------------------------
(* Checked profiles and the filtered view                                  *)

(* m_checkedSet has become ids; emitCheckedProfileIds tells the others, and *)
(* when nothing is checked any more every row is shown again.               *)
emitCheckedProfileIds(ids) ==
  /\ checkedSet' = ids
  /\ checkedIds' = ids
  /\ IF ids = checkedIds
     THEN UNCHANGED <<onlyChecked, filter>>
     ELSE LET off == onlyChecked /\ ids = {} IN
          /\ onlyChecked' = (onlyChecked /\ ~off)
          /\ filter' = [checked |-> ids, only |-> filter.only /\ ~off]

(* filterAcceptsRow; hits: the rows the group filter and the keyword take.  *)
Visible(hits) == {p \in Listed \cap hits : filter.only => p \in filter.checked}

Flip(ids) == (checkedSet \ ids) \cup (ids \ checkedSet)

Check(ids) ==
  /\ ids # checkedSet
  /\ emitCheckedProfileIds(ids)
  /\ UNCHANGED <<listVars, selected, agentVars, events, gone>>

setProfileChecked(p) == Check(checkedSet \cup {p}) \/ Check(checkedSet \ {p})

checkAllVisibleProfiles(hits) == Check(checkedSet \cup Visible(hits))
uncheckAllVisibleProfiles(hits) == Check(checkedSet \ Visible(hits))
invertCheckedVisibleProfiles(hits) == Check(Flip(Visible(hits)))

(* The same for a group, whether the view shows its profiles or not.        *)
checkGroupProfiles(group) == Check(checkedSet \cup group)
uncheckGroupProfiles(group) == Check(checkedSet \ group)
invertCheckedGroupProfiles(group) == Check(Flip(group))

clearCheckedProfiles == Check({})

setShowOnlyChecked ==
  /\ onlyChecked' = ~onlyChecked
  /\ filter' = [checked |-> checkedIds, only |-> ~onlyChecked]
  /\ UNCHANGED <<listVars, selected, checkedSet, checkedIds, agentVars, events, gone>>

-----------------------------------------------------------------------------
(* The list                                                                *)

select(i) ==
  /\ selected' = i
  /\ UNCHANGED <<listVars, checkVars, agentVars, events, gone>>

Selected == {rows[i].id : i \in DOMAIN rows \cap {selected}}

(* What a bulk operation is about. *)
Targets == IF checkedIds = {} THEN Selected ELSE checkedIds

createProfile ==
  \E p \in New :
    /\ rows' = Append(rows, makeDefault(p))
    /\ stored' = [q \in DOMAIN stored \cup {p} |->
                    IF q = p THEN InDb(makeDefault(p)) ELSE stored[q]]
    /\ selected' = Len(rows')
    /\ UNCHANGED <<behind, checkVars, agentVars, events, gone>>

(* The setters of the selected profile, given another value than it has. *)
updateSelectedProfileItem ==
  /\ Selected # {} /\ edit(Selected)
  /\ UNCHANGED <<selected, checkVars, agentVars, events, gone>>

setGroupForCheckedProfiles ==
  /\ Targets # {} /\ edit(Targets)
  /\ UNCHANGED <<selected, checkVars, agentVars, events, gone>>

(* Mutants of delete: the deleted stay checked; the index is not clamped. *)
stillChecked(ids) == checkedSet
sameIndex(len) == selected

unchecked(ids) == checkedSet \ ids
newIndex(len) == IF len < selected THEN len ELSE selected

(* The rows that are left when ids are removed. *)
without(ids) ==
  LET left[i \in 0..Len(rows)] ==
        IF i = 0 THEN <<>>
        ELSE IF rows[i].id \in ids THEN left[i - 1] ELSE Append(left[i - 1], rows[i])
  IN left[Len(rows)]

(* deleteCheckedProfiles, or deleteSelectedProfile when none is checked.    *)
(* One the database does not delete stays.  The agent is not told.          *)
deleteProfiles ==
  \E removed \in SUBSET (Targets \cap Listed) :
    /\ removed # {}
    /\ rows' = without(removed)
    /\ stored' = [p \in DOMAIN stored \ removed |-> stored[p]]
    /\ behind' = behind \ removed
    /\ gone' = gone \cup removed
    /\ emitCheckedProfileIds(unchecked(removed))
    /\ selected' = newIndex(Len(rows'))
    /\ UNCHANGED <<agentVars, events>>

-----------------------------------------------------------------------------
(* Requests and reports                                                    *)

(* IpcClient::send; into a dead connection it writes nothing. *)
request(ids, what) ==
  toAgent' = [p \in Profiles |->
                IF p \in ids /\ link \in {"peer", "replaced"} THEN Append(toAgent[p], what)
                ELSE toAgent[p]]

(* runCheckedProfiles and stopCheckedProfiles, or the selected profile: the *)
(* status is written as soon as the request is sent.                        *)
requestProfiles(what, status) ==
  /\ link # "none"
  /\ Targets # {} /\ Event
  /\ request(Targets, what)
  /\ updateStatus(Targets, status)
  /\ synced' = synced \cup Targets
  /\ UNCHANGED <<selected, checkVars, link, toConsole, tableVars, gone>>

runProfiles == requestProfiles("start", "starting")
stopProfiles == requestProfiles("stop", "stopping")

(* Mutant: a report only counts for the profile on show. *)
rowsOfShown(p) == {p} \cap Selected

rowsOf(p) == {p} \cap Listed

(* profileStatusReceived; the profile may be gone. *)
onProfileStatus(p) ==
  /\ toConsole[p] # <<>>
  /\ updateStatus(rowsOf(p), Head(toConsole[p]))
  /\ toConsole' = [toConsole EXCEPT ![p] = Tail(@)]
  /\ synced' = synced \cup {p}
  /\ UNCHANGED <<selected, checkVars, link, toAgent, tableVars, events, gone>>

-----------------------------------------------------------------------------
(* The agent                                                               *)

OnTheirWay == UNION {{p} \X DOMAIN toConsole[p] : p \in Profiles}

report(p, statuses) ==
  /\ Cardinality(OnTheirWay) + Len(statuses) <= MaxReports
  /\ toConsole' = IF link = "peer" THEN [toConsole EXCEPT ![p] = @ \o statuses] ELSE toConsole

takes(p, what) ==
  /\ link \in {"peer", "replaced"}
  /\ toAgent[p] # <<>> /\ Head(toAgent[p]) = what
  /\ toAgent' = [toAgent EXCEPT ![p] = Tail(@)]

becomes(p, state) == proc' = [proc EXCEPT ![p] = state]

(* profile.start: refused, launched, or failing at once under an old stop   *)
(* request, which silences the error.                                       *)
agentStart(p) ==
  /\ takes(p, "start")
  /\ \/ Alive(p) /\ report(p, <<"running">>) /\ UNCHANGED proc
     \/ ~Alive(p) /\ report(p, <<"starting", "ended">>) /\ UNCHANGED proc
     \/ ~Alive(p) /\ report(p, <<"starting">>) /\ becomes(p, "Starting")
     \/ ~Alive(p) /\ p \in stopReq /\ report(p, <<"starting">>) /\ UNCHANGED proc
  /\ UNCHANGED <<listVars, selected, checkVars, link, stopReq, synced, events, gone>>

agentStop(p) ==
  /\ takes(p, "stop")
  /\ \/ Alive(p) /\ report(p, <<"stopping">>) /\ stopReq' = stopReq \cup {p}
     \/ ~Alive(p) /\ report(p, <<"ended">>) /\ UNCHANGED stopReq
  /\ UNCHANGED <<listVars, selected, checkVars, link, proc, synced, events, gone>>

(* It starts, which nobody is told, or fails to. *)
browserStarts(p) ==
  /\ proc[p] = "Starting"
  /\ \/ becomes(p, "Running") /\ UNCHANGED toConsole
     \/ becomes(p, "NotRunning") /\ p \notin stopReq /\ report(p, <<"ended">>)
     \/ becomes(p, "NotRunning") /\ p \in stopReq /\ UNCHANGED toConsole
  /\ UNCHANGED <<listVars, selected, checkVars, link, toAgent, stopReq, synced, events, gone>>

(* The check 900 ms after a start. *)
runningCheck(p) ==
  /\ proc[p] = "Running" /\ report(p, <<"running">>)
  /\ UNCHANGED <<listVars, selected, checkVars, link, toAgent, tableVars, synced, events, gone>>

(* finished: as asked; or a first exit, followed by another start, which    *)
(* may fail at once; or the last.                                           *)
browserEnds(p) ==
  /\ proc[p] = "Running"
  /\ \/ p \in stopReq /\ report(p, <<"ended">>) /\ becomes(p, "NotRunning")
     \/ p \notin stopReq /\ report(p, <<"starting">>) /\ becomes(p, "Starting")
     \/ /\ p \notin stopReq /\ becomes(p, "NotRunning")
        /\ report(p, <<"starting", "ended">>) \/ report(p, <<"ended">>)
  /\ stopReq' = stopReq \ {p}
  /\ UNCHANGED <<listVars, selected, checkVars, link, toAgent, synced, events, gone>>

-----------------------------------------------------------------------------
(* Connections and restarts                                                *)

(* Another client takes the peer's place, and the socket of the old peer is *)
(* deleted soon after.                                                      *)
replaced ==
  /\ link = "peer" /\ Event
  /\ link' = "replaced"
  /\ UNCHANGED <<listVars, selected, checkVars, toAgent, toConsole, tableVars, synced, gone>>

oldPeerDeleted ==
  /\ link = "replaced"
  /\ link' = "dead" /\ toAgent' = NoMessages
  /\ UNCHANGED <<listVars, selected, checkVars, toConsole, tableVars, synced, events, gone>>

agentDies ==
  /\ Event
  /\ link' = IF link = "none" THEN "none" ELSE "dead"
  /\ toAgent' = NoMessages
  /\ proc' = NoProcess /\ stopReq' = {}
  /\ UNCHANGED <<listVars, selected, checkVars, toConsole, synced, gone>>

(* The connection is made again at once or later; no status is asked for.   *)
reconnect ==
  /\ link \in {"dead", "none"}
  /\ link' \in {"none", "peer"} \ {link}
  /\ toConsole' = NoMessages
  /\ synced' = {}
  /\ UNCHANGED <<listVars, selected, checkVars, toAgent, tableVars, events, gone>>

(* The console is closed, with its agent, and started again. *)
restart ==
  /\ Event
  /\ loadProfiles
  /\ selected' = IF rows' = <<>> THEN 0 ELSE 1
  /\ checkedSet' = {} /\ checkedIds' = {}
  /\ onlyChecked' = FALSE
  /\ filter' = [checked |-> {}, only |-> FALSE]
  /\ link' = "none"
  /\ toAgent' = NoMessages /\ toConsole' = NoMessages
  /\ proc' = NoProcess /\ stopReq' = {}
  /\ synced' = {}
  /\ UNCHANGED gone

-----------------------------------------------------------------------------
Next ==
  \/ createProfile \/ deleteProfiles
  \/ runProfiles \/ stopProfiles
  \/ replaced \/ oldPeerDeleted \/ agentDies \/ reconnect \/ restart
  \/ clearCheckedProfiles \/ setShowOnlyChecked
  \/ \E i \in DOMAIN rows : select(i)
  \/ updateSelectedProfileItem \/ setGroupForCheckedProfiles
  \/ \E group \in SUBSET Listed :
       \/ checkGroupProfiles(group) \/ uncheckGroupProfiles(group)
       \/ invertCheckedGroupProfiles(group)
  \/ \E hits \in SUBSET Profiles :
       \/ checkAllVisibleProfiles(hits) \/ uncheckAllVisibleProfiles(hits)
       \/ invertCheckedVisibleProfiles(hits)
  \/ \E p \in Listed : setProfileChecked(p)
  \/ \E p \in Profiles :
       \/ onProfileStatus(p)
       \/ agentStart(p) \/ agentStop(p)
       \/ browserStarts(p) \/ runningCheck(p) \/ browserEnds(p)

Spec == Init /\ [][Next]_vars

-----------------------------------------------------------------------------
Quiet(p) == link = "peer" /\ p \in synced /\ toAgent[p] = <<>> /\ toConsole[p] = <<>>

(* When nothing about a profile is on its way, and something about it was   *)
(* asked or reported on this connection, the status shown is no lie: one    *)
(* shown as running has a browser, one shown as ended has none              *)
(* (AppController.cpp:1633 and :1669 write ahead of the agent, :206 after   *)
(* it; deletes, edits and refused writes come in between).  The exception   *)
(* is a browser that fails to start under a stop request: the agent says    *)
(* nothing of it, so that a start in between leaves "running" standing.     *)
QuietStatusIsTrue ==
  \A i \in DOMAIN rows : LET p == rows[i].id IN
    Quiet(p) =>
      /\ rows[i].status = "running" => Alive(p) \/ p \in stopReq
      /\ Alive(p) => rows[i].status # "ended"

(* The database holds every listed profile as it is shown, unless its last  *)
(* write failed, and never again one that was deleted, whatever is reported *)
(* of it later (AppController.cpp:198-212, 455-468, 1717, 2304).            *)
StoredAsShown ==
  /\ \A i \in DOMAIN rows :
       rows[i].id \notin behind =>
         rows[i].id \in DOMAIN stored /\ stored[rows[i].id] = InDb(rows[i])
  /\ gone \cap (Listed \cup DOMAIN stored) = {}

(* The four copies of "checked" agree, and only listed profiles are         *)
(* checked, so that a bulk operation reaches exactly the profiles shown as  *)
(* checked (AppController.cpp:3282, 1702, 1853).                            *)
ViewsAgree ==
  /\ checkedSet = checkedIds /\ filter.checked = checkedIds
  /\ checkedSet \subseteq Listed
  /\ filter.only = onlyChecked
=============================================================================
