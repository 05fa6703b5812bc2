-------------------------- MODULE ProfileRepository --------------------------
(***************************************************************************)
(* The writing operations of ProfileRepository, statement by statement,    *)
(* for consoles that have the same database file open: nothing keeps a     *)
(* second one from being started.  A statement may fail, a commit may      *)
(* fail, a console may be killed between two statements.  SQLite itself    *)
(* (locks, rollback, constraints) is modelled from how it is used here.    *)
(***************************************************************************)
EXTENDS ProfileStore

VARIABLES
  call, \* the operation a console is in: its name, profile, argument and next statement
  lock, \* the lock a connection has on the file
  work  \* what its open transaction sees and has written

vars == <<db, answer, call, lock, work>>

Operations == {"save", "remove", "import", "assign", "rotate", "release", "record"}

Idle == [op |-> "none", profile |-> None, arg |-> None, lines |-> {}, at |-> "none"]

Statements == {"pick", "check", "delete", "insert", "profile", "config", "line",
               "row", "trim", "remove", "commit"}

(* arg: the config of a save, the proxy that was picked, "direct" for a     *)
(* release.  lines: what an import has left.                                *)
Calls ==
  [op : Operations, profile : Profiles \cup {None}, arg : Configs \cup {None},
   lines : SUBSET Proxies, at : Statements]

TypeOK ==
  /\ StoreOK
  /\ answer \in [Consoles -> {"none", "ok", "failed"}]
  /\ call \in [Consoles -> Calls \cup {Idle}]
  /\ lock \in [Consoles -> {"none", "shared", "reserved"}]
  /\ work \in [Consoles -> Databases(Keep + 1) \cup {None}]

Init ==
  /\ StoreInit
  /\ call = [c \in Consoles |-> Idle]
  /\ lock = [c \in Consoles |-> "none"]
  /\ work = [c \in Consoles |-> None]

-----------------------------------------------------------------------------
(* SQLite: readers and one writer at a time see a private copy; a commit    *)
(* waits until nobody else has the file locked.                             *)

View(c) == IF lock[c] = "none" THEN db ELSE work[c]

Reads(c) ==
  /\ lock' = [lock EXCEPT ![c] = IF @ = "none" THEN "shared" ELSE @]
  /\ work' = [work EXCEPT ![c] = View(c)]

Writes(c, d) ==
  /\ \A other \in Consoles \ {c} : lock[other] # "reserved"
  /\ lock' = [lock EXCEPT ![c] = "reserved"]
  /\ work' = [work EXCEPT ![c] = d]

MayCommit(c) == \A other \in Consoles \ {c} : lock[other] = "none"

(* Mutant: the connection stays as it is from one call to the next. *)
KeepOpen(c) == UNCHANGED <<lock, work>>

(* The transaction is over, or lost with its connection. *)
Unlock(c) ==
  /\ lock' = [lock EXCEPT ![c] = "none"]
  /\ work' = [work EXCEPT ![c] = None]

(* ensureSchema opens the connection anew for every call: a transaction     *)
(* whose commit has failed ends here.                                       *)
Reopen(c) == Unlock(c)

-----------------------------------------------------------------------------
At(c, op, statement) == call[c].op = op /\ call[c].at = statement

Goto(c, statement) == call' = [call EXCEPT ![c].at = statement]

Begin(c, op, f, arg, lines, first) ==
  /\ call[c] = Idle
  /\ call' = [call EXCEPT ![c] = [op |-> op, profile |-> f, arg |-> arg,
                                 lines |-> lines, at |-> first]]
  /\ Reopen(c)
  /\ Waits(c)

upsert(c, f, config) == Begin(c, "save", f, config, {}, "profile")

removeProfile(c, f) == Begin(c, "remove", f, None, {}, "remove")

importProxyPool(c, lines) == Begin(c, "import", None, None, lines, "line")

assignNextAvailableProxyToProfile(c, f) == Begin(c, "assign", f, None, {}, "pick")

rotateProxyForProfile(c, f) == Begin(c, "rotate", f, None, {}, "pick")

releaseProxyFromProfile(c, f) == Begin(c, "release", f, "direct", {}, "delete")

(* insertRunEvent, insertLogLine of a profile, insertProxyTestRun *)
insertRow(c, f) == Begin(c, "record", f, None, {}, "row")

-----------------------------------------------------------------------------
(* The statements of the transactions; f is the profile of the call         *)

(* assignNext picks before the transaction begins, rotate inside it.  Which *)
(* of the free proxies comes first is left open.                            *)
PickForAssign(c) ==
  /\ At(c, "assign", "pick")
  /\ \E x \in Free(db) :
       call' = [call EXCEPT ![c].arg = x, ![c].at = "check"]
  /\ UNCHANGED <<db, answer, lock, work>>

PickForRotate(c) ==
  /\ At(c, "rotate", "pick")
  /\ \E x \in Free(View(c)) :
       call' = [call EXCEPT ![c].arg = x, ![c].at = "delete"]
  /\ Reads(c)
  /\ UNCHANGED <<db, answer>>

(* Is the picked proxy still free? *)
Check(c) ==
  /\ At(c, "assign", "check")
  /\ call[c].arg \in Free(View(c))
  /\ Reads(c)
  /\ Goto(c, "delete")
  /\ UNCHANGED <<db, answer>>

Delete(c) ==
  /\ call[c].at = "delete"
  /\ Writes(c, [View(c) EXCEPT !.holds[call[c].profile] = None])
  /\ Goto(c, IF call[c].op = "release" THEN "config" ELSE "insert")
  /\ UNCHANGED <<db, answer>>

(* The foreign key and the unique index on proxy_id. *)
Insert(c) ==
  /\ call[c].at = "insert"
  /\ call[c].profile \in View(c).listed
  /\ \A g \in Profiles : View(c).holds[g] # call[c].arg
  /\ Writes(c, [View(c) EXCEPT !.holds[call[c].profile] = call[c].arg])
  /\ Goto(c, "config")
  /\ UNCHANGED <<db, answer>>

(* upsertProxyConfigForProfile, and the second statement of upsert (its      *)
(* third, on the OpenVPN settings, fails and succeeds in the same way).      *)
Config(c) ==
  /\ call[c].at = "config"
  /\ call[c].profile \in View(c).listed
  /\ Writes(c, [View(c) EXCEPT !.config[call[c].profile] = call[c].arg])
  /\ Goto(c, "commit")
  /\ UNCHANGED <<db, answer>>

Profile(c) ==
  /\ call[c].at = "profile"
  /\ Writes(c, [View(c) EXCEPT !.listed = @ \cup {call[c].profile}])
  /\ Goto(c, "config")
  /\ UNCHANGED <<db, answer>>

(* One line of an import: a new proxy, or one whose password and remark are *)
(* replaced.                                                                *)
Line(c) ==
  /\ call[c].at = "line"
  /\ \E x \in call[c].lines :
       /\ Writes(c, [View(c) EXCEPT !.pool = @ \cup {x}])
       /\ call' = [call EXCEPT ![c].lines = @ \ {x},
                               ![c].at = IF call[c].lines = {x} THEN "commit" ELSE "line"]
  /\ UNCHANGED <<db, answer>>

Row(c) ==
  /\ call[c].at = "row"
  /\ call[c].profile \in View(c).listed
  /\ Writes(c, [View(c) EXCEPT !.rows[call[c].profile] = @ + 1])
  /\ Goto(c, "trim")
  /\ UNCHANGED <<db, answer>>

(* Mutant: a row too many is kept. *)
KeptAndOne(n) == Min({n, Keep + 1})

Kept(n) == Min({n, Keep})

(* enforceRetention *)
Trim(c) ==
  /\ call[c].at = "trim"
  /\ Writes(c, [View(c) EXCEPT !.rows[call[c].profile] = Kept(@)])
  /\ Goto(c, "commit")
  /\ UNCHANGED <<db, answer>>

-----------------------------------------------------------------------------
(* The ends of a call *)

Returns(c) == call' = [call EXCEPT ![c] = Idle]

Commit(c) ==
  /\ call[c].at = "commit"
  /\ MayCommit(c)
  /\ Returns(c)
  /\ Succeeds(c, work[c])
  /\ Unlock(c)

(* One statement outside a transaction. *)
RemoveOne(c) ==
  /\ call[c].at = "remove"
  /\ MayCommit(c)
  /\ Returns(c)
  /\ Succeeds(c, Removed(db, call[c].profile))
  /\ UNCHANGED <<lock, work>>

(* Any statement may fail (also because the file is locked), and nothing    *)
(* may be picked; the transaction, if there is one, is rolled back.         *)
StatementFails(c) ==
  /\ call[c] # Idle
  /\ call[c].at # "commit"
  /\ Returns(c)
  /\ Fails(c)
  /\ Unlock(c)

(* The code returns without a rollback: the transaction stays open. *)
CommitFails(c) ==
  /\ call[c].at = "commit"
  /\ Returns(c)
  /\ Fails(c)
  /\ UNCHANGED <<lock, work>>

(* The console is killed, and started again. *)
Killed(c) ==
  /\ Returns(c)
  /\ Waits(c)
  /\ Unlock(c)

Next ==
  \E c \in Consoles :
    \/ \E f \in Profiles, config \in Configs : upsert(c, f, config)
    \/ \E f \in Profiles : removeProfile(c, f)
    \/ \E lines \in (SUBSET Proxies) \ {{}} : importProxyPool(c, lines)
    \/ \E f \in Profiles : assignNextAvailableProxyToProfile(c, f)
    \/ \E f \in Profiles : rotateProxyForProfile(c, f)
    \/ \E f \in Profiles : releaseProxyFromProfile(c, f)
    \/ \E f \in Profiles : insertRow(c, f)
    \/ PickForAssign(c)
    \/ PickForRotate(c)
    \/ Check(c)
    \/ Delete(c)
    \/ Insert(c)
    \/ Config(c)
    \/ Profile(c)
    \/ Line(c)
    \/ Row(c)
    \/ Trim(c)
    \/ Commit(c)
    \/ RemoveOne(c)
    \/ StatementFails(c)
    \/ CommitFails(c)
    \/ Killed(c)

Spec == Init /\ [][Next]_vars

-----------------------------------------------------------------------------
(* Whatever fails, is killed or is done by another console in between, an   *)
(* operation happens at once or not at all, and its answer is true.         *)
ImplementsStore == StoreSpec
=============================================================================
