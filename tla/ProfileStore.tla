---------------------------- MODULE ProfileStore ----------------------------
(***************************************************************************)
(* What the database of profiles and proxies promises to the consoles that *)
(* have it open: each writing operation of ProfileRepository happens at    *)
(* once or not at all, its answer tells which, and a proxy is never given  *)
(* to two profiles.  ProfileRepository, with its transactions of several   *)
(* statements, implements this.                                            *)
(***************************************************************************)
EXTENDS Naturals, FiniteSetsExt

CONSTANTS
  Profiles, \* profile ids
  Proxies,  \* ids of proxies, imported or not
  Consoles, \* running consoles, each with its connection to the database
  Keep,     \* how many rows of a history table a profile keeps (100 or 500)
  None

ASSUME KeepAssumption == Keep \in Nat \ {0}
ASSUME NoneIsNoProxy == None \notin Proxies
ASSUME ConfigsDistinct == "direct" \notin Proxies /\ "manual" \notin Proxies

VARIABLES
  db,    \* what is committed
  answer \* what the last call of a console returned, "none" while it runs

storeVars == <<db, answer>>

(* What a profile's row of proxy_configs says: no proxy, one the user typed *)
(* in, or one of the pool.                                                  *)
Configs == {"direct", "manual"} \cup Proxies

(* listed: profiles.  config: proxy_configs.  holds: proxy_assignments.     *)
(* pool: proxies.  rows: how many rows of history a profile has.            *)
Databases(limit) ==
  [listed : SUBSET Profiles,
   config : [Profiles -> Configs],
   holds  : [Profiles -> Proxies \cup {None}],
   pool   : SUBSET Proxies,
   rows   : [Profiles -> 0..limit]]

NoRows(d, f) == d.config[f] = "direct" /\ d.holds[f] = None /\ d.rows[f] = 0

(* The proxies that no profile holds. *)
Free(d) == {x \in d.pool : \A f \in Profiles : d.holds[f] # x}

StoreInit ==
  /\ db = [listed |-> {}, config |-> [f \in Profiles |-> "direct"],
           holds |-> [f \in Profiles |-> None], pool |-> {}, rows |-> [f \in Profiles |-> 0]]
  /\ answer = [c \in Consoles |-> "none"]

-----------------------------------------------------------------------------
(* What each operation writes                                              *)

Saved(d, f, config) == [d EXCEPT !.listed = @ \cup {f}, !.config[f] = config]

(* The rows of other tables go with the profile (ON DELETE CASCADE). *)
Removed(d, f) ==
  [d EXCEPT !.listed = @ \ {f}, !.config[f] = "direct", !.holds[f] = None, !.rows[f] = 0]

Imported(d, lines) == [d EXCEPT !.pool = @ \cup lines]

Given(d, f, x) == [d EXCEPT !.holds[f] = x, !.config[f] = x]

Released(d, f) == [d EXCEPT !.holds[f] = None, !.config[f] = "direct"]

Recorded(d, f) == [d EXCEPT !.rows[f] = Min({@ + 1, Keep})]

-----------------------------------------------------------------------------
Succeeds(c, d) ==
  /\ db' = d
  /\ answer' = [answer EXCEPT ![c] = "ok"]

Fails(c) ==
  /\ answer' = [answer EXCEPT ![c] = "failed"]
  /\ UNCHANGED db

(* A call begins, or the console is killed. *)
Waits(c) ==
  /\ answer' = [answer EXCEPT ![c] = "none"]
  /\ UNCHANGED db

save(c, f) == \E config \in Configs : Succeeds(c, Saved(db, f, config))

remove(c, f) == Succeeds(c, Removed(db, f))

import(c) == \E lines \in SUBSET Proxies : Succeeds(c, Imported(db, lines))

(* assignNextAvailableProxyToProfile and rotateProxyForProfile *)
give(c, f) == f \in db.listed /\ \E x \in Free(db) : Succeeds(c, Given(db, f, x))

release(c, f) == f \in db.listed /\ Succeeds(c, Released(db, f))

record(c, f) == f \in db.listed /\ Succeeds(c, Recorded(db, f))

StoreNext ==
  \E c \in Consoles :
    \/ Waits(c)
    \/ Fails(c)
    \/ import(c)
    \/ \E f \in Profiles :
         save(c, f) \/ remove(c, f) \/ give(c, f) \/ release(c, f) \/ record(c, f)

StoreSpec == StoreInit /\ [][StoreNext]_storeVars

-----------------------------------------------------------------------------
(* A profile that is not listed has no rows left, a proxy that is held is   *)
(* in the pool, and no proxy is held by two profiles.                       *)
StoreOK ==
  /\ db \in Databases(Keep)
  /\ \A f \in Profiles \ db.listed : NoRows(db, f)
  /\ \A f \in Profiles : db.holds[f] \in db.pool \cup {None}
  /\ \A f, g \in Profiles : db.holds[f] = db.holds[g] /\ db.holds[f] # None => f = g
=============================================================================
