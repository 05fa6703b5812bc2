------------------------------ MODULE GeoLookup ------------------------------
(***************************************************************************)
(* AppController::applyProxyGeoToProfile: after a successful proxy test    *)
(* the language, timezone and position of the exit address are asked for,  *)
(* one provider after the other, and written to the profile.  Requests     *)
(* take any time to answer, and a profile may have several lookups under   *)
(* way, one for each successful test.                                      *)
(***************************************************************************)
EXTENDS Naturals, FiniteSetsExt

CONSTANTS
  Profiles,    \* profile ids
  MaxRequests, \* bound: proxy tests of one profile; they number its lookups
  Providers    \* how many provider URLs there are (3 in the code)

ASSUME GeoAssumption ==
  /\ MaxRequests \in Nat \ {0}
  /\ Providers \in Nat \ {0}

VARIABLES
  used,    \* *attempt of the lookup of a test: providers asked, 0 before it begins
  open,    \* the attempts of a lookup that wait for a reply
  settled, \* *sent: the lookup has had its answer
  geoOf    \* history: the test whose exit address the profile's geo belongs to

geoVars == <<used, open, settled, geoOf>>

Tests == 1..MaxRequests

GeoTypeOK ==
  /\ used \in [Profiles -> [Tests -> 0..Providers]]
  /\ open \in [Profiles -> [Tests -> SUBSET (1..Providers)]]
  /\ settled \in [Profiles -> [Tests -> BOOLEAN]]
  /\ geoOf \in [Profiles -> 0..MaxRequests]

GeoInit ==
  /\ used = [p \in Profiles |-> [t \in Tests |-> 0]]
  /\ open = [p \in Profiles |-> [t \in Tests |-> {}]]
  /\ settled = [p \in Profiles |-> [t \in Tests |-> FALSE]]
  /\ geoOf = [p \in Profiles |-> 0]

-----------------------------------------------------------------------------
(* Mutants: a failed attempt is asked again; the last provider is not the   *)
(* end; the lookup stops at the first failure.                              *)
AskAgain(p, t, done, n) ==
  /\ used' = [used EXCEPT ![p][t] = IF @ = 0 THEN 1 ELSE @]
  /\ open' = [open EXCEPT ![p][t] = IF used[p][t] = 0 THEN {1} ELSE IF n = 0 THEN @ \ done ELSE @]

AskBeyond(p, t, done, n) ==
  /\ used' = [used EXCEPT ![p][t] = @ + n]
  /\ open' = [open EXCEPT ![p][t] = (@ \ done) \cup (used[p][t] + 1)..(used[p][t] + n)]

AskOnce(p, t, done, n) ==
  /\ used' = [used EXCEPT ![p][t] = IF @ = 0 THEN 1 ELSE @]
  /\ open' = [open EXCEPT ![p][t] = IF used[p][t] = 0 THEN {1} ELSE @ \ done]

(* Attempts done are over and doAttempt runs n times: each asks the next    *)
(* provider while there is one.                                             *)
Ask(p, t, done, n) ==
  LET last == Min({used[p][t] + n, Providers})
  IN /\ used' = [used EXCEPT ![p][t] = last]
     /\ open' = [open EXCEPT ![p][t] = (@ \ done) \cup (used[p][t] + 1)..last]

(* Mutant: an answer counts although another one has come. *)
AnyAnswer(p, t) == TRUE

Unsettled(p, t) == ~settled[p][t]

(* The call that follows a successful test.                                 *)
Begin(p, t) == Ask(p, t, {}, 1) /\ UNCHANGED <<settled, geoOf>>

(* finished with a usable answer.  follow: the profile still exists and its *)
(* fingerprint mode is not "random".                                        *)
Usable(p, t, i, follow) ==
  /\ i \in open[p][t]
  /\ Ask(p, t, {i}, 0)
  /\ IF Unsettled(p, t)
       THEN /\ settled' = [settled EXCEPT ![p][t] = TRUE]
            /\ geoOf' = [geoOf EXCEPT ![p] = IF follow THEN t ELSE @]
       ELSE UNCHANGED <<settled, geoOf>>

(* finished with an error, a refusal or no timezone.                        *)
Unusable(p, t, i) ==
  /\ i \in open[p][t]
  /\ Ask(p, t, {i}, IF Unsettled(p, t) THEN 1 ELSE 0)
  /\ UNCHANGED <<settled, geoOf>>

(* 5000 ms: abort() emits finished before it returns, whose handler goes on *)
(* to the next provider, and then the timeout's own call does once more.    *)
Timeout(p, t, i) ==
  /\ i \in open[p][t]
  /\ Ask(p, t, {i}, IF Unsettled(p, t) THEN 2 ELSE 0)
  /\ UNCHANGED <<settled, geoOf>>

(* exists: the profile is still listed. *)
GeoNext(p, t, exists) ==
  \E i \in open[p][t] :
    \/ \E follow \in {FALSE, exists} : Usable(p, t, i, follow)
    \/ Unusable(p, t, i)
    \/ Timeout(p, t, i)

(* Tests succeed in the order they are made; not every test succeeds.       *)
GeoBegin ==
  \E p \in Profiles, t \in Tests :
    /\ \A u \in Tests : used[p][u] > 0 => u < t
    /\ Begin(p, t)

GeoSpec ==
  GeoInit /\ [][GeoBegin \/ \E p \in Profiles, t \in Tests : GeoNext(p, t, TRUE)]_geoVars

(* Every request is answered or times out.                                  *)
GeoFairSpec ==
  /\ GeoSpec
  /\ \A p \in Profiles, t \in Tests :
       WF_geoVars(\E i \in open[p][t] : Timeout(p, t, i))

-----------------------------------------------------------------------------
(* A lookup writes to its profile once, though a timeout may leave two of   *)
(* its attempts under way and both may answer.                              *)
WritesOnce ==
  [][\A p \in Profiles : geoOf'[p] # geoOf[p] => ~settled[p][geoOf'[p]]]_geoVars

(* A lookup that ends without an answer has asked every provider.           *)
AsksEveryProvider ==
  \A p \in Profiles, t \in Tests :
    used[p][t] \in 1..(Providers - 1) => open[p][t] # {} \/ settled[p][t]

(* A lookup ends.                                                           *)
LookupEnds == \A p \in Profiles, t \in Tests : open[p][t] # {} ~> open[p][t] = {}

(* The geo data of a profile is that of its newest exit address: the answer *)
(* of an older lookup never replaces that of a newer one.                   *)
GeoFollowsNewestTest == [][\A p \in Profiles : geoOf[p] <= geoOf'[p]]_geoVars
=============================================================================
