-------------------------- MODULE BrowserSession ---------------------------
(***************************************************************************)
(* One launch of a browser from the request to the end: what the agent     *)
(* decided, the browser process and the relaunch it is given, the wait for *)
(* its DevTools port, the CDP client and the proxy mapper.                 *)
(***************************************************************************)
EXTENDS CdpClient, HttpProxyMapper

CONSTANTS
  Offered, \* launches to consider: pairs of a request and a world
  MaxPolls \* attempts to reach the DevTools port

ASSUME OfferedAssumption == Offered \subseteq Requests \X Worlds
ASSUME MaxPollsAssumption == MaxPolls \in Nat \ {0}

VARIABLES
  launch,  \* what was decided for the launch
  process, \* the browser: "up", or "again" after the relaunch
  polls    \* attempts left

vars == <<launch, process, polls, cdpVars, mapperVars>>

(* native: what the binary does itself.  extension: its files can be       *)
(* written.                                                                 *)
Plans ==
  [native : SUBSET Capabilities, fields : SUBSET Fields, geo : BOOLEAN,
   override : SUBSET Fields, overrideGeo : BOOLEAN, metrics : BOOLEAN, url : BOOLEAN,
   cdp : BOOLEAN, extension : BOOLEAN, injected : SUBSET Fields, mapper : BOOLEAN,
   compat : BOOLEAN]

(* Types; and no client and no connection without a live browser, nor for  *)
(* a launch that shall have none: what cleanup promises.                   *)
TypeOK ==
  /\ launch \in Plans
  /\ process \in {"none", "up", "again", "ended"}
  /\ polls \in 0..MaxPolls
  /\ CdpTypeOK /\ MapperTypeOK
  /\ ws # "none" => launch.cdp
  /\ client # "none" => launch.mapper
  /\ process \in {"none", "ended"} => ws \notin {"opening", "open"} /\ client # "open"

Init ==
  /\ launch = NoPlan
  /\ process = "none"
  /\ polls = 0
  /\ CdpInit
  /\ MapperInit

alive == process \in {"up", "again"}

-----------------------------------------------------------------------------
(* startProfile, once the executable is known. *)
startRefused(r, w) ==
  /\ process = "none" /\ refused(r, w)
  /\ process' = "ended"
  /\ UNCHANGED <<launch, polls, cdpVars, mapperVars>>

startProfile(r, w) ==
  /\ process = "none" /\ ~refused(r, w)
  /\ process' = "up"
  /\ launch' = plan(r, w)
  /\ polls' = IF plan(r, w).cdp THEN MaxPolls ELSE 0
  /\ UNCHANGED <<cdpVars, mapperVars>>

(* attachCdpWhenReady: isActive, then /json/version, then a client. *)
pollAnswered ==
  /\ alive /\ polls > 0
  /\ polls' = 0
  /\ newClient
  /\ UNCHANGED <<launch, process, mapperVars>>

pollFails ==
  /\ alive /\ polls > 0
  /\ polls' = polls - 1
  /\ UNCHANGED <<launch, process, cdpVars, mapperVars>>

(* finished, the first time: the same arguments and the compatibility      *)
(* ones.  The poll goes on, and nothing starts it anew.                     *)
browserRelaunched ==
  /\ process = "up" /\ ~launch.compat
  /\ process' = "again"
  /\ browserGone /\ connectionEnds
  /\ UNCHANGED <<launch, polls>>

(* finished, with nothing to try again, or on request: cleanup.            *)
browserEnds ==
  /\ alive
  /\ process' = "ended"
  /\ polls' = 0
  /\ browserGone /\ connectionEnds
  /\ UNCHANGED launch

cdpStep ==
  /\ alive
  /\ \/ onConnected
     \/ onAttached(launch)
     \/ runCommand
     \/ \E p \in Pages : attach(p) \/ openPage(p) \/ closePage(p) \/ navigatePage(p)
     \/ \E t \in Others : attachOther(t)
  /\ UNCHANGED <<launch, process, polls, mapperVars>>

mapperStep ==
  /\ alive /\ launch.mapper
  /\ \/ \E k \in {"plain", "connect"} : onNewConnection(k)
     \/ \E n \in 1..4 : onClientReadyRead(n) \/ onUpstreamReadyRead(n)
     \/ onUpstreamConnected
     \/ upstreamFails
     \/ onUpstreamDisconnected
     \/ client = "open" /\ connectionEnds
  /\ UNCHANGED <<launch, process, polls, cdpVars>>

(* It ends, and may have nothing left to do. *)
Next ==
  \/ \E o \in Offered : startRefused(o[1], o[2]) \/ startProfile(o[1], o[2])
  \/ pollAnswered
  \/ pollFails
  \/ browserRelaunched
  \/ browserEnds
  \/ cdpStep
  \/ mapperStep

(* The browser and the client attend to what they are sent. *)
Fairness ==
  /\ WF_vars(onAttached(launch) /\ UNCHANGED <<launch, process, polls, mapperVars>>)
  /\ WF_vars(runCommand /\ UNCHANGED <<launch, process, polls, mapperVars>>)
  /\ \A p \in Pages :
       WF_vars(attach(p) /\ UNCHANGED <<launch, process, polls, mapperVars>>)

Spec == Init /\ [][Next]_vars /\ Fairness

-----------------------------------------------------------------------------
(* Overrides without which a field shows the machine's own value. *)
Enforcing(f) ==
  CASE f = "timezone"   -> {"timezone", "script"}
    [] f = "userAgent"  -> {"userAgent", "script"}
    [] f = "language"   -> {"headers", "script"}
    [] f = "touch"      -> {"touch", "script"}
    [] f = "hardware"   -> {"script"}
    [] f = "resolution" -> {}

LeftToAgent == IF "native_fingerprint" \in launch.native THEN {} ELSE launch.fields

(* On a page the client has attended to, a field of the profile that the   *)
(* browser does not fake itself is in force for the document shown: CDP    *)
(* was told of it before the page was loaded, however the probe went and   *)
(* whatever the profile declares.  A page not attended to, or of a         *)
(* relaunched browser, has the arguments and, if it could be written, the  *)
(* extension: they carry all of the fields left to the agent.              *)
PagesCovered ==
  LET geoLeft == launch.geo /\ "native_geoip" \notin launch.native IN
  /\ \A p \in Pages : page[p].settled =>
       /\ \A f \in LeftToAgent : Enforcing(f) \subseteq page[p].doc
       /\ geoLeft => "geo" \in page[p].doc
  /\ alive =>
       /\ launch.extension => LeftToAgent \subseteq launch.injected
       /\ geoLeft => launch.overrideGeo

(* A page open while the client is connected is told its overrides and     *)
(* loaded again, whenever it was opened: every page target, not the first. *)
PageSettles ==
  \A p \in Pages :
    (ws = "open" /\ page[p].open) ~> (page[p].settled \/ ~page[p].open \/ ws # "open")
=============================================================================
