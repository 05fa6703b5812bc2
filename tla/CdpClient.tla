----------------------------- MODULE CdpClient -----------------------------
(***************************************************************************)
(* The agent's client of the browser's DevTools socket, and as much of the *)
(* browser as it talks to.  The client attaches to every page, sends it    *)
(* the overrides of the profile, and has it load its document again.  The  *)
(* browser runs commands in the order it gets them; pages come, go and     *)
(* navigate on their own.  m_pending, which nothing reads, is left out.    *)
(***************************************************************************)
EXTENDS BrowserLaunch, Sequences

CONSTANTS
  Pages,   \* targets of type "page"
  Others   \* targets of other types: workers, frames

ASSUME TargetsAssumption == Pages \cap Others = {} /\ "root" \notin Pages \cup Others

VARIABLES
  ws,        \* m_ws
  toBrowser, \* commands on their way
  toClient,  \* events on their way
  attachAll, \* the browser was told to attach to targets
  page,      \* what the browser has of a page
  seen       \* other targets the client was told of

cdpVars == <<ws, toBrowser, toClient, attachAll, page, seen>>

(* sendRoot, and what is sent to the session of a page. *)
RootCommands == {<<"root", "autoAttach">>, <<"root", "discover">>}
Overrides ==
  {"timezone", "geo", "userAgent", "touch", "headers", "script", "metrics"}
Methods == Overrides \cup {"Page.enable", "Network.enable", "reload", "navigate"}

\* overrides: those in force.  doc: those its document was loaded under.
\* settled: the client's reload has run.
NoPage == [open |-> FALSE, attached |-> FALSE, overrides |-> {}, doc |-> {}, settled |-> FALSE]

CdpTypeOK ==
  /\ ws \in {"none", "opening", "open", "closed"}
  /\ toBrowser \in Seq(RootCommands \cup (Pages \X Methods))
  /\ toClient \in Seq(Pages \cup Others)
  /\ attachAll \in BOOLEAN
  /\ page \in [Pages -> [open : BOOLEAN, attached : BOOLEAN, overrides : SUBSET Overrides,
                         doc : SUBSET Overrides, settled : BOOLEAN]]
  /\ seen \subseteq Others

CdpInit ==
  /\ ws = "none"
  /\ toBrowser = <<>> /\ toClient = <<>>
  /\ attachAll = FALSE
  /\ page = [p \in Pages |-> NoPage]
  /\ seen = {}

-----------------------------------------------------------------------------
(* The client                                                              *)

(* The fields that the script sets.  It is empty, and not sent, only if the *)
(* fingerprint is not left to the agent.                                     *)
buildInitScript(l) == l.override

(* What is sent to a page whose profile has plan l, in this order. *)
Wanted(l) ==
  LET on(f) == f \in l.override
      step(method, condition) == IF condition THEN <<method>> ELSE <<>>
  IN
  step("timezone", on("timezone")) \o step("geo", l.overrideGeo)
  \o step("Network.enable", on("userAgent") \/ on("language"))
  \o step("userAgent", on("userAgent")) \o step("touch", on("touch"))
  \o step("headers", on("language")) \o step("script", buildInitScript(l) # {})
  \o step("metrics", on("resolution") /\ l.metrics)

Load(l) == IF l.url THEN <<"navigate">> ELSE <<"reload">>

(* Mutant: the page is loaded first. *)
loadThenApply(l) == Load(l) \o Wanted(l)

(* applyToTarget and maybeReloadOrNavigate. *)
applyToTarget(l) == Wanted(l) \o Load(l)

sendToSession(p, methods) ==
  [i \in DOMAIN methods |-> <<p, methods[i]>>]

(* start; a launch has one client at most. *)
newClient ==
  /\ ws = "none"
  /\ ws' = "opening"
  /\ UNCHANGED <<toBrowser, toClient, attachAll, page, seen>>

onConnected ==
  /\ ws = "opening"
  /\ ws' = "open"
  /\ toBrowser' = <<<<"root", "autoAttach">>, <<"root", "discover">>>>
  /\ UNCHANGED <<toClient, attachAll, page, seen>>

(* Mutant: only the first page is attended to. *)
onFirstAttached(l) ==
  /\ ws = "open" /\ toClient # <<>>
  /\ toClient' = Tail(toClient)
  /\ toBrowser' = IF Head(toClient) \in Pages /\ \A p \in Pages : ~page[p].settled
                  THEN toBrowser \o sendToSession(Head(toClient), <<"Page.enable">> \o applyToTarget(l))
                  ELSE toBrowser
  /\ UNCHANGED <<ws, attachAll, page, seen>>

(* onTextMessage: Target.attachedToTarget. *)
onAttached(l) ==
  /\ ws = "open" /\ toClient # <<>>
  /\ toClient' = Tail(toClient)
  /\ toBrowser' = IF Head(toClient) \in Pages
                  THEN toBrowser \o sendToSession(Head(toClient), <<"Page.enable">> \o applyToTarget(l))
                  ELSE toBrowser
  /\ UNCHANGED <<ws, attachAll, page, seen>>

(* Mutant: the client is kept. *)
onlyPagesGone ==
  /\ UNCHANGED ws
  /\ toBrowser' = <<>> /\ toClient' = <<>>
  /\ attachAll' = FALSE
  /\ page' = [p \in Pages |-> NoPage]
  /\ seen' = {}

(* The browser is gone, and its pages with it: onClosed, or stop. *)
browserGone ==
  /\ ws' = IF ws = "none" THEN "none" ELSE "closed"
  /\ toBrowser' = <<>> /\ toClient' = <<>>
  /\ attachAll' = FALSE
  /\ page' = [p \in Pages |-> NoPage]
  /\ seen' = {}

-----------------------------------------------------------------------------
(* The browser                                                             *)

(* Commands to a page that is gone do nothing. *)
runCommand ==
  /\ ws = "open" /\ toBrowser # <<>>
  /\ toBrowser' = Tail(toBrowser)
  /\ LET p == Head(toBrowser)[1]
         method == Head(toBrowser)[2]
     IN
     /\ attachAll' = (attachAll \/ method = "autoAttach")
     /\ page' = IF p \notin Pages \/ ~page[p].attached THEN page
                ELSE IF method \in {"reload", "navigate"}
                  THEN [page EXCEPT ![p].doc = page[p].overrides, ![p].settled = TRUE]
                  ELSE [page EXCEPT ![p].overrides = @ \cup ({method} \cap Overrides)]
  /\ UNCHANGED <<ws, toClient, seen>>

attach(p) ==
  /\ ws = "open" /\ attachAll
  /\ page[p].open /\ ~page[p].attached
  /\ page' = [page EXCEPT ![p].attached = TRUE]
  /\ toClient' = Append(toClient, p)
  /\ UNCHANGED <<ws, toBrowser, attachAll, seen>>

attachOther(t) ==
  /\ ws = "open" /\ attachAll /\ t \notin seen
  /\ seen' = seen \cup {t}
  /\ toClient' = Append(toClient, t)
  /\ UNCHANGED <<ws, toBrowser, attachAll, page>>

(* It loads at once: no target waits for the debugger. *)
openPage(p) ==
  /\ ~page[p].open
  /\ \A i \in DOMAIN toClient : toClient[i] # p
  /\ \A i \in DOMAIN toBrowser : toBrowser[i][1] # p
  /\ page' = [page EXCEPT ![p] = [NoPage EXCEPT !.open = TRUE]]
  /\ UNCHANGED <<ws, toBrowser, toClient, attachAll, seen>>

closePage(p) ==
  /\ page[p].open
  /\ page' = [page EXCEPT ![p] = NoPage]
  /\ UNCHANGED <<ws, toBrowser, toClient, attachAll, seen>>

navigatePage(p) ==
  /\ page[p].open
  /\ page' = [page EXCEPT ![p].doc = page[p].overrides]
  /\ UNCHANGED <<ws, toBrowser, toClient, attachAll, seen>>
=============================================================================
