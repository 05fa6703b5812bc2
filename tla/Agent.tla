------------------------------- MODULE Agent -------------------------------
(***************************************************************************)
(* The agent and its console over the local socket: IpcServer, which keeps *)
(* one peer and sends every status to whoever is the peer then, IpcClient, *)
(* which reconnects, framing in both directions, and behind the server     *)
(* OpenVpnManager and ProxyTestRunner.  Another client (a second console,  *)
(* the smoke test) may connect and take the peer's place, and again when   *)
(* it has lost it; the agent may die and be started again.  Agent and      *)
(* console have one thread each: a read of the socket handles all whole    *)
(* frames before anything else runs.                                       *)
(***************************************************************************)
EXTENDS OpenVpn, FramedJsonSocket, ProxyTestRunner, FiniteSets, Functions

CONSTANTS
  MaxEvents \* bound: requests of the console, connections of another client and
            \* deaths of the agent, together

ASSUME AgentBound == MaxEvents \in Nat

VARIABLES
  agentUp,   \* the agent process runs and listens
  faults,    \* how often it died or another client connected
  conn,      \* connections in the order they were made: by whom, and how they are
  peer,      \* m_peer, 0 for none
  old,       \* peers replaced whose deleteLater has not run
  toAgent,   \* per connection, what its client sends
  toClient,  \* per connection, what the agent sends
  socket,    \* IpcClient: the connection of m_socket, 0 for none
  connected, \* m_connected
  retry,     \* m_retryTimer is active
  requests,  \* VPN requests made
  asked,     \* tests the console asked for
  answers,   \* how many results came for a test
  shown      \* m_vpnStatusByProfileId

serverVars == <<agentUp, faults, peer, old>>
clientVars == <<socket, connected, retry>>
userVars   == <<requests, asked, answers, shown>>
wires      == <<toAgent, toClient>>
vars == <<serverVars, conn, wires, clientVars, userVars, vpnVars, test>>

MaxConns == 1 + 2 * MaxEvents
Conns    == DOMAIN conn
Statuses == {"running", "stopped", "stopping", "crashed", "error"}

Requests == [type : {"vpn.start"}, profile : Profiles, request : StartRequests]
  \cup [type : {"vpn.stop"}, profile : Profiles] \cup [type : {"proxy.test"}, test : Tests]
Replies == [type : {"vpn.status"}, profile : Profiles, status : Statuses]
  \cup [type : {"result"}, test : Tests, ok : BOOLEAN]

Streams(messages) ==
  LET bytes == Seq([of : messages, at : 1..FrameBytes]) IN [wire : bytes, buffer : bytes]

TypeOK ==
  /\ agentUp \in BOOLEAN /\ connected \in BOOLEAN /\ retry \in BOOLEAN
  /\ faults \in 0..MaxEvents
  /\ Len(conn) <= MaxConns
  /\ conn \in Seq([by : {"console", "other"}, state : {"pending", "open", "closed"}])
  /\ peer \in 0..Len(conn)
  /\ old \subseteq Conns
  /\ toAgent \in Seq(Streams(Requests)) /\ Len(toAgent) = Len(conn)
  /\ toClient \in Seq(Streams(Replies)) /\ Len(toClient) = Len(conn)
  /\ socket \in 0..Len(conn)
  /\ requests \in 0..MaxEvents
  /\ asked \subseteq Tests
  /\ answers \in [Tests -> Nat]
  /\ shown \in [Profiles -> Statuses]
  /\ VpnTypeOK
  /\ TestTypeOK(0..Len(conn))

Init ==
  /\ agentUp = FALSE /\ faults = 0
  /\ conn = <<>> /\ peer = 0 /\ old = {}
  /\ toAgent = <<>> /\ toClient = <<>>
  /\ socket = 0 /\ connected = FALSE /\ retry = FALSE
  /\ requests = 0
  /\ asked = {}
  /\ answers = [t \in Tests |-> 0]
  /\ shown = [p \in Profiles |-> "stopped"]
  /\ VpnInit
  /\ TestInit

WithinBound(k) == requests + Cardinality(asked) + faults + k <= MaxEvents

-----------------------------------------------------------------------------
(* What the agent sends                                                    *)

IsOpen(c) == c # 0 /\ conn[c].state = "open"

sendTo(c, messages) ==
  toClient' = IF IsOpen(c) THEN [toClient EXCEPT ![c] = send(@, messages)] ELSE toClient

Status(p, s) == [type |-> "vpn.status", profile |-> p, status |-> s]

(* The status callback sends to the peer of the moment. *)
toPeer(p, statuses) ==
  sendTo(peer, [i \in DOMAIN statuses |-> Status(p, statuses[i])])

Result(t, ok) == [type |-> "result", test |-> t, ok |-> ok]

(* Mutant: the result goes to the peer of the moment. *)
toAnyone(t, asker, oks) == sendTo(peer, [i \in DOMAIN oks |-> Result(t, oks[i])])

(* The result callback holds a QPointer to the peer of the request. *)
toAsker(t, asker, oks) == sendTo(asker, [i \in DOMAIN oks |-> Result(t, oks[i])])

(* Frames wait in m_buffer only within one run of onReadyRead. *)
AgentIdle == agentUp /\ \A c \in Conns : ~HasFrame(toAgent[c])

-----------------------------------------------------------------------------
(* Agent: the socket                                                       *)

(* onNewConnection takes all that wait; the last of them is the peer. *)
onNewConnection ==
  LET pending == {c \in Conns : conn[c].state = "pending"}
      last == CHOOSE c \in pending : \A d \in pending : d <= c
  IN
  /\ AgentIdle /\ pending # {}
  /\ conn' = [c \in Conns |-> IF c \in pending THEN [conn[c] EXCEPT !.state = "open"] ELSE conn[c]]
  /\ peer' = last
  /\ old' = (old \cup pending \cup {peer}) \ {0, last}
  /\ UNCHANGED <<agentUp, faults, wires, clientVars, userVars, vpnVars, test>>

(* deleteLater of replaced peers: their sockets close. *)
deletePeers ==
  /\ AgentIdle /\ old # {}
  /\ conn' = [c \in Conns |-> IF c \in old THEN [conn[c] EXCEPT !.state = "closed"] ELSE conn[c]]
  /\ toAgent' = [c \in Conns |-> IF c \in old THEN NewStream ELSE toAgent[c]]
  /\ old' = {}
  /\ UNCHANGED <<agentUp, faults, peer, toClient, clientVars, userVars, vpnVars, test>>

(* Bytes arrive from the peer, or from one that waits to be deleted. *)
agentReads(c) ==
  /\ AgentIdle /\ c \in old \cup {peer}
  /\ \E k \in 1..Len(toAgent[c].wire) : toAgent' = [toAgent EXCEPT ![c] = readAll(@, k)]
  /\ UNCHANGED <<serverVars, conn, toClient, clientVars, userVars, vpnVars, test>>

(* onPeerJson answers to m_peer, whoever the frame came from. *)
onPeerJson(c) ==
  LET obj == payload(toAgent[c]) IN
  /\ agentUp /\ HasFrame(toAgent[c])
  /\ toAgent' = [toAgent EXCEPT ![c] = removeFrame(@)]
  /\ \/ /\ obj.type \in {"vpn.start", "vpn.stop"}
        /\ \E said \in Said :
             /\ \/ obj.type = "vpn.start" /\ startOpenVpn(obj.profile, obj.request, said)
                \/ obj.type = "vpn.stop" /\ stopOpenVpn(obj.profile, said)
             /\ toPeer(obj.profile, said)
        /\ UNCHANGED test
     \/ /\ obj.type = "proxy.test"
        /\ \E oks \in Oks : start(obj.test, peer, oks) /\ toAsker(obj.test, peer, oks)
        /\ UNCHANGED vpnVars
  /\ UNCHANGED <<serverVars, conn, clientVars, userVars>>

-----------------------------------------------------------------------------
(* Agent: OpenVPN processes and fetches                                    *)

VpnEvent(n) ==
  /\ AgentIdle
  /\ \E said \in Said :
       /\ \/ vpnStarted(n, said)
          \/ vpnFailedToStart(n, said)
          \/ vpnFinished(n, said)
       /\ toPeer(launch[n].profile, said)
  /\ UNCHANGED <<serverVars, conn, toAgent, clientVars, userVars, test>>

StopTimer(n) ==
  /\ AgentIdle
  /\ stopTimeout(n)
  /\ UNCHANGED <<serverVars, conn, wires, clientVars, userVars, test>>

TestEvent(t, k) ==
  /\ AgentIdle
  /\ \E oks \in Oks :
       /\ finished(t, k, oks) \/ timeout(t, k, oks)
       /\ toAsker(t, test[t].asker, oks)
  /\ UNCHANGED <<serverVars, conn, toAgent, clientVars, userVars, vpnVars>>

(* Killed by stopAgent, which is terminate() and then kill(), or crashed:  *)
(* no destructor runs.                                                     *)
agentDies ==
  /\ agentUp /\ WithinBound(1)
  /\ agentUp' = FALSE
  /\ faults' = faults + 1
  /\ peer' = 0 /\ old' = {}
  /\ conn' = [c \in Conns |-> [conn[c] EXCEPT !.state = "closed"]]
  /\ toAgent' = [c \in Conns |-> NewStream]
  /\ abandonOpenVpn
  /\ abandonTests
  /\ UNCHANGED <<toClient, clientVars, userVars>>

-----------------------------------------------------------------------------
(* Console: IpcClient                                                      *)

ConsoleIdle == socket # 0 => ~HasFrame(toClient[socket])

newConnection(by) ==
  /\ conn' = Append(conn, [by |-> by, state |-> "pending"])
  /\ toAgent' = Append(toAgent, NewStream)
  /\ toClient' = Append(toClient, NewStream)

(* connectToServer with attachSocket. *)
attachSocket ==
  /\ newConnection("console")
  /\ socket' = Len(conn) + 1
  /\ connected' = TRUE
  /\ retry' = FALSE

(* The agent is started; the console then calls connectToAgent, whose      *)
(* first attempt may come too early for the agent.                         *)
startAgent ==
  /\ ~agentUp
  /\ agentUp' = TRUE
  /\ retry' = ~connected
  /\ UNCHANGED <<faults, peer, old, conn, wires, socket, connected, userVars, vpnVars, test>>

(* tryConnectOnce, from the 500 ms timer; without an agent it fails. *)
tryConnectOnce ==
  /\ retry /\ agentUp
  /\ attachSocket
  /\ UNCHANGED <<serverVars, userVars, vpnVars, test>>

(* Mutant: a lost connection is not made again. *)
disconnectedForGood ==
  /\ ConsoleIdle /\ connected /\ conn[socket].state = "closed"
  /\ connected' = FALSE
  /\ toClient' = [toClient EXCEPT ![socket] = NewStream]
  /\ UNCHANGED <<serverVars, conn, toAgent, socket, retry, userVars, vpnVars, test>>

(* What was not read by now is lost; connectToAgent tries at once and      *)
(* leaves the rest to the timer.                                           *)
onDisconnected ==
  /\ ConsoleIdle /\ connected /\ conn[socket].state = "closed"
  /\ \/ /\ agentUp
        /\ conn' = Append(conn, [by |-> "console", state |-> "pending"])
        /\ toAgent' = Append(toAgent, NewStream)
        /\ toClient' = Append([toClient EXCEPT ![socket] = NewStream], NewStream)
        /\ socket' = Len(conn) + 1
        /\ UNCHANGED <<connected, retry>>
     \/ /\ ~agentUp
        /\ toClient' = [toClient EXCEPT ![socket] = NewStream]
        /\ connected' = FALSE
        /\ retry' = TRUE
        /\ UNCHANGED <<conn, toAgent, socket>>
  /\ UNCHANGED <<serverVars, userVars, vpnVars, test>>

consoleReads ==
  /\ ConsoleIdle /\ connected
  /\ \E k \in 1..Len(toClient[socket].wire) :
       toClient' = [toClient EXCEPT ![socket] = readAll(@, k)]
  /\ UNCHANGED <<serverVars, conn, toAgent, clientVars, userVars, vpnVars, test>>

onJsonReceived ==
  LET obj == payload(toClient[socket]) IN
  /\ ~ConsoleIdle
  /\ toClient' = [toClient EXCEPT ![socket] = removeFrame(@)]
  /\ \/ /\ obj.type = "vpn.status"
        /\ shown' = [shown EXCEPT ![obj.profile] = obj.status]
        /\ UNCHANGED answers
     \/ /\ obj.type = "result"
        /\ answers' = [answers EXCEPT ![obj.test] = @ + 1]
        /\ UNCHANGED shown
  /\ UNCHANGED <<serverVars, conn, toAgent, clientVars, requests, asked, vpnVars, test>>

-----------------------------------------------------------------------------
(* Console: the user                                                       *)

(* IpcClient::send, message by message; into a closed socket it writes     *)
(* nothing.                                                                *)
Sends(messages) ==
  /\ ConsoleIdle /\ connected
  /\ toAgent' = IF conn[socket].state = "closed" THEN toAgent
                ELSE [toAgent EXCEPT ![socket] = send(@, messages)]
  /\ UNCHANGED <<serverVars, conn, toClient, clientVars, answers, shown, vpnVars, test>>

(* The checked profiles in their order, or the selected one. *)
Targets ==
  {s \in UNION {[1..n -> Profiles] : n \in 1..Cardinality(Profiles)} : IsInjective(s)}

startCheckedVpns(targets) ==
  /\ WithinBound(Len(targets))
  /\ requests' = requests + Len(targets)
  /\ \E r \in [DOMAIN targets -> StartRequests] :
       Sends([i \in DOMAIN targets |->
               [type |-> "vpn.start", profile |-> targets[i], request |-> r[i]]])
  /\ UNCHANGED asked

stopCheckedVpns(targets) ==
  /\ WithinBound(Len(targets))
  /\ requests' = requests + Len(targets)
  /\ Sends([i \in DOMAIN targets |-> [type |-> "vpn.stop", profile |-> targets[i]]])
  /\ UNCHANGED asked

sendProxyTestRequest(t) ==
  /\ t \notin asked /\ WithinBound(1)
  /\ asked' = asked \cup {t}
  /\ Sends(<<[type |-> "proxy.test", test |-> t]>>)
  /\ UNCHANGED requests

-----------------------------------------------------------------------------
(* Another client                                                          *)

(* A tool connects once.  A second console runs the same IpcClient: as     *)
(* soon as it reads that it was replaced it connects again, which is this  *)
(* step once more.  Nothing but MaxEvents would end that: without the      *)
(* bound two consoles take each other's place for ever.                    *)
otherConnects ==
  /\ agentUp /\ WithinBound(1)
  /\ faults' = faults + 1
  /\ newConnection("other")
  /\ UNCHANGED <<agentUp, peer, old, clientVars, userVars, vpnVars, test>>

(* onPeerDisconnected only logs: the agent keeps its peer. *)
otherLeaves(c) ==
  /\ IsOpen(c) /\ conn[c].by = "other"
  /\ conn' = [conn EXCEPT ![c].state = "closed"]
  /\ toClient' = [toClient EXCEPT ![c] = NewStream]
  /\ UNCHANGED <<serverVars, toAgent, clientVars, userVars, vpnVars, test>>

-----------------------------------------------------------------------------
Next ==
  \/ onNewConnection \/ deletePeers \/ agentDies \/ startAgent
  \/ tryConnectOnce \/ onDisconnected \/ consoleReads \/ onJsonReceived
  \/ otherConnects
  \/ \E c \in Conns : agentReads(c) \/ onPeerJson(c) \/ otherLeaves(c)
  \/ \E n \in Launches : VpnEvent(n) \/ StopTimer(n)
  \/ \E t \in Tests : sendProxyTestRequest(t) \/ \E k \in 1..Urls : TestEvent(t, k)
  \/ \E targets \in Targets : startCheckedVpns(targets) \/ stopCheckedVpns(targets)

(* Socket events and timers of either process happen when they are due; a  *)
(* fetch ends, or its timer ends it.  Nothing is assumed of the user, of   *)
(* OpenVPN or of the other client, which need not come again.              *)
Fairness ==
  /\ WF_vars(onNewConnection) /\ WF_vars(deletePeers)
  /\ WF_vars(tryConnectOnce) /\ WF_vars(onDisconnected)
  /\ WF_vars(consoleReads) /\ WF_vars(onJsonReceived)
  /\ WF_vars(\E c \in Conns : agentReads(c) \/ onPeerJson(c))
  /\ \A t \in Tests : WF_vars(\E k \in 1..Urls : TestEvent(t, k))

Spec == Init /\ [][Next]_vars

FairSpec == Spec /\ Fairness

-----------------------------------------------------------------------------
(* Every stream is made of whole frames, however the bytes were cut; the   *)
(* reader's buffer starts with a header (FramedJsonSocket.cpp:58-82).      *)
FramesWhole == \A c \in Conns : Whole(toAgent[c]) /\ Whole(toClient[c])

(* A result is only on its way to the connection that was the peer when    *)
(* its request was read: a client that connected since never gets it       *)
(* (IpcServer.cpp:212, 223).                                               *)
ResultToAsker ==
  \A c \in Conns : \A i \in DOMAIN Waiting(toClient[c]) :
    LET m == Waiting(toClient[c])[i] IN m.type = "result" => test[m.test].asker = c

(* As long as the console's first connection lasts, a profile whose VPN it *)
(* shows as running, with nothing on its way, has an OpenVPN process       *)
(* (AppController.cpp:336 believes the last report; OpenVpnManager.cpp:82  *)
(* and :153 make it true).                                                 *)
RunningIsRunning ==
  \A p \in Profiles :
    (/\ Conns = {1} /\ conn[1] = [by |-> "console", state |-> "open"]
     /\ toAgent[1] = NewStream /\ toClient[1] = NewStream
     /\ shown[p] = "running")
      => \E n \in Launches : launch[n].profile = p /\ IsAlive(n)

(* Where a test is, as its asker sees it. *)
OnItsWay(t) ==
  \/ \E c \in Conns : \E i \in DOMAIN Waiting(toAgent[c]) :
       Waiting(toAgent[c])[i] = [type |-> "proxy.test", test |-> t]
  \/ Running(t) /\ test[t].asker = socket /\ IsOpen(socket)
  \/ /\ socket # 0
     /\ \E ok \in BOOLEAN : \E i \in DOMAIN Waiting(toClient[socket]) :
          Waiting(toClient[socket])[i] = Result(t, ok)

CallState(t) ==
  IF t \notin asked THEN "idle"
  ELSE IF answers[t] = 1 THEN "answered"
  ELSE IF answers[t] > 1 THEN "answered twice"
  ELSE IF OnItsWay(t) THEN "asked" ELSE "lost"

Call == INSTANCE ProxyTestCall WITH call <- [t \in Tests |-> CallState(t)]

(* Sockets, framing, reconnection and the attempts of the runner together  *)
(* give what ProxyTestCall promises: a test is answered at most once, is   *)
(* lost only for good, and does not stay open (IpcServer.cpp:222,          *)
(* ProxyTestRunner.cpp:147, 197).  That it does not stay open needs no end *)
(* of the visits of other clients: a visit loses what it interrupts.       *)
CallsSettled == Call!CallSpec

(* No other client comes any more.  Two consoles that both stay at one     *)
(* agent never leave it at that: each connects again at once when it is    *)
(* replaced (IpcClient.cpp:81), and replaces the other (IpcServer.cpp:57). *)
OthersStayAway == <>[][~otherConnects]_vars

(* When the agent stays up and other clients stay away, the console ends   *)
(* up as the agent's peer again, whatever happened before: deaths of the   *)
(* agent, other clients in its place (IpcClient.cpp:76, 38).               *)
Reconnects ==
  <>[]agentUp /\ OthersStayAway => <>[](connected /\ peer = socket /\ IsOpen(socket))
=============================================================================
