------------------------------ MODULE OpenVpn ------------------------------
(***************************************************************************)
(* OpenVpnManager of the agent: at most one OpenVPN process per profile,   *)
(* and the temporary file that gives it the password of a SOCKS proxy.     *)
(* Launches are numbered; launch n writes password file n.  The statuses   *)
(* that an action hands to its status callback are its parameter said.     *)
(***************************************************************************)
EXTENDS Naturals, Sequences

CONSTANT Profiles \* profile ids

VARIABLES
  vpnProcess, \* m_processByProfileId: the launch, 0 for none
  vpnFile,    \* m_socksAuthFileByProfileId: the launch that wrote it, 0 for none
  files,      \* the password files on disk
  launch,     \* every launch: its profile, the state of its process, and
              \* whether it was given a password file
  stopTimer   \* launches with a pending 1500 ms timer

vpnVars == <<vpnProcess, vpnFile, files, launch, stopTimer>>

(* A request that validationError refuses, one without credentials and one *)
(* with.                                                                   *)
StartRequests == {"invalid", "plain", "password"}

(* What one action may report. *)
Said == {<<>>, <<"running">>, <<"stopped">>, <<"stopping">>, <<"error">>, <<"error", "crashed">>}

(* "failed": it never ran, its QProcess is NotRunning; "orphan": the agent *)
(* that launched it is gone.                                               *)
States == {"starting", "running", "killed", "failed", "ended", "orphan"}
Alive  == {"starting", "running", "killed"}
Launches == DOMAIN launch

VpnTypeOK ==
  /\ launch \in Seq([profile : Profiles, state : States, password : BOOLEAN])
  /\ vpnProcess \in [Profiles -> {0} \cup Launches]
  /\ vpnFile \in [Profiles -> {0} \cup Launches]
  /\ files \subseteq Launches
  /\ stopTimer \subseteq Launches

VpnInit ==
  /\ vpnProcess = [p \in Profiles |-> 0]
  /\ vpnFile = [p \in Profiles |-> 0]
  /\ files = {}
  /\ launch = <<>>
  /\ stopTimer = {}

IsAlive(n) == n # 0 /\ launch[n].state \in Alive

SetState(n, s) == launch' = [launch EXCEPT ![n].state = s]

-----------------------------------------------------------------------------
(* vpn.openvpn.start                                                       *)

(* The password file cannot be created: the old entry is gone by then. *)
passwordFileFails(p) ==
  /\ vpnProcess' = [vpnProcess EXCEPT ![p] = 0]
  /\ UNCHANGED <<vpnFile, files, launch, stopTimer>>

(* The path of an earlier file is overwritten in the table. *)
launchOpenVpn(p, request) ==
  LET n == Len(launch) + 1
      written == IF request = "password" THEN {n} ELSE {}
  IN
  /\ vpnProcess' = [vpnProcess EXCEPT ![p] = n]
  /\ launch' = Append(launch, [profile |-> p, state |-> "starting",
                               password |-> request = "password"])
  /\ files' = files \cup written
  /\ vpnFile' = [vpnFile EXCEPT ![p] = IF written = {} THEN @ ELSE n]
  /\ UNCHANGED stopTimer

(* Mutant: only a process that has started counts. *)
hasStarted(p) == vpnProcess[p] # 0 /\ launch[vpnProcess[p]].state \in {"running", "killed"}

(* Mutant: an entry is enough. *)
hasEntry(p) == vpnProcess[p] # 0

(* What start looks at: a process of the profile that is not NotRunning. *)
hasProcess(p) == IsAlive(vpnProcess[p])

startOpenVpn(p, request, said) ==
  \/ /\ request = "invalid"
     /\ said = <<"error">>
     /\ UNCHANGED vpnVars
  \/ /\ request # "invalid" /\ hasProcess(p)
     /\ said = <<"running">>
     /\ UNCHANGED vpnVars
  \/ /\ request = "password" /\ ~hasProcess(p)
     /\ passwordFileFails(p)
     /\ said = <<"error">>
  \/ /\ request # "invalid" /\ ~hasProcess(p)
     /\ launchOpenVpn(p, request)
     /\ said = <<>>

-----------------------------------------------------------------------------
(* Signals of the process                                                  *)

vpnStarted(n, said) ==
  /\ launch[n].state = "starting"
  /\ SetState(n, "running")
  /\ said = <<"running">>
  /\ UNCHANGED <<vpnProcess, vpnFile, files, stopTimer>>

(* errorOccurred(FailedToStart): the entry and the password file stay. *)
vpnFailedToStart(n, said) ==
  /\ launch[n].state = "starting"
  /\ SetState(n, "failed")
  /\ said = <<"error">>
  /\ UNCHANGED <<vpnProcess, vpnFile, files, stopTimer>>

(* Mutant: the entry is dropped and the file stays. *)
dropAuthFile(p) ==
  /\ vpnFile' = [vpnFile EXCEPT ![p] = 0]
  /\ UNCHANGED files

(* Removes the file that is in the table, if there is one. *)
cleanupAuthFile(p) ==
  /\ vpnFile' = [vpnFile EXCEPT ![p] = 0]
  /\ files' = files \ {vpnFile[p]}

(* finished; if a signal ended the process, errorOccurred(Crashed) was *)
(* reported before it.                                                 *)
vpnFinished(n, said) ==
  LET p == launch[n].profile IN
  \E crash \in BOOLEAN :
    /\ launch[n].state \in {"running", "killed"}
    /\ SetState(n, "ended")
    /\ vpnProcess' = [vpnProcess EXCEPT ![p] = 0]
    /\ cleanupAuthFile(p)
    /\ said = IF crash THEN <<"error", "crashed">> ELSE <<"stopped">>
    /\ UNCHANGED stopTimer

-----------------------------------------------------------------------------
(* vpn.openvpn.stop: terminate asks the process to exit, which it may do   *)
(* at any time or not at all.                                              *)
stopOpenVpn(p, said) ==
  \/ /\ vpnProcess[p] = 0
     /\ said = <<"stopped">>
     /\ UNCHANGED vpnVars
  \/ /\ vpnProcess[p] # 0
     /\ stopTimer' = stopTimer \cup {vpnProcess[p]}
     /\ said = <<"stopping">>
     /\ UNCHANGED <<vpnProcess, vpnFile, files, launch>>

(* Mutant: the timer looks the process up again, by profile. *)
stopTimeoutByProfile(n) ==
  LET m == vpnProcess[launch[n].profile] IN
  /\ n \in stopTimer
  /\ stopTimer' = stopTimer \ {n}
  /\ launch' = IF IsAlive(m) THEN [launch EXCEPT ![m].state = "killed"] ELSE launch
  /\ UNCHANGED <<vpnProcess, vpnFile, files>>

(* The timer holds a pointer to the QProcess of its stop. *)
stopTimeout(n) ==
  /\ n \in stopTimer
  /\ stopTimer' = stopTimer \ {n}
  /\ launch' = IF IsAlive(n) THEN [launch EXCEPT ![n].state = "killed"] ELSE launch
  /\ UNCHANGED <<vpnProcess, vpnFile, files>>

(* The agent dies without its destructors: its tables are gone, what they *)
(* named is not.                                                          *)
abandonOpenVpn ==
  /\ vpnProcess' = [p \in Profiles |-> 0]
  /\ vpnFile' = [p \in Profiles |-> 0]
  /\ stopTimer' = {}
  /\ launch' = [n \in Launches |->
                  IF IsAlive(n) THEN [launch[n] EXCEPT !.state = "orphan"] ELSE launch[n]]
  /\ UNCHANGED files

-----------------------------------------------------------------------------
(* A profile has at most one OpenVPN process of this agent, and the table  *)
(* points to it (OpenVpnManager.cpp:81 is the only thing that sees to it). *)
OneOpenVpn ==
  \A n \in Launches : IsAlive(n) => vpnProcess[launch[n].profile] = n

(* The password file of a process that may still read it is on disk, and   *)
(* one that no table entry names was left by a launch that never ran or by *)
(* an agent that died (OpenVpnManager.cpp:106, 155).                       *)
PasswordFiles ==
  /\ \A n \in Launches : IsAlive(n) /\ launch[n].password => n \in files
  /\ \A n \in files :
       \/ vpnFile[launch[n].profile] = n
       \/ launch[n].state \in {"failed", "orphan"}

(* A kill hits only the launch whose own stop was asked for 1500 ms ago,   *)
(* never one started since (OpenVpnManager.cpp:185).                       *)
KillsOnlyStopped ==
  [][\A n \in Launches :
       launch'[n].state = "killed" /\ launch[n].state # "killed" => n \in stopTimer]_vpnVars
=============================================================================
