--------------------------- MODULE ProxyTestCall ---------------------------
(***************************************************************************)
(* What the agent promises to whoever asks it to test a proxy: a test that *)
(* was asked for is answered once, or lost because the connection or the   *)
(* agent was, and it does not stay open.                                   *)
(***************************************************************************)
CONSTANT Tests

VARIABLE call

CallInit == call = [t \in Tests |-> "idle"]

(* A request may be written into a connection that is already dead. *)
Ask(t) ==
  /\ call[t] = "idle"
  /\ \E s \in {"asked", "lost"} : call' = [call EXCEPT ![t] = s]

Answer(t) ==
  /\ call[t] = "asked"
  /\ call' = [call EXCEPT ![t] = "answered"]

(* A connection takes all that was to come over it with it. *)
Lose(lost) ==
  /\ \A t \in lost : call[t] = "asked"
  /\ call' = [t \in Tests |-> IF t \in lost THEN "lost" ELSE call[t]]

CallNext ==
  \/ \E t \in Tests : Ask(t) \/ Answer(t)
  \/ \E lost \in (SUBSET Tests) \ {{}} : Lose(lost)

Settles == \A t \in Tests : call[t] = "asked" ~> call[t] # "asked"

CallSpec == CallInit /\ [][CallNext]_call /\ Settles
=============================================================================
