------------------------------ MODULE MCAgent ------------------------------
(* One profile, one proxy test with three URLs, so that two fetches can be *)
(* in flight, and three requests, visits of another client or deaths of    *)
(* the agent, in any mix: a start, a stop and a start, whose first launch  *)
(* leaves something to the second, or a request between two faults.        *)
EXTENDS Agent
=============================================================================
