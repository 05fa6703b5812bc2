-------------------------- MODULE MCProxyTestBatch --------------------------
(* A small instance of ProxyTestBatch for TLC: one slot for two profiles,   *)
(* each tested twice, so that a profile waits, is tested again while its    *)
(* first answer or geo lookup is still on its way, and is deleted meanwhile.*)
EXTENDS ProxyTestBatch
=============================================================================
