------------------------- MODULE MCProxyPoolBatch -------------------------
(* Small instances of ProxyPoolBatch for TLC: fewer slots than proxies, and *)
(* batches enough for a replaced and a cancelled one to answer into a later *)
(* one.                                                                     *)
EXTENDS ProxyPoolBatch
=============================================================================
