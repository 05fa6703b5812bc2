------------------------- MODULE MCProfileRuntime -------------------------
(* Small instances of ProfileRuntime for TLC: one profile with two         *)
(* launches, so that what the first leaves behind (a timer, a check, an    *)
(* attach chain, a stop request) meets the second.                         *)
EXTENDS ProfileRuntime
=============================================================================
