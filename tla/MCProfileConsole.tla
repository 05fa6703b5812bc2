-------------------------- MODULE MCProfileConsole --------------------------
(* Profiles are interchangeable: nothing orders or names them. *)
EXTENDS ProfileConsole, TLC

Symmetry == Permutations(Profiles)
=============================================================================
