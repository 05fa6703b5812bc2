------------------------ MODULE MCProfileRepository ------------------------
(* A small instance of ProfileRepository for TLC: two consoles, and fewer   *)
(* proxies than are wanted.                                                 *)
EXTENDS ProfileRepository, TLC

(* The two consoles are alike, and so are the profiles and the proxies.     *)
Symmetry == Permutations(Consoles) \cup Permutations(Profiles) \cup Permutations(Proxies)
=============================================================================
