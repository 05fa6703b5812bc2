----------------------------- MODULE MCGeoLookup -----------------------------
(* Small instances of GeoLookup for TLC: the three providers of the code,   *)
(* and lookups of one profile that overlap.                                 *)
EXTENDS GeoLookup
=============================================================================
