---------------------------- MODULE MCGeofenceWatch ----------------------------
(* Small instances of GeofenceWatch for TLC.                                *)
EXTENDS GeofenceWatch

Sym == Permutations(Workers)
=============================================================================
