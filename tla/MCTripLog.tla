------------------------------- MODULE MCTripLog -------------------------------
(* Small instances of TripLog for TLC.                                      *)
EXTENDS TripLog

Sym == Permutations(Workers)
=============================================================================
