------------------------------ MODULE MCAlertGate ------------------------------
(* Small instances of AlertGate for TLC.                                    *)
EXTENDS AlertGate, TLC

Sym == Permutations(Workers) \cup Permutations(Channels)
=============================================================================
