----------------------------- MODULE MCShardLease -----------------------------
(* Small instances of ShardLease for TLC.                                   *)
EXTENDS ShardLease, TLC

Sym == Permutations(Workers) \cup Permutations(Slots)
=============================================================================
