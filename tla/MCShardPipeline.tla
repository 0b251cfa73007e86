---------------------------- MODULE MCShardPipeline ----------------------------
(* Small instances of ShardPipeline for TLC.                                *)
EXTENDS ShardPipeline, TLC

Sym == Permutations(Workers) \cup Permutations(Key)
=============================================================================
