---------------------------- MODULE MCIngestSession ----------------------------
(* Small instances of IngestSession for TLC.                                *)
EXTENDS IngestSession, TLC

Sym == Permutations(Socks) \cup Permutations(Ids)
=============================================================================
