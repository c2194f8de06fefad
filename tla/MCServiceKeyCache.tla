------------------------- MODULE MCServiceKeyCache -------------------------
(* ServiceKeyCache for TLC.  Apps, keys and requests are interchangeable. *)
EXTENDS ServiceKeyCache, TLC

Symm == Permutations(Apps) \cup Permutations(ApiKeys) \cup Permutations(Procs)
=============================================================================
