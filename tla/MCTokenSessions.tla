-------------------------- MODULE MCTokenSessions --------------------------
(* TokenSessions for TLC: sets of model values, and the symmetries that are
   sound because no definition names a particular pair or handler. *)
EXTENDS TokenSessions, TLC

Symm == Permutations(Pairs) \cup Permutations(Procs)
=============================================================================
