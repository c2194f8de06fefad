----------------------- MODULE MCWorkspaceMembership -----------------------
(* WorkspaceMembership for TLC: users and requests are interchangeable. *)
EXTENDS WorkspaceMembership, TLC

Symm == Permutations(Users) \cup Permutations(Procs)
=============================================================================
