----------------------------- MODULE MCTenancy -----------------------------
(* Onboarding for TLC: one domain and a subdomain of it. *)
EXTENDS Onboarding

CONSTANTS uni, lab, u2, o1
MCSuffixes == (uni :> <<uni>>) @@ (lab :> <<lab, uni>>)
MCDomainOf == [u \in Users |-> IF u = u2 THEN lab ELSE uni]
MCSeeded == {<<o1, uni>>}
MCScenarios ==
  {[features |-> {"inviting", "status"}, requests |-> 4, changes |-> 0],
   [features |-> {"inviting", "members"}, requests |-> 3, changes |-> 0],
   [features |-> {"inviting", "deleting"}, requests |-> 4, changes |-> 0],
   [features |-> {"inviting", "orgs", "signin"}, requests |-> 2, changes |-> 2],
   [features |-> {"members", "orgs"}, requests |-> 1, changes |-> 3],
   [features |-> {"creating", "deleting"}, requests |-> 3, changes |-> 0],
   [features |-> {"orgs", "signin"}, requests |-> 0, changes |-> 5]}
Symm == Permutations(Procs)
=============================================================================
