----------------------------- MODULE MCSignIn ------------------------------
(* Sign-in for TLC: one person at GitHub, one at Entra, and accounts that
   share their address. *)
EXTENDS HostedPages

CONSTANTS gh, ent, u1, u2, w1, o1, uni, s1, s2, l1, l2, x1, x2, crm, lab, p1, p2
MCSuffixes == uni :> <<uni>>
MCDomainOf == [u \in Users |-> uni]
MCProvider == (gh :> "github") @@ (ent :> "entra_id")
MCEmails == (gh :> {u1}) @@ (ent :> {u1, u2})
MCScopeOf == (s1 :> crm) @@ (s2 :> lab)
MCAudiences == (s1 :> {}) @@ (s2 :> {x2})
MCAppOf == (l1 :> x1) @@ (l2 :> x2)
MCSeeded == {<<o1, uni>>}
MCMembers == {<<w1, u1>>}
MCScenarios ==
  {[features |-> {"spa", "tokens"}, requests |-> 5],
   [features |-> {"onboard"}, requests |-> 6],
   [features |-> {"proxy"}, requests |-> 5],
   [features |-> {"authz", "accounts", "tokens"}, requests |-> 3],
   [features |-> {"admin", "authz", "accounts"}, requests |-> 3],
   [features |-> {"admin", "tokens"}, requests |-> 2],
   [features |-> {"authz", "orgs"}, requests |-> 4]}
Symm == Permutations(Procs)
=============================================================================
