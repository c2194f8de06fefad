-------------------------- MODULE MCAccessControl --------------------------
(* Access control for TLC: one realm member, one standalone app; and the signals
   beside it, which share no state with it but the activity log.              *)
EXTENDS AccessControl, Signals

VARIABLE part

CONSTANTS a1, a2, r1, r2, crm, lab, w1, w2, u1, u2, g1, g2, ro1, ro2, doc, run, p1
MCStart ==
  [service |-> (a1 :> [name |-> crm, realm |-> None, active |-> TRUE]) @@ [a \in Apps |-> None],
   realm |-> (r1 :> [slug |-> lab, active |-> TRUE]) @@ [m \in Realms |-> None],
   member |-> (w1 :> (u1 :> "owner" @@ u2 :> "viewer")) @@ (w2 :> (u1 :> "admin" @@ u2 :> None)),
   groupWs |-> (g1 :> w1) @@ [g \in Groups |-> None],
   inGroup |-> {<<g1, u2>>},
   roleWs |-> (ro1 :> w1) @@ [r \in RoleIds |-> None],
   registered |-> {<<crm, run>>},
   roleAction |-> {<<ro1, <<crm, run>>>>},
   perm |-> (p1 :> [svc |-> crm, res |-> doc, ws |-> w1, owner |-> u1, vis |-> "private"])
              @@ [x \in PermIds |-> None]]
MCScenarios ==
  {[features |-> {"registry"}, requests |-> 4],
   [features |-> {"registry", "services"}, requests |-> 3],
   [features |-> {"services", "admin"}, requests |-> 3],
   [features |-> {"rbac", "members"}, requests |-> 4],
   [features |-> {"members", "admin"}, requests |-> 3],
   [features |-> {"checks", "rbac"}, requests |-> 3]}
MCInit ==
  /\ part \in {"access", "signals"} /\ Init /\ SignalsInit
  /\ part = "signals" => on.features = {"registry"}
MCNext ==
  /\ UNCHANGED part
  /\ \/ part = "access" /\ Next /\ UNCHANGED <<signalVars, signalGhosts>>
     \/ part = "signals" /\ SignalsNext /\ UNCHANGED vars
MCSpec == MCInit /\ [][MCNext]_<<vars, signalVars, signalGhosts, part>>

(* Both parts' variables keep to their types. *)
TypesOK == TypeOK /\ SignalsTypeOK

(* A denied action and a security signal are written to the activity log at most
   once per window, and the log stream tells of no row that was rolled back. *)
NoticesAreSparse == OneDenialPerWindow /\ OneSignalPerWindow /\ NoPhantoms /\ CountersEnd

Symm == Permutations(Procs) \cup Permutations(Callers) \cup Permutations(Jobs)
=============================================================================
