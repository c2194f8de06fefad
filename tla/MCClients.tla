----------------------------- MODULE MCClients -----------------------------
(* Instance of the client side: an app's tabs in the proxy mode, its tabs in
   the authz mode, or its backend.  They share no state but the tokens, so each
   behaviour is of one of them.                                              *)
EXTENDS TabSessions, AuthzTabs, AppBackend, TLC

VARIABLE part

MCMemberOf == [amy |-> {"lab", "ops"}, ben |-> {"ops"}]
Caching == [sdk |-> "python", auto_resolve |-> FALSE, cache_ttl |-> TRUE, changes |-> 0]
MCApps == {[sdk |-> "python", auto_resolve |-> TRUE, cache_ttl |-> FALSE, changes |-> 1],
           [sdk |-> "nextjs", auto_resolve |-> TRUE, cache_ttl |-> FALSE, changes |-> 1],
           [sdk |-> "python", auto_resolve |-> FALSE, cache_ttl |-> FALSE, changes |-> 2], Caching}
Symm == Permutations(Tabs) \cup Permutations(Callers)

all == <<tabVars, tabGhosts, authzVars, authzGhosts, appVars, appGhosts, part>>
Init ==
  /\ part \in {"proxy", "authz", "backend"} /\ TabsInit /\ AuthzInit /\ AppInit
  /\ part # "proxy" => kind = "memory"
  /\ part # "backend" => app = Caching
Next ==
  /\ UNCHANGED part
  /\ \/ part = "proxy" /\ TabsNext /\ UNCHANGED <<authzVars, authzGhosts, appVars, appGhosts>>
     \/ part = "authz" /\ AuthzNext /\ UNCHANGED <<tabVars, tabGhosts, appVars, appGhosts>>
     \/ part = "backend" /\ AppNext /\ UNCHANGED <<tabVars, tabGhosts, authzVars, authzGhosts>>
Spec == Init /\ [][Next]_all

(* Every part's variables keep to their types. *)
TypesOK == TypeOK /\ AuthzTypeOK /\ AppTypeOK

(* Signing out in one tab, of whichever SDK mode, signs out them all. *)
SignedOut == SignedOutEverywhere /\ SignedOutForGood
=============================================================================
