------------------------ MODULE OrganizationsProofs ------------------------
(***************************************************************************)
(* Lemmas of Organizations, for every set of users, workspaces,            *)
(* organizations and domains: an e-mail address resolves to an             *)
(* organization or to none, and every admin handler keeps the types.       *)
(* Onboarding and SignIn rest on them.                                     *)
(***************************************************************************)
EXTENDS Organizations, WellFoundedInduction, TLAPS

(* Organizations, their rules, and what an admin handler holds between its two
   transactions. *)
AdminOK(q) ==
  /\ q.op = "put" => q.ws \in Workspaces
  /\ q.op = "delete" => q.org \in Orgs
Rule == [org: Orgs, subs: BOOLEAN]
OrgOK ==
  /\ OrganizationsTypeOK
  /\ rule \in [Domains -> Rule \cup {None}]
  /\ \A a \in Admins : AdminOK(adminReq[a])

-----------------------------------------------------------------------------
(* The organization a domain resolves to. *)

LEMMA Least ==
  ASSUME NEW S \in SUBSET Nat, S # {}
  PROVE  \E i \in S : \A j \in S : i <= j
<1> DEFINE R == {ss \in Nat \X Nat : ss[1] < ss[2]}
<1>1. IsWellFoundedOn(R, Nat)
  BY NatLessThanWellFounded DEF OpToRel
<1>2. \A x, y \in S : x < y => <<x, y>> \in R
  OBVIOUS
<1> HIDE DEF R
<1>3. PICK x \in S : \A y \in S : ~(<<y, x>> \in R)
  BY <1>1, WFMin
<1>4. \A y \in S : ~(y < x)
  BY <1>2, <1>3
<1> QED BY <1>4

(* A match is the organization of one of the rules it was given. *)
LEMMA MatchedOrg ==
  ASSUME rule \in [Domains -> Rule \cup {None}], NEW d \in Domains, NEW R,
         \A x \in R : x \in Domains /\ rule[x] # None
  PROVE  match_org_id(d, R) \in Orgs \cup {None}
<1> DEFINE hits == {i \in DOMAIN Suffixes[d] :
                      Suffixes[d][i] \in R /\ (i = 1 \/ rule[Suffixes[d][i]].subs)}
           least == CHOOSE i \in hits : \A j \in hits : i <= j
<1>1. CASE hits = {}
  BY <1>1 DEF match_org_id
<1>2. CASE hits # {}
  <2>1. hits \in SUBSET Nat
    BY OrganizationsAssumption
  <2>2. least \in hits
    <3> HIDE DEF hits
    <3> QED BY <1>2, <2>1, Least
  <2>3. Suffixes[d][least] \in R
    BY <2>2
  <2>4. match_org_id(d, R) = rule[Suffixes[d][least]].org
    BY <1>2 DEF match_org_id
  <2> HIDE DEF least, hits
  <2> QED BY <2>3, <2>4 DEF Rule
<1> QED BY <1>1, <1>2

LEMMA ResolvedOrg ==
  ASSUME OrgOK, NEW u \in Users
  PROVE  resolve_organization(u) \in Orgs \cup {Public, None}
<1>1. \A state : \A x \in RulesOf(state) : x \in Domains /\ rule[x] # None
  BY DEF RulesOf
<1>2. DomainOf[u] # None => DomainOf[u] \in Domains
  BY OrganizationsAssumption
<1>3. DomainOf[u] # None => match_org_id(DomainOf[u], RulesOf("enabled")) \in Orgs \cup {None}
  BY <1>1, <1>2, MatchedOrg DEF OrgOK
<1> QED BY <1>3 DEF resolve_organization

(* The organizations keep their type. *)
LEMMA AdminTyped ==
  ASSUME OrgOK, NEW a \in Admins
  PROVE  /\ adminReq[a].ws \in Workspaces \cup {None} /\ adminReq[a].org \in Orgs \cup {None}
         /\ adminReq[a].ids \in SUBSET Orgs /\ adminReq[a].seen \in SUBSET Orgs
         /\ AdminOK(adminReq[a])
  BY DEF OrgOK, OrganizationsTypeOK

LEMMA AdminStep ==
  ASSUME OrgOK, NEW a \in Admins, NEW q, AdminBecomes(a, q), AdminOK(q),
         q \in [op: {"idle", "put", "delete"}, ws: Workspaces \cup {None},
                org: Orgs \cup {None}, ids: SUBSET Orgs, seen: SUBSET Orgs]
  PROVE  /\ adminReq' \in [Admins -> [op: {"idle", "put", "delete"}, ws: Workspaces \cup {None},
                              org: Orgs \cup {None}, ids: SUBSET Orgs, seen: SUBSET Orgs]]
         /\ \A b \in Admins : AdminOK(adminReq'[b])
  BY DEF AdminBecomes, OrgOK, OrganizationsTypeOK

LEMMA OrganizationsOK == OrgOK /\ OrganizationsNext => OrgOK'
<1> SUFFICES ASSUME OrgOK, OrganizationsNext PROVE OrgOK'
  OBVIOUS
<1> USE DEF OrgOK, OrganizationsTypeOK
<1>0. AdminOK(AdminIdle) /\ AdminIdle \in [op: {"idle", "put", "delete"}, ws: Workspaces \cup {None},
                org: Orgs \cup {None}, ids: SUBSET Orgs, seen: SUBSET Orgs]
  BY DEF AdminOK, AdminIdle
<1>1. ASSUME NEW o \in Orgs, create_organization(o) PROVE OrgOK'
  BY <1>1 DEF create_organization
<1>2. ASSUME NEW o \in Orgs \cup {Public}, NEW e \in BOOLEAN, update_organization(o, e) PROVE OrgOK'
  BY <1>2 DEF update_organization
<1>3. ASSUME NEW o \in Orgs, NEW d \in Domains, NEW subs \in BOOLEAN, add_domain(o, d, subs)
      PROVE  OrgOK'
  <2>1. rule' \in [Domains -> Rule \cup {None}]
    BY <1>3 DEF add_domain, Rule
  <2> QED BY <1>3, <2>1 DEF add_domain, Rule
<1>4. ASSUME NEW o \in Orgs, NEW d \in Domains, remove_domain(o, d) PROVE OrgOK'
  <2>1. rule' \in [Domains -> Rule \cup {None}]
    BY <1>4 DEF remove_domain
  <2> QED BY <1>4, <2>1 DEF remove_domain, Rule
<1>5. ASSUME NEW a \in Admins, NEW o \in Orgs, delete_organization(a, o) PROVE OrgOK'
  <2> DEFINE q == [AdminIdle EXCEPT !.op = "delete", !.org = o]
  <2>1. AdminOK(q) /\ q \in [op: {"idle", "put", "delete"}, ws: Workspaces \cup {None},
                org: Orgs \cup {None}, ids: SUBSET Orgs, seen: SUBSET Orgs]
    BY DEF AdminOK, AdminIdle
  <2> HIDE DEF q
  <2>2. AdminBecomes(a, q)
    BY <1>5 DEF delete_organization, q
  <2> QED BY <1>5, <2>1, <2>2, AdminStep DEF delete_organization
<1>6. ASSUME NEW a \in Admins, CommitDelete(a) PROVE OrgOK'
  <2>1. AdminBecomes(a, AdminIdle)
    BY <1>6 DEF CommitDelete
  <2>2. adminReq[a].org \in Orgs /\ OnDelete(adminReq[a].org) /\ UNCHANGED <<known, live>>
    BY <1>6, AdminTyped DEF CommitDelete, AdminOK
  <2>3. rule' \in [Domains -> Rule \cup {None}]
    BY <2>2 DEF OnDelete
  <2>4. orgOf' \in [Users -> Orgs \cup {Public, None}]
    BY <2>2 DEF OnDelete
  <2>5. orgState' \in [Orgs \cup {Public} -> {"absent", "enabled", "disabled", "deleted"}]
    BY <2>2 DEF OnDelete
  <2> QED BY <1>0, <2>1, <2>2, <2>3, <2>4, <2>5, AdminStep DEF OnDelete, Rule
<1>7. ASSUME NEW a \in Admins, AdminFails(a) PROVE OrgOK'
  BY <1>0, <1>7, AdminStep DEF AdminFails
<1>8. ASSUME NEW a \in Admins, NEW w \in Workspaces, NEW ids \in SUBSET Orgs,
             set_workspace_allowed_orgs(a, w, ids)
      PROVE  OrgOK'
  <2> DEFINE q == [AdminIdle EXCEPT !.op = "put", !.ws = w, !.ids = ids, !.seen = allow[w]]
  <2>1. AdminOK(q) /\ q \in [op: {"idle", "put", "delete"}, ws: Workspaces \cup {None},
                org: Orgs \cup {None}, ids: SUBSET Orgs, seen: SUBSET Orgs]
    BY DEF AdminOK, AdminIdle
  <2> HIDE DEF q
  <2>2. AdminBecomes(a, q)
    BY <1>8 DEF set_workspace_allowed_orgs, q
  <2> QED BY <1>8, <2>1, <2>2, AdminStep DEF set_workspace_allowed_orgs
<1>9. ASSUME NEW a \in Admins, CommitAllowedOrgs(a) PROVE OrgOK'
  <2>1. AdminBecomes(a, AdminIdle) /\ adminReq[a].ws \in Workspaces /\ adminReq[a].ids \in SUBSET Orgs
    BY <1>9, AdminTyped DEF CommitAllowedOrgs, AdminOK
  <2>2. allow' \in [Workspaces -> SUBSET Orgs]
    BY <1>9, <2>1 DEF CommitAllowedOrgs
  <2> QED BY <1>0, <1>9, <2>1, <2>2, AdminStep DEF CommitAllowedOrgs
<1> QED BY <1>1, <1>2, <1>3, <1>4, <1>5, <1>6, <1>7, <1>8, <1>9 DEF OrganizationsNext

LEMMA UsersStay == OrganizationsNext => known' = known
  BY DEF OrganizationsNext, create_organization, update_organization, add_domain, remove_domain,
         delete_organization, CommitDelete, AdminFails, set_workspace_allowed_orgs, CommitAllowedOrgs

LEMMA SignInOK ==
  ASSUME OrgOK, NEW u \in Users, SignIn(u)
  PROVE  OrgOK'
<1>1. resolve_organization(u) \in Orgs \cup {Public, None}
  BY ResolvedOrg
<1> QED BY <1>1 DEF SignIn, OrgOK, OrganizationsTypeOK

=============================================================================
