--------------------------- MODULE Organizations ---------------------------
(***************************************************************************)
(* Organizations, the e-mail domains they claim, and the list of           *)
(* organizations a workspace admits.  A user's organization decides        *)
(* whether it may sign in, and which workspaces it may be a member of or   *)
(* get a token for.  Handlers are Postgres transactions at READ COMMITTED; *)
(* one that reads and later writes is split between the two.               *)
(***************************************************************************)
EXTENDS Integers, FiniteSets, Sequences, TLC

CONSTANTS Users, Workspaces,
          Orgs,      \* organizations an admin may create
          Public,    \* the catch-all organization
          Domains,   \* e-mail domains
          Suffixes,  \* domain -> itself and its parent domains, longest first
          DomainOf,  \* user -> the domain of its e-mail address, None if malformed
          Admins,    \* admin requests in flight together
          Seeded,    \* organizations there are at first, and the domain each claims
          None

ASSUME OrganizationsAssumption ==
  /\ Public \notin Orgs
  /\ None \notin Orgs \cup Domains \cup Users \cup Workspaces \cup {Public}
  /\ Suffixes \in [Domains -> Seq(Domains)]
  /\ \A d \in Domains : Len(Suffixes[d]) > 0 /\ Suffixes[d][1] = d
  /\ DomainOf \in [Users -> Domains \cup {None}]
  /\ Seeded \subseteq Orgs \X Domains

VARIABLES orgState,  \* organizations: absent, enabled, disabled, deleted
          rule,      \* organization_domains: domain -> [org, subs], or None
          known,     \* users with a row
          orgOf,     \* users.organization_id
          live,      \* workspaces with a row
          allow,     \* workspace_allowed_organizations
          adminReq   \* admin handlers between their reads and their writes

tenancy == <<orgState, rule, known, orgOf, live, allow, adminReq>>

AdminIdle == [op |-> "idle", ws |-> None, org |-> None, ids |-> {}, seen |-> {}]

OrganizationsTypeOK ==
  /\ orgState \in [Orgs \cup {Public} -> {"absent", "enabled", "disabled", "deleted"}]
  /\ \A d \in Domains : rule[d] = None \/ rule[d] \in [org: Orgs, subs: BOOLEAN]
  /\ known \in SUBSET Users
  /\ orgOf \in [Users -> Orgs \cup {Public, None}]
  /\ live \in SUBSET Workspaces
  /\ allow \in [Workspaces -> SUBSET Orgs]
  /\ adminReq \in [Admins -> [op: {"idle", "put", "delete"}, ws: Workspaces \cup {None},
                              org: Orgs \cup {None}, ids: SUBSET Orgs, seen: SUBSET Orgs]]

(* The public organization is seeded by a migration. *)
OrganizationsInit ==
  /\ orgState = [o \in Orgs \cup {Public} |->
                   IF o = Public \/ \E d \in Domains : <<o, d>> \in Seeded THEN "enabled" ELSE "absent"]
  /\ rule = [d \in Domains |-> IF \E o \in Orgs : <<o, d>> \in Seeded
                               THEN [org |-> CHOOSE o \in Orgs : <<o, d>> \in Seeded, subs |-> TRUE]
                               ELSE None]
  /\ orgOf = [u \in Users |-> None]
  /\ allow = [w \in Workspaces |-> {}]
  /\ adminReq = [a \in Admins |-> AdminIdle]

Exists(o) == orgState[o] \in {"enabled", "disabled"}

-----------------------------------------------------------------------------
(* organization_service *)

(* The exact rule of the domain, else the longest parent's that covers its
   subdomains. *)
match_org_id(d, rules) ==
  LET hits == {i \in DOMAIN Suffixes[d] :
                 /\ Suffixes[d][i] \in rules
                 /\ i = 1 \/ rule[Suffixes[d][i]].subs} IN
  IF hits = {} THEN None
  ELSE rule[Suffixes[d][CHOOSE i \in hits : \A j \in hits : i <= j]].org

RulesOf(state) == {d \in Domains : rule[d] # None /\ orgState[rule[d].org] = state}

(* An enabled organization's rule wins over any disabled one's, and a domain
   that only a disabled one claims does not fall back to the public one. *)
resolve_organization(u) ==
  LET d == DomainOf[u] IN
  IF d = None THEN None
  ELSE LET enabled == match_org_id(d, RulesOf("enabled")) IN
       IF enabled # None THEN enabled
       ELSE IF match_org_id(d, RulesOf("disabled")) = None /\ orgState[Public] = "enabled"
         THEN Public ELSE None

is_disabled_real_org(o) == o # None /\ o # Public /\ orgState[o] = "disabled"

(* org_for_claims raises OrgDisabled. *)
org_for_claims_raises(u) == orgOf[u] # None /\ is_disabled_real_org(orgOf[u])

effective_org(u) == IF orgOf[u] # None THEN orgOf[u] ELSE resolve_organization(u)

workspace_allows_org(w, o) == allow[w] = {} \/ o \in allow[w]

filter_workspaces_allowing_org(ws, o) ==
  LET restricted == {w \in ws : allow[w] # {}}
      explicitly == {w \in ws : o # None /\ o \in allow[w]} IN
  (ws \ restricted) \cup explicitly

UserAllowedIn(u, w) ==
  LET o == effective_org(u) IN ~is_disabled_real_org(o) /\ workspace_allows_org(w, o)

workspaces_allowing_org(o) == {w \in Workspaces : o \in allow[w]}

-----------------------------------------------------------------------------
(* Sign-in: _complete_login resolves the organization, find_or_create_user
   stores it.  A sign-in that resolves none is refused. *)
SignIn(u) ==
  LET o == resolve_organization(u) IN
  /\ o # None
  /\ known' = known \cup {u}
  /\ orgOf' = [orgOf EXCEPT ![u] = o]
  /\ UNCHANGED <<orgState, rule, live, allow, adminReq>>

-----------------------------------------------------------------------------
(* org_admin_service.  An organization's value stands for its row: a deleted
   one does not come back. *)
create_organization(o) ==
  /\ orgState[o] = "absent"
  /\ orgState' = [orgState EXCEPT ![o] = "enabled"]
  /\ UNCHANGED <<rule, known, orgOf, live, allow, adminReq>>

update_organization(o, enabled) ==
  /\ Exists(o)
  /\ orgState' = [orgState EXCEPT ![o] = IF enabled THEN "enabled" ELSE "disabled"]
  /\ UNCHANGED <<rule, known, orgOf, live, allow, adminReq>>

add_domain(o, d, subs) ==
  /\ o # Public /\ Exists(o)
  /\ rule[d] = None
  /\ rule' = [rule EXCEPT ![d] = [org |-> o, subs |-> subs]]
  /\ UNCHANGED <<orgState, known, orgOf, live, allow, adminReq>>

remove_domain(o, d) ==
  /\ rule[d] # None /\ rule[d].org = o
  /\ rule' = [rule EXCEPT ![d] = None]
  /\ UNCHANGED <<orgState, known, orgOf, live, allow, adminReq>>

AdminBecomes(a, q) == adminReq' = [adminReq EXCEPT ![a] = q]

(* delete_organization refuses early when an allow-list names the
   organization. *)
delete_organization(a, o) ==
  /\ adminReq[a].op = "idle"
  /\ o # Public /\ Exists(o)
  /\ workspaces_allowing_org(o) = {}
  /\ AdminBecomes(a, [AdminIdle EXCEPT !.op = "delete", !.org = o])
  /\ UNCHANGED <<orgState, rule, known, orgOf, live, allow>>

(* The foreign keys, as the DELETE meets them: the allow-lists RESTRICT, the
   rules CASCADE, the users SET NULL. *)
OnDelete(o) ==
  /\ workspaces_allowing_org(o) = {}
  /\ orgState' = [orgState EXCEPT ![o] = "deleted"]
  /\ rule' = [d \in Domains |-> IF rule[d] # None /\ rule[d].org = o THEN None ELSE rule[d]]
  /\ orgOf' = [u \in Users |-> IF orgOf[u] = o THEN None ELSE orgOf[u]]
  /\ UNCHANGED allow

CommitDelete(a) ==
  /\ adminReq[a].op = "delete"
  /\ Exists(adminReq[a].org)
  /\ OnDelete(adminReq[a].org)
  /\ AdminBecomes(a, AdminIdle)
  /\ UNCHANGED <<known, live>>

(* The handler answers 404 or 409, or its request dies: nothing is written. *)
AdminFails(a) ==
  /\ adminReq[a].op # "idle"
  /\ AdminBecomes(a, AdminIdle)
  /\ UNCHANGED <<orgState, rule, known, orgOf, live, allow>>

(* PUT allowed-orgs: the organizations are checked, the rows the DELETE sees
   are marked, and the new rows show with the commit; a row that another PUT
   committed in between is neither deleted nor overwritten. *)
set_workspace_allowed_orgs(a, w, ids) ==
  /\ adminReq[a].op = "idle"
  /\ w \in live
  /\ \A o \in ids : orgState[o] = "enabled"
  /\ AdminBecomes(a, [AdminIdle EXCEPT !.op = "put", !.ws = w, !.ids = ids, !.seen = allow[w]])
  /\ UNCHANGED <<orgState, rule, known, orgOf, live, allow>>

CommitAllowedOrgs(a) ==
  LET q == adminReq[a]
      kept == allow[q.ws] \ q.seen IN
  /\ q.op = "put"
  /\ q.ws \in live
  /\ kept \cap q.ids = {}
  /\ \A o \in q.ids : Exists(o)
  /\ allow' = [allow EXCEPT ![q.ws] = kept \cup q.ids]
  /\ AdminBecomes(a, AdminIdle)
  /\ UNCHANGED <<orgState, rule, known, orgOf, live>>

OrganizationsNext ==
  \/ \E o \in Orgs : create_organization(o)
  \/ \E o \in Orgs \cup {Public}, e \in BOOLEAN : update_organization(o, e)
  \/ \E o \in Orgs, d \in Domains : \/ \E subs \in BOOLEAN : add_domain(o, d, subs)
                                    \/ remove_domain(o, d)
  \/ \E a \in Admins : \/ \E o \in Orgs : delete_organization(a, o)
                       \/ CommitDelete(a) \/ AdminFails(a)
                       \/ \E w \in Workspaces, ids \in SUBSET Orgs :
                            set_workspace_allowed_orgs(a, w, ids)
                       \/ CommitAllowedOrgs(a)

-----------------------------------------------------------------------------
(* PROPERTIES *)

(* A workspace that was restricted to some organizations becomes open to all
   of them only by a PUT of the empty list: never because an organization it
   names goes away, whatever overlaps the deletion.  (workspaces_allowing_org,
   the RESTRICT foreign key) *)
OpenedOnlyByPut ==
  [][\A w \in Workspaces :
       allow[w] # {} /\ allow'[w] = {} =>
         \/ w \notin live'
         \/ \E a \in Admins : adminReq[a].op = "put" /\ adminReq[a].ws = w /\ adminReq[a].ids = {}]_tenancy
=============================================================================
