------------------------------- MODULE SignIn -------------------------------
(***************************************************************************)
(* Who a sign-in signs in, and what it may get: identities of providers,   *)
(* the accounts they are linked to, authorization codes, the tokens of     *)
(* each kind, and the guards that accept them.  find_or_create_user reads  *)
(* and later commits, and so does the exchange of a code; what was read is *)
(* kept in the session (expire_on_commit is off).  A user stands for its   *)
(* e-mail address, a token for its place in the sequence of all tokens.    *)
(***************************************************************************)
EXTENDS Organizations

CONSTANTS Identities,   \* people at a provider
          Provider,     \* identity -> provider
          Emails,       \* identity -> the addresses its provider reports for it
          AdminEmails,  \* settings.admin_email_list
          Bare,         \* users an admin imported: no social account
          Members,      \* <<workspace, user>> at first
          Services, ScopeOf, \* services, and the scope of each
          Audiences,    \* service -> service_apps.allowed_idp_audiences
          Deployment,   \* the audience of the deployment's own client
          Apps,         \* client apps
          Procs,        \* requests in flight together
          Codes,        \* authorization codes there may be
          MaxTokens,    \* bound: tokens there may be
          Gone

Flows == {"user", "onboard", "admin", "authz"}

(* validate_idp_token prefixes the sub of GitHub, the OAuth callbacks do not. *)
Subject(i, flow) == IF flow = "authz" /\ Provider[i] = "github" THEN <<i, "github|">> ELSE <<i, "">>
Subjects == Identities \X {"", "github|"}
ProviderOf(k) == Provider[k[1]]

ASSUME SignInAssumption ==
  /\ Emails \in [Identities -> SUBSET Users]
  /\ AdminEmails \cup Bare \subseteq Users
  /\ Members \subseteq Workspaces \X Users
  /\ MaxTokens \in Nat
  /\ IsFiniteSet(Procs)
  /\ Gone # None
  /\ None \notin BOOLEAN \cup Services

VARIABLES linked,   \* social_accounts: subject -> user
          active,   \* users.is_active
          flagged,  \* Redis user_deactivated flags
          admins,   \* users.is_admin
          status,   \* update_user between Redis and the commit: user -> its new is_active
          members,  \* workspace_memberships
          signin,   \* requests between two statements
          codes,    \* authorization codes; Gone once redeemed or expired
          tokens,   \* every token there has been
          denied,   \* the access-token denylist
          spent,    \* history: the code each access token was issued for
          brought,  \* history: <<scope, user>> of the sign-ins through a service
          byAdmin,  \* history: users created by the admin flow
          crossed   \* history: users linked while another sign-in moved

accounts == <<linked, active, flagged, admins, status, members>>
history == <<spent, brought, byAdmin, crossed>>
identity == <<tenancy, accounts, signin, codes, tokens, denied, history>>

Maybe(S) == S \cup {None}
Request == [pc: {"idle", "found", "done", "exchange"}, flow: Maybe(Flows), subject: Maybe(Subjects),
            path: Maybe({"known", "link", "create", "conflict"}), user: Maybe(Users),
            org: Maybe(Orgs \cup {Public}), ok: BOOLEAN, admin: BOOLEAN, moved: BOOLEAN,
            svc: Maybe(Services), ws: Maybe(Workspaces), code: Maybe(Codes)]
Idle == [pc |-> "idle", flow |-> None, subject |-> None, path |-> None, user |-> None, org |-> None,
         ok |-> FALSE, admin |-> FALSE, moved |-> FALSE, svc |-> None, ws |-> None, code |-> None]
Token == [kind: {"access", "authz", "admin"}, user: Users, ws: Maybe(Workspaces), svc: Maybe({ScopeOf[s] : s \in Services})]

SignInTypeOK ==
  /\ OrganizationsTypeOK
  /\ linked \in [Subjects -> Maybe(Users)]
  /\ active \in SUBSET Users /\ flagged \in SUBSET Users /\ admins \in SUBSET Users
  /\ status \in [Users -> {None, TRUE, FALSE}]
  /\ members \in SUBSET (Workspaces \X Users)
  /\ signin \in [Procs -> Request]
  /\ \A c \in Codes : codes[c] \in {None, Gone} \/ codes[c].user \in known
  /\ \A j \in DOMAIN tokens : tokens[j] \in Token
  /\ denied \subseteq DOMAIN tokens

SignInInit ==
  /\ OrganizationsInit
  /\ known = Bare /\ live = Workspaces
  /\ linked = [k \in Subjects |-> None]
  /\ active = Users /\ flagged = {} /\ admins = {}
  /\ status = [u \in Users |-> None]
  /\ members = Members
  /\ signin = [p \in Procs |-> Idle]
  /\ codes = [c \in Codes |-> None]
  /\ tokens = <<>> /\ denied = {}
  /\ spent = [c \in Codes |-> 0] /\ brought = {} /\ byAdmin = {} /\ crossed = {}

Become(p, q) == signin' = [signin EXCEPT ![p] = q]

-----------------------------------------------------------------------------
(* The identity a provider vouches for.  A claim says whether the address is
   verified: "verified", Entra's "edov" or its silence, or none of them. *)
Claims == {"verified", "edov", "silent", "unverified"}

is_email_verified_claim(claim, provider, strict) ==
  \/ claim = "verified"
  \/ provider = "entra_id" /\ (claim = "edov" \/ (~strict /\ claim = "silent"))

(* /user/emails of GitHub names a verified address or none; the e-mail claim
   may be missing from an ID token. *)
_idp_profile(i, e, claim, strict) ==
  /\ e \in Emails[i]
  /\ IF Provider[i] = "github" THEN claim = "verified"
     ELSE is_email_verified_claim(claim, Provider[i], strict)

Social(k) == linked[k]
HasSocial(u) == \E k \in Subjects : linked[k] = u

(* The lookups of find_or_create_user, for subject k with address e. *)
LookupByEmail(k, e) ==                                        \* mutant: links by address
  IF Social(k) # None THEN "known" ELSE IF e \notin known THEN "create" ELSE "link"
Lookup(k, e) ==
  IF Social(k) # None THEN "known"
  ELSE IF e \notin known THEN "create"
  ELSE IF HasSocial(e) THEN "conflict" ELSE "link"

(* The reads of a sign-in: the organization, then the account.  Through service
   svc it may ask for workspace ws. *)
Begin(p, flow, k, e, org, svc, ws) ==
  LET path == Lookup(k, e)
      u == IF path = "known" THEN linked[k] ELSE e IN
  /\ signin[p].pc = "idle"
  /\ Become(p, [Idle EXCEPT !.pc = "found", !.flow = flow, !.subject = k, !.path = path, !.user = u,
                            !.org = org, !.ok = path = "create" \/ u \in active,
                            !.admin = u \in admins, !.svc = svc, !.ws = ws])
  /\ UNCHANGED <<tenancy, accounts, codes, tokens, denied, history>>

(* _complete_login, of the proxy callback and, strictly, the hosted one. *)
_complete_login(p, flow, i, e, claim) ==
  /\ _idp_profile(i, e, claim, flow = "onboard")
  /\ resolve_organization(e) # None
  /\ Begin(p, flow, Subject(i, flow), e, resolve_organization(e), None, None)

(* admin_callback does not ask for an organization, and first looks whether
   the identity, or the account it would be linked to, is an admin's. *)
AdminEligible(k, e) ==
  \/ e \in AdminEmails
  \/ LET u == IF Social(k) # None THEN Social(k) ELSE e IN u \in known /\ u \in admins

admin_callback(p, i, e, claim) ==
  /\ _idp_profile(i, e, claim, FALSE)
  /\ AdminEligible(Subject(i, "admin"), e)
  /\ Begin(p, "admin", Subject(i, "admin"), e, resolve_organization(e), None, None)

(* idp_validator: an ID token is bound to the app's registered audiences, or
   to the deployment's; GitHub's cannot be, and is refused to an app that has
   any. *)
_effective_audience(s) == IF Audiences[s] # {} THEN Audiences[s] ELSE {Deployment}

_validate_oidc_token(s, i, e, claim, aud) ==
  /\ aud \in _effective_audience(s)
  /\ e \in Emails[i]
  /\ is_email_verified_claim(claim, Provider[i], FALSE)

_validate_github_token(i, e, claim) == e \in Emails[i] /\ claim = "verified"

validate_idp_token(s, i, e, claim, aud) ==
  IF Provider[i] = "github" THEN Audiences[s] = {} /\ _validate_github_token(i, e, claim)
  ELSE _validate_oidc_token(s, i, e, claim, aud)

(* POST /authz/resolve through service s, for workspace w, or None to list. *)
resolve(p, s, w, i, e, claim, aud) ==
  /\ validate_idp_token(s, i, e, claim, aud)
  /\ resolve_organization(e) # None
  /\ Begin(p, "authz", Subject(i, "authz"), e, resolve_organization(e), s, w)

-----------------------------------------------------------------------------
(* The writes of find_or_create_user.  A row that another sign-in committed in
   between, of the subject or of the address, fails the request, and so does
   an organization that is gone. *)
Moved(p) == [x \in Procs |-> IF x = p THEN Idle ELSE [signin[x] EXCEPT !.moved = signin[x].pc = "found"]]
CanCommit(q) ==
  /\ q.org = None \/ Exists(q.org)
  /\ q.path # "known" => linked[q.subject] = None
  /\ q.path = "create" => q.user \notin known

Committed(q) ==
  /\ orgOf' = IF q.org = None THEN orgOf ELSE [orgOf EXCEPT ![q.user] = q.org]
  /\ known' = known \cup {q.user}
  /\ linked' = IF q.path = "known" THEN linked ELSE [linked EXCEPT ![q.subject] = q.user]
  /\ admins' = IF q.path # "known" /\ q.user \in AdminEmails THEN admins \cup {q.user} ELSE admins
  /\ byAdmin' = IF q.path = "create" /\ q.flow = "admin" THEN byAdmin \cup {q.user} ELSE byAdmin
  /\ crossed' = IF q.path = "link" /\ q.moved THEN crossed \cup {q.user} ELSE crossed
  /\ UNCHANGED <<orgState, rule, live, allow, adminReq, active, flagged, status, members>>

find_or_create_user(p) ==
  LET q == signin[p] IN
  /\ q.pc = "found"
  /\ IF q.path # "conflict" /\ CanCommit(q)
       THEN /\ Committed(q)
            /\ signin' = [Moved(p) EXCEPT ![p] = [q EXCEPT !.pc = "done",
                                                           !.admin = q.admin \/ q.user \in admins' \ admins]]
       ELSE /\ Become(p, Idle)
            /\ UNCHANGED <<tenancy, accounts, byAdmin, crossed>>
  /\ UNCHANGED <<codes, tokens, denied, spent, brought>>

-----------------------------------------------------------------------------
(* What the flows end with.  An inactive user gets the error page. *)
Minted(t) == Len(tokens) < MaxTokens /\ tokens' = Append(tokens, t)

Finished(p, flow) == signin[p].pc = "done" /\ signin[p].flow = flow /\ Become(p, Idle)

SignInRefused(p) ==
  /\ signin[p].pc \in {"done", "exchange"}
  /\ Become(p, Idle)
  /\ UNCHANGED <<tenancy, accounts, codes, tokens, denied, history>>

AdminSignedIn(p) ==
  /\ Finished(p, "admin")
  /\ signin[p].admin
  /\ Minted([kind |-> "admin", user |-> signin[p].user, ws |-> None, svc |-> None])
  /\ UNCHANGED <<tenancy, accounts, codes, denied, history>>

MemberAdmitted(w, u, o) == <<w, u>> \in members /\ workspace_allows_org(w, o)

(* resolve answers the list of workspaces, or mints a token of the service's
   scope. *)
ResolveMints(p) ==
  LET q == signin[p] IN
  /\ Finished(p, "authz")
  /\ q.ok
  /\ brought' = brought \cup {<<ScopeOf[q.svc], q.user>>}
  /\ IF q.ws = None THEN UNCHANGED tokens
     ELSE /\ MemberAdmitted(q.ws, q.user, q.org)
          /\ Minted([kind |-> "authz", user |-> q.user, ws |-> q.ws, svc |-> ScopeOf[q.svc]])
  /\ UNCHANGED <<tenancy, accounts, codes, denied, spent, byAdmin, crossed>>

(* create_auth_code: bound to the login it answers. *)
CodeArgumentsSwapped(c, u, challenge, app, redirect) ==       \* mutant
  codes' = [codes EXCEPT ![c] = [user |-> challenge, challenge |-> u, app |-> app, redirect |-> redirect]]
create_auth_code(c, u, challenge, app, redirect) ==
  /\ codes[c] = None
  /\ codes' = [codes EXCEPT ![c] = [user |-> u, challenge |-> challenge, app |-> app, redirect |-> redirect]]

IsCode(c) == codes[c] \notin {None, Gone}

GetDel(c) == codes' = [codes EXCEPT ![c] = Gone]
consume_auth_code(c) == IsCode(c) /\ GetDel(c)

verify_code_challenge(c, verifier) == codes[c].challenge = verifier

(* POST /auth/token: the code is gone before the verifier is looked at. *)
select_workspace(p, c, w, verifier) ==
  /\ signin[p].pc = "idle"
  /\ consume_auth_code(c)
  /\ IF verify_code_challenge(c, verifier) /\ codes[c].user \in active
       THEN Become(p, [Idle EXCEPT !.pc = "exchange", !.user = codes[c].user, !.code = c, !.ws = w,
                                   !.org = orgOf[codes[c].user]])
       ELSE UNCHANGED signin
  /\ UNCHANGED <<tenancy, accounts, tokens, denied, history>>

IssueAllowed(w, u, o) == MemberAdmitted(w, u, o) /\ ~is_disabled_real_org(o)

issue_tokens(p) ==
  LET q == signin[p] IN
  /\ q.pc = "exchange"
  /\ IssueAllowed(q.ws, q.user, q.org)
  /\ Minted([kind |-> "access", user |-> q.user, ws |-> q.ws, svc |-> None])
  /\ spent' = [spent EXCEPT ![q.code] = @ + 1]
  /\ Become(p, Idle)
  /\ UNCHANGED <<tenancy, accounts, codes, denied, brought, byAdmin, crossed>>

(* POST /auth/workspaces: what the picker lists for the user of a code. *)
AllWorkspaces(u) == {w \in Workspaces : <<w, u>> \in members} \* mutant: no filter
list_workspaces_for_login(u) ==
  LET o == effective_org(u) IN
  IF is_disabled_real_org(o) THEN {}
  ELSE filter_workspaces_allowing_org({w \in Workspaces : <<w, u>> \in members}, o)

CodeExpires(c) == IsCode(c) /\ GetDel(c) /\ UNCHANGED <<tenancy, accounts, signin, tokens, denied, history>>

-----------------------------------------------------------------------------
(* Accounts change: update_user writes Redis first, then commits. *)
TokensOf(u, kinds) == {j \in DOMAIN tokens : tokens[j].user = u /\ tokens[j].kind \in kinds}

update_user(u, on) ==
  /\ u \in known /\ status[u] = None
  /\ (u \in active) # on
  /\ status' = [status EXCEPT ![u] = on]
  /\ flagged' = IF on THEN flagged \ {u} ELSE flagged \cup {u}
  /\ denied' = IF on THEN denied ELSE denied \cup TokensOf(u, {"access"})
  /\ UNCHANGED <<tenancy, linked, active, admins, members, signin, codes, tokens, history>>

CommitStatus(u) ==
  /\ status[u] # None
  /\ status' = [status EXCEPT ![u] = None]
  /\ active' = IF status[u] THEN active \cup {u} ELSE active \ {u}
  /\ UNCHANGED <<tenancy, linked, flagged, admins, members, signin, codes, tokens, denied, history>>

SetAdmin(u, on) ==
  /\ u \in known /\ (u \in admins) # on
  /\ admins' = IF on THEN admins \cup {u} ELSE admins \ {u}
  /\ denied' = IF on THEN denied ELSE denied \cup TokensOf(u, {"access"})
  /\ UNCHANGED <<tenancy, linked, active, flagged, status, members, signin, codes, tokens, history>>

MembershipMoves(w, u) ==
  /\ members' = IF <<w, u>> \in members THEN members \ {<<w, u>>} ELSE members \cup {<<w, u>>}
  /\ u \in known
  /\ UNCHANGED <<tenancy, linked, active, flagged, admins, status, signin, codes, tokens, denied, history>>

-----------------------------------------------------------------------------
(* The guards: whether they let token j in. *)
UncheckedStatus(j) == j \notin denied                         \* mutant: as it "historically" was
_enforce_token_hygiene(j) == j \notin denied /\ tokens[j].user \notin flagged

require_admin(j) ==
  /\ tokens[j].kind = "admin"
  /\ _enforce_token_hygiene(j)
  /\ tokens[j].user \in active \cap admins

get_current_user(j) == tokens[j].kind = "access" /\ _enforce_token_hygiene(j)

ForService(j, s) == tokens[j].kind = "authz" => tokens[j].svc = ScopeOf[s]

get_user_for_service_call(j, s) ==
  /\ tokens[j].kind \in {"access", "authz"}
  /\ _enforce_token_hygiene(j)
  /\ ForService(j, s)

(* With a valid service key as above; without one an access token, or an
   authz token in X-Authz-Token. *)
get_current_user_flexible(j, s) ==
  /\ tokens[j].kind \in {"access", "authz"}
  /\ _enforce_token_hygiene(j)
  /\ s # None => ForService(j, s)

LetIn(j) == \/ require_admin(j) \/ get_current_user(j)
            \/ \E s \in Services : get_user_for_service_call(j, s)
            \/ \E s \in Maybe(Services) : get_current_user_flexible(j, s)

logout(j) ==
  /\ get_current_user(j)
  /\ denied' = denied \cup {j} \cup TokensOf(tokens[j].user, {"access"})
  /\ UNCHANGED <<tenancy, accounts, signin, codes, tokens, history>>

admin_logout(j) ==
  /\ require_admin(j)
  /\ denied' = denied \cup {j}
  /\ UNCHANGED <<tenancy, accounts, signin, codes, tokens, history>>

-----------------------------------------------------------------------------
(* PROPERTIES *)

(* Once a deactivation has committed, no guard lets in any token of the user,
   of whatever kind, although the guards of bearer tokens never read its row
   and authorization tokens are not revoked; a
   reactivation lifts the flag before it commits.  (_enforce_token_hygiene) *)
DeactivatedAreShut ==
  \A j \in DOMAIN tokens : LetIn(j) => tokens[j].user \in active \/ status[tokens[j].user] = TRUE

(* A service acts, by an authorization token, only for users who signed in
   through a service of its scope.  (get_user_for_service_call) *)
ServicesActForTheirUsers ==
  \A j \in DOMAIN tokens, s \in Services :
    tokens[j].kind = "authz" /\ (get_user_for_service_call(j, s) \/ get_current_user_flexible(j, s))
      => <<ScopeOf[s], tokens[j].user>> \in brought

(* Whom the guards let in, they let in rightly. *)
GuardsHold == DeactivatedAreShut /\ ServicesActForTheirUsers

(* An authorization code yields tokens at most once, however many requests
   present it together.  (consume_auth_code) *)
CodesAreSpentOnce == \A c \in Codes : spent[c] <= 1

(* What the picker offers to a user whose organization is stored, the exchange
   would not refuse.  (list_workspaces_for_login, issue_tokens) *)
PickerIsMintable ==
  \A u \in known : orgOf[u] # None =>
    \A w \in list_workspaces_for_login(u) : IssueAllowed(w, u, orgOf[u])

(* The admin sign-in creates an account for nobody but the configured admins,
   whatever became of the account it looked at.  (admin_callback) *)
AdminFlowCreatesNobody == byAdmin \subseteq AdminEmails

(* Two providers, or two subjects of one, are linked to one account only if
   their sign-ins overlapped.  (find_or_create_user) *)
OneSubjectPerAccount ==
  \A k, m \in Subjects : k # m /\ linked[k] # None /\ linked[k] = linked[m] => linked[k] \in crossed

(* Accounts stay apart: none is made for, or taken over by, somebody else. *)
AccountsAreOwned == OneSubjectPerAccount /\ AdminFlowCreatesNobody
=============================================================================
