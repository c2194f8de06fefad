# A TLA+ model of Duar

Duar is an authentication proxy and authorization service: FastAPI handlers on
asyncio, Postgres behind SQLAlchemy sessions at READ COMMITTED, Redis for tokens
and caches, and SDKs that run in browsers' tabs and in apps' backends. Its hard
part is not any one handler. It is what happens when one suspends at an `await`
and others run: a revocation overlapping a rotation, a cache rebuild overlapping
a commit, two removals of two owners, two tabs that share a cookie or a session,
a key rotation that reaches the processes one after the other. Those
interleavings are what this project models, checks and proves.

Paths below are relative to `src/service/src/` unless they start with `src/`.

## Inventory

| Component | State | What is hard | What makes it correct | Modelled in |
|---|---|---|---|---|
| Refresh tokens (`services/token_service.py`) | Redis `rt:`, `rtf:`, `rta:`, `uf:`, `cap:`, `bl:`, `deactivated:`, `rctx:` | revocation is several awaits over sets that others add to; TTLs; a crash half way | no session forks; what is live can be found by a revocation | `TokenSessions` |
| Issuance and rotation (`services/auth_service.py`, `api/auth_routes.py`) | none of its own | the token is consumed first, checks and the store come awaits later | one successor or a closed family | `TokenSessions`, `SignIn` |
| JSON web tokens (`auth/jwt.py`) | none | five kinds under one key | no decoder takes another kind | `SignIn`, in part |
| Token guards (`api/dependencies.py`) | none | decide from Redis, which must follow Postgres | the deactivated are refused | `SignIn`, `ServiceKeyCache`, in part |
| Activation (`services/admin_service.py`) | `users.is_active`, `deactivated:` | two stores, written in one order by one route and in the other by the other | flag and row agree at rest | `TokenSessions`, `SignIn`, in part |
| Service apps (`services/service_app_service.py`) | `service_apps`, `svc:key_cache`, `svc:origin_cache` | a rebuild reads before and writes after a commit | a cached answer is a current one; staleness ends | `ServiceKeyCache`, `ServiceScopes` |
| Realms (`services/realm_service.py`) | `realms`, `service_apps.realm_id` | slugs and names are one name space in two tables | no two trust domains share a scope | `ServiceScopes` |
| Membership (`services/workspace_service.py`) | `workspace_memberships` | two owners leave at once; row locks in opposite orders | always an owner; nothing of a removed member survives | `WorkspaceMembership`, in part |
| Groups, roles, shares (`services/group_service.py`, `role_service.py`, `permission_service.py`) | their six tables | membership is checked without a lock; check and lookup are separate queries | a grant needs its membership; check agrees with lookup | `AccessControl`; groups and roles in part |
| Codes and hosted login (`services/auth_code_service.py`, `api/auth_routes.py`) | Redis codes, the session cookie | one cookie for all tabs; the code is consumed before the rest is checked | a code is bound to one login and spent once | `SignIn`, `HostedPages` |
| Onboarding pages (`api/onboard_routes.py`) | the same cookie | a response replaces the whole cookie | a form acts for the user it was shown to | `HostedPages` |
| Invitations, self-serve (`services/invitation_service.py`, `workspace_service.py`) | `workspace_invitations`, `workspaces` | redeem against revoke, expiry and the inviter's fall; caps counted in parallel | admits one, on an inviter who may still invite; caps hold | `Onboarding` |
| Organizations (`services/organization_service.py`, `org_admin_service.py`) | `organizations`, `organization_domains`, allow-lists | the gate stands on many paths; lists change meanwhile | nobody the gate refuses becomes a member | `Organizations` |
| Authz and m2m tokens (`api/authz_routes.py`) | none | in no revocation set | bound to one scope and one identity | `SignIn`, `HostedPages`, `AppBackend` |
| Identity-provider tokens (`services/idp_validator.py`) | none | one human under several subjects | an account stays with who owns it | `SignIn`, in part |
| Signing keys (`auth/key_provider.py`, `auth/jwks.py`) | key set per process | verifiers hold older sets | every unexpired token verifies | `AppBackend` |
| Activity log (`services/activity_service.py`) | rows pending on a session | a rollback drops rows | told only if committed | `Signals`, in part |
| Signals (`services/signal_service.py`) | Redis counters and marks | INCR and EXPIRE are two calls; every call may fail | once per window; never fails a sign-in | `Signals` |
| JS SDK, proxy mode (`src/sdks/js/src/client.ts`) | tokens per tab or for all | concurrent refreshes look like theft | tabs are no thieves; a session lasts until sign-out | `TabSessions` |
| JS SDK, authz mode (`src/sdks/js/src/authz-client.ts`) | two tokens in two stores | a redirect that starts itself | it ends, and brings its own tab its own account | `AuthzTabs` |
| Python SDK, Next.js and backend SDKs (`src/sdk/src/duar_auth`, `src/sdks/nextjs`, `src/sdks/js/src/m2m.ts`) | mint, key and decision caches | requests share one mint; keys rotate | only invalid tokens are refused; own writes are seen | `AppBackend`, in part |
| Middleware, admin UI, demos, migrations, insights, penetration tests | little or none | | | not modelled, see the end |

How they interact: inside the service, through Redis and Postgres only.
Revocation is called by logout, admin routes, activation, role changes,
removals and group changes; the guards read what it writes; service requests go
through the key cache before anything else; every path to a membership or a
token asks the organization gate. Browsers hold two shared things of their own,
the session cookie of the hosted pages and the SDK's store; apps' backends hold
the SDK's caches and see Duar through `/authz/resolve`, the JWKS and the
permission calls. `PROJECT.json` lists every component with its files and status.

## Modules

| Module | Models | Read it as |
|---|---|---|
| `TokenSessions` | families, rotation, revocation, activation | `req[r]` is a handler's program counter and locals; one action per stretch between two awaits |
| `RefreshChain` | what rotation promises, without Redis or handlers | the abstract specification `TokenSessions` implements |
| `ServiceKeyCache` | service apps, both caches, realm membership | a rebuild is `KeySelect` then `KeyFill`; an admin route is `Commit` then `Invalidate` |
| `WorkspaceMembership` | memberships, owner guard, purge, grants, role claims | one action per SQL statement; `lock` holds the FOR UPDATE row locks |
| `Organizations` | organizations, domains, allow-lists, the gate | operators and admin transactions, split where they read and later write |
| `Onboarding` | invitations, self-serve creation, additions, CSV import, in front of `Organizations` | `req[s]` is a transaction that waits for a lock or has read and not yet written |
| `ServiceScopes` | apps, realms, names and the advisory lock on them, m2m | `task[p]` is an admin's request; the key cache is reduced to the slug it holds |
| `AccessControl` | actions, roles, groups, shares, permission rows, over `ServiceScopes` | `ask[c]` has checked and not yet inserted; checks and lookups are operators |
| `Signals` | failure counters, travel, first-seen, changed context, the activity rows | one job per sign-in; each Redis call is a step and may fail |
| `SignIn` | accounts, codes, tokens of each kind, guards, over `Organizations` | `signin[p]` has looked up and not yet committed, or has peeked at a code |
| `HostedPages` | the browser at Duar's pages, over `SignIn` | `sent[t]` carries the cookie of when it was sent, and its answer replaces `jar` |
| `TabSessions` | `DuarAuth` in several tabs | `sending[t]` is `refreshPromise`; `orphans` are requests whose page is gone |
| `AuthzTabs` | `DuarAuthz` in several tabs | `screen[t]` is where the tab is, `silent[t]` the marker in its sessionStorage |
| `AppBackend` | an app's middleware and caches, Duar's keys under them | `request[r]` is a request between awaits, `pending` the mints under way |
| `MCTokenSessions`, `MCServiceKeyCache`, `MCWorkspaceMembership` | symmetry sets | |
| `MCTenancy`, `MCSignIn` | small tables and the scenarios | |
| `MCAccessControl` | `AccessControl` beside `Signals` | `part` says which of the two a behaviour is of; they share no variable |
| `MCClients` | `TabSessions`, `AuthzTabs` and `AppBackend` | `part`, likewise |
| `TokenSessionsProofs` | theorems of `TokenSessions`, and that it implements `RefreshChain` | |
| `ServiceKeyCacheProofs`, `WorkspaceMembershipProofs` | theorems of the module they are named after | |
| `AccessControlProofs` | theorems of `AccessControl` over `ServiceScopes`, and of `Signals` | |
| `OrganizationsProofs` | lemmas of `Organizations` | |
| `OnboardingProofs`, `SignInProofs` | theorems of `Onboarding`, and of `HostedPages` over `SignIn`; both extend `OrganizationsProofs` | |
| `ClientProofs` | theorems of `TabSessions`, `AuthzTabs` and `AppBackend` | |

Definitions whose comment says "mutant" are variants of the operator below them
with one plausible bug; no specification uses them. They are how we know that a
property can fail.

History variables say what the state alone cannot: that something was begun
before something else moved (`moved`, `behind`, `old` in a request's locals;
`late`, `crossed`, `escaped`, `collided`, `revived`, `lost`). Where a property
names such an exception, the code has that window, and the property says that
the window is the only one.

### TokenSessions and RefreshChain

A *pair* is a refresh token and the access token minted with it. `jwt[p]` is what
its claims say, `stage[p]` which of the two JWTs is unexpired, and the other
variables are the Redis keys by name. `Store` is `store_refresh_token`'s MULTI
pipeline, `Consume` the GETDEL; `ReadRtf`, `ReadRta`, `DeleteFamily` and
`BlacklistNext` are the four awaits of `revoke_token_family`; `ReadIndex`,
`NextFamily` and `DeleteIndex` those of `revoke_all_user_tokens` and
`revoke_app_tokens`. `then` in a handler's locals is what its caller does after
the revocation returns (logout's own denylist entry, an activation's flag).

`standing` stands for everything `issue_tokens` and `rotate_refresh_token` check
about the membership and the organization in one boolean per user; `Onboarding`
and `SignIn` have those checks in full. Status changes follow the two routes'
different orders: `update_user` holds its row lock from flush to commit and
touches Redis in between, `bulk_update_status` commits first. Reading
`is_active` and flushing are one step here, so a stale read between them is not
explored.

`escaped` gains a pair that is stored while a revocation has read the family's
or the index's sets and not yet deleted them, or that a revocation which died
half way had dropped. The reachability invariants hold for every other pair.

### ServiceKeyCache

`torn` is the same device: a hash is torn when it was written from rows that a
commit had overtaken, or when an admin request died between its commit and its
invalidation. It heals by the next rebuild, invalidation or TTL. The SELECTs have
no ORDER BY, so when two active apps list one origin either may win
(`OriginTables`). A key is opaque and never generated twice; the 32 random bytes
and their hash are not modelled.

### WorkspaceMembership

One workspace. Locks follow Postgres: `LockTarget` waits for the row and reads it
again, `CountOwner` locks one owner row per step and counts it only if it is still
an owner, a deadlocked transaction is aborted. Deletions of a removal show when
it commits (`doomed`), and an INSERT of a row that is being deleted waits. Editor
and viewer are one role. `late` holds grants inserted behind a removal's back,
`staleClaim` tokens whose role was read before a change and stored after it.
`Revoke` is one step here; its own interleavings are `TokenSessions`'.

### Organizations and Onboarding

A user's domain is matched as the code does, exact rule first, then the longest
parent that covers its subdomains; a domain's parents are the table `Suffixes`.
The gate is one operator, `UserAllowedIn`, and every action that inserts a
membership calls it where its handler does. A redeem peeks at the invitation
(`join`) and later claims it by one conditional UPDATE (`Claimable`); a deleted
workspace takes its invitations along, and as their ids never come back, they
become `Gone`. An invitation's creation counts under the workspace's lock; a self-serve creation counts under the user's,
and loses that lock when its slug collides and its savepoint is rolled back
(`collided`). `moved` says that the organizations or the gate's list changed
while a request was in flight.

### ServiceScopes and AccessControl

Creating a name takes the advisory lock on it, looks in the other table and
inserts. A service key acts under `effective_scope`; what it resolved may be
stale, and `held` keeps every scope an app ever had. `check_permission` and
`lookup_accessible_resources` are two operators, translated apart, and compared
for every user, role, set of groups and action.

### SignIn and HostedPages

A user stands for its e-mail address and an identity for a person at a provider;
`Subject` keeps the prefix that one path adds to GitHub's ids and the other does
not. `find_or_create_user` is `Lookup` then a commit, and may raise on a unique
constraint in between. The browser's cookie is one record; a request carries the
copy of when it was sent, and whichever response arrives last is the cookie.
`_enforce_token_hygiene` and the kinds each decoder accepts are operators over a
token and the Redis flags.

### TabSessions, AuthzTabs and AppBackend

Timers are no state: a refresh may start whenever the code could start one. In
`TabSessions` the server is reduced to the number of a family's newest token, 0
once revoked; that a rotation consumes and a replay revokes is what
`TokenSessions` shows. `Locks` says whether the browser has Web Locks: without
them the SDK promises nothing, and the property says so by its premise. In
`AppBackend` a mint, a key and a permission answer are numbers, so that "newer"
can be said; `OverlapIsOver` is the documented duty to keep a previous key until
every token under it has expired (`config.py:177`, `src/docs/deployment/key-rotation.md:41`).

## Runs

| Run | Bounds | Shows |
|---|---|---|
| `sessions_chain` | 1 user, 3 pairs, 2 handlers | `TokenSessions` implements `RefreshChain` (`ImplementsChain`); `RefreshNeverForks` and `AccessReachable` under login, refresh, reuse and every kind of expiry |
| `sessions_index` | 1 user, 1 app, 2 pairs, 2 handlers, 1 crash | `WithinReach`, `RevokeAllIsThorough` under member removal, org gates and revocation by user and by app |
| `sessions_status` | 1 user, 2 pairs, 2 handlers, fair | `FlagAgrees`; `NoLimbo` under logout and activation changes |
| `keycache` | 1 app, 2 keys, 1 origin, 1 realm, 2 requests, 1 crash, fair | `CacheIsCurrent`; `RetiredKeysDie` |
| `members_owner` | 2 users, 3 roles, 2 requests, 1 crash, fair | `HasOwner`; `EveryRequestEnds` |
| `members_leftovers` | 2 users, 2 roles, group grants, 2 requests, 1 crash | `GrantsNeedMembership`; `ClaimsAreCurrent` |
| `tenancy` | 3 users, 4 workspaces, 2 organizations, 2 domains (one below the other), 2 invitations, 2 requests, caps of 1; 7 scenarios | `InvitationAdmitsOne`, `ClaimNeedsStanding`, `LimitsHold`, `GateHolds` |
| `access` | 2 of each: apps, realms, users, workspaces, groups, roles, rows, callers; signals with 3 jobs, thresholds of 2; 6 scenarios | `CheckAgreesWithLookup`, `NothingOutlivesMembership`, `TrustDomainsApart`, `NoticesAreSparse` |
| `signin` | 2 users, a GitHub and an Entra identity, 2 services, 2 apps, 2 tabs, 2 logins, 2 codes, 2 tokens; 7 scenarios | `GuardsHold`, `PickerIsMintable`, `AccountsAreOwned`, `PagesKnowTheirUser`, `LoginsStayApart` |
| `clients` | 2 tabs, 2 families, 1 rotation of each; 2 authz tabs, 4 redirects; 2 processes, 2 requests, 2 callers, 2 mints, 1 write, 2 starts, 4 set-ups of an app | `TabsAreNoThieves`, `SessionIsKept`, `SignedOut`, `LoginsComeBack`, `RefusalsAreRight`, `SharedMints`, `OwnWritesAreSeen` |

Each run that introduces a module's state also checks its type invariant. Several
properties are conjunctions of named parts, each with its own comment:

| Property | Parts |
|---|---|
| `WithinReach` | `RefreshReachable`, `AccessReachable`, `IndexReachable` |
| `LimitsHold` | `PendingCap`, `SelfServeCap`, `BreakerOvershoot` |
| `GateHolds` | `GateOnEveryPath`, `OpenedOnlyByPut` |
| `NothingOutlivesMembership` | `ActionsNeedMembership`, `SharesReachSomeone` |
| `TrustDomainsApart` | `ScopeNamesDisjoint`, `ScopesWereHeld` |
| `NoticesAreSparse` | `OneDenialPerWindow`, `OneSignalPerWindow`, `NoPhantoms`, `CountersEnd` |
| `GuardsHold` | `DeactivatedAreShut`, `ServicesActForTheirUsers` |
| `AccountsAreOwned` | `OneSubjectPerAccount`, `AdminFlowCreatesNobody` |
| `PagesKnowTheirUser` | `FormsActForTheirPage`, `SignedOutStaysOut` |
| `LoginsStayApart` | `LoginsDontMix`, `TokensGoHome`, `CodesAreSpentOnce` |
| `SignedOut` | `SignedOutEverywhere`, `SignedOutForGood` |
| `LoginsComeBack` | `NoRedirectLoop`, `OwnLoginsOnly` |
| `RefusalsAreRight` | `NobodyMisled`, `RefusedStaysOut` |
| `SharedMints` | `WaitersAreServed`, `MintsFitTheirCallers` |

Why the bounds are enough. Three pairs are a login, a rotation and a rotation of
its successor, or two families; two handlers are a revocation and what it
overlaps. The races we know need two actors; more only repeat them against each
other, and the theorems do not bound them. One app is enough for the key cache's
races, which are between requests. Admin and member differ in no guard of
`WorkspaceMembership`, so `members_leftovers` has owners and members only. Two
users are the least that can both give up ownership; a third one in `tenancy` is
a stranger to the workspace, and four workspaces are one there is at first and
three creations against an hourly breaker of one. Caps of one put every
creation at its limit. Two mints are one refused and its successor, two starts an
app that comes up before and after a rotation.

`Workload` (in the `sessions_*` and `members_*` runs) and `Scenarios`
(in the others) keep each run exhaustive for the questions it asks: a behaviour
picks the features it combines, how many requests begin in it and how often its
surroundings change. A scenario's features are chosen so that what interacts in
the code is in one scenario: invitations with activation, with memberships, with
the deletion of workspaces and with organizations and sign-ins; roles with memberships; single-page logins with tokens, and
so on. What is bounded is how many, never in which order.

Deadlock is checked in the `sessions_*`, `keycache` and `members_*` runs; in the
others every actor may simply be done, within the bounds. That no request waits
for good on the row locks of others is `EveryRequestEnds`.

Runs that TLC refutes, each a disagreement between the code and what is written
about it:

| Run | Says | Happens |
|---|---|---|
| `sessions_reuse_race` | `src/docs/security.md:163`: reuse revokes the entire family | a rotation in flight stores its successor after the revocation read the set; the family lives on |
| `sessions_admin_race` | `src/docs/guide/admin-panel.md:23`: deactivation revokes immediately | overlapping bulk status changes end with the user inactive and unflagged |

Four more disagreements of the same kind have no run of their own. The models
have them as named exceptions, and the invariants hold outside these only:

- `escaped`: `services/token_service.py:145` says all of a user's families are
  revoked; a token stranded outside the index by an earlier revocation is missed.
- `torn`: `src/docs/guide/service-apps.md:107` says a rotated key has no grace
  period; a slow rebuild brings it back until the TTL.
- `late`: `services/role_service.py:94` says group members are always workspace
  members; one can be inserted behind a removal.
- `staleClaim`: `services/workspace_service.py:336` says stale role claims cannot
  be used; a rotation that read the old role stores its tokens after the revocation.

## Fairness

`FairSpec` of `TokenSessions`, `ServiceKeyCache` and `WorkspaceMembership` lets
every started request go on: asyncio resumes every coroutine whose await has
completed, and Redis and Postgres answer. Arrivals, environment steps and crashes
are never fair. `ServiceKeyCache` adds that the TTL of each hash runs out.
`WorkspaceMembership` adds that Postgres aborts one of a deadlocked set, and
strong fairness for taking row locks, because Postgres queues the waiters of a
row; weak fairness would let a waiter be overtaken for ever. The other modules
assume none: users, browsers and networks owe nobody a step, and what must end
there (redirects, overshoot, counters) is stated as a bound on what may happen.

## Proofs

The proofs use no bound: any sets of users, pairs, handlers, apps, keys, tabs or
requests, any number of crashes, any workload or scenario. Every theorem follows
from an inductive invariant by one lemma per kind of step.

- `TokenSessionsProofs.TypeCorrect`: `TypeOK`, with `ReqInv`: which locals are set
  at which program counter. Needed by everything after it (a handler that rotates
  has a family).
- `SessionsNeverFork`: `RefreshNeverForks`. It is inductive only with `Lineage`: a
  live or rotating token's family is a minted pair that started itself, and what a
  handler carries agrees with the claims of what it consumed. Steps that leave
  `rt`, the claims and the rotating handlers alone are dispatched by one lemma.
- `RotationIsAChain`: `ImplementsChain`, the refinement of `RefreshChain`, step by
  step. A `Consume` or a `Store` is the abstract step of the same name because the
  family has no other live token or rotation (`SessionsNeverFork`); every other
  action kills some of a family's tokens or stutters.
- `FlagFollowsStatus`: `FlagAgrees`, from `StatusInv`: of one user at most one
  status change is under way, and where it stands says how flag and row differ.
  The first is `SerialAdmins`, which the theorem assumes of the behaviour and
  without which `sessions_admin_race` refutes `FlagAgrees`. It holds while no
  handler has crashed, as the property says.
- `LiveIsReachable`: `WithinReach`, and `AccessIsReachable`. The sets a
  revocation works through are gone from Redis long before it is done, so the
  invariant says what its locals still cover: whatever is live and was neither
  deleted nor escaped is among the tokens it has read (`CoversRefresh`,
  `CoversAccess`), and every listed family is still to be visited or being visited
  (`CoversIndex`). A step of another handler either adds to a set that is still
  there, or makes its pair escape.
- `RevokingAllIsThorough`: `RevokeAllIsThorough`. `CohortInv` follows the tokens
  that were live and listed when the revocation began: each is dead, or in the
  family being revoked, or in one still to be visited.
- `WorkspaceMembershipProofs.TypeCorrect`, and `WorkspaceHasOwner`: `HasOwner`,
  from `LocksSecure`. What makes it inductive is what a request has secured by its
  row locks once it is past its guards: its target's row, every owner it counted,
  and, if its commit will take an owner away, one owner who is not its target. Two
  counted owners give that owner (`AnotherOwner`, the only use of the finiteness
  of `Users`); a commit touches only a row its request has locked, so it disturbs
  nobody else's claim.
- `WorkspaceMembershipProofs.NoGrantOutlives` and `NoClaimOutlives`:
  `GrantsNeedMembership` and `ClaimsAreCurrent`. On top of `LocksSecure`: what a
  removal has purged so far holds no grant of its user but doomed and late ones
  (`Taken`), and an insert or an issue that no commit has overtaken still knows the
  truth (`Current`). A commit marks everyone it overtakes, so both halves survive it.
- `WorkspaceMembershipProofs.SomebodyCanGoOn`: the safety half of `EveryRequestEnds`,
  which no run states. Take any requests that wait only for each other, one of them
  in flight: one has a step to take, or some wait in a circle, which is what
  Postgres' detector looks for. It rests on `HeldBy` and `DoomedBy`: a request that
  holds a row lock is in its locked section, one that has deleted rows has all its
  locks. `GoesOn` spells out the guards of `RequestStep`, `ENABLED` being out of the
  prover's reach. That the steps are then taken, and are finitely many, is fairness
  and remains with TLC.
- `OrganizationsProofs` has no theorem of its own. It shows that a user's domain
  resolves to an organization or to none (`ResolvedOrg`), which needs that a set of
  numbers has a least element (`Least`, by well-foundedness), and that every admin
  handler keeps `OrgOK` and the users (`OrganizationsOK`, `UsersStay`).
- `OnboardingProofs.OnboardingIsTyped`: `TypeOK`.
- `OneUserPerInvitation` and `InviterStillStands`: `InvitationAdmitsOne` and
  `ClaimNeedsStanding`. A claimed invitation is never pending again and its id never
  comes back (`RedeemInv`, and `InvitesStep`: how an invitation may change at all);
  the one UPDATE reads what it requires.
- `NobodyWalksAround`: `GateHolds`. What the gate answered a request still holds
  unless the gate has moved since (`AsksInv`); every action that moves it marks the
  requests in flight (`GateStep`). That no restricted workspace falls open rests on
  the foreign key, not on the handler's early check.
- `OnboardingIsLimited`: `LimitsHold`. Whoever has counted holds the lock it counted
  under, so its count stands (`PendingInv`, `OwnInv`); the breaker has no lock, and
  what holds of it is that recent rows and creators in flight together are at most
  the limit less one plus the number of requests (`BreakerInv`).
- `AccessControlProofs.AccessIsTyped`: `TypeOK` of `AccessControl`.
- `DomainsStayApart`: `TrustDomainsApart`. Whoever is about to insert a name holds
  the advisory lock on it and the other table has not got it (`NamesAreLocked`); what
  the cache answers with was once in the tables, and so is in `held`, whatever has
  been renamed or moved since (`CacheHoldsScopes`).
- `GrantsEndWithMembership`: `NothingOutlivesMembership`. A role, a group membership
  and a share each rest on a membership, directly or through a group of the same
  workspace (`RolesAreHeld`, `GroupsAreJoined`, `GroupRolesMatch`, `SharesAreHeld`);
  an insert still in flight found it so, unless something moved (`AskOK`).
- `ChecksMatchLookups`: `CheckAgreesWithLookup`, for every row, user, role, set of
  groups and action: the two queries are two translations of one relation.
- `SignalsAreSparse`: `NoticesAreSparse`. A notice that was given is marked, by its
  damper or by the country in the set of those seen, and while one job is giving it no
  row of it exists and no other job gives it (`Once`): SET NX and SADD mark and tell
  in one step whether the mark was new. A damper cannot expire under a job that has
  its notice, which the model takes from its minutes of TTL. That a counter
  ends needs the crash between INCR and EXPIRE to be told (`stuck`).
- `RunIsTyped`: `TypesOK`, with `AccessIsTyped`. The bounds of the signals' counters
  come from counting: failures, or changed contexts, plus the jobs that have still to
  count one are at most the jobs that began (`Counts`, by the cardinality lemma
  `Counted`). `BothParts`: a behaviour of the run is one of each part.
- `SignInProofs.SignInIsTyped`: `TypeOK` of `HostedPages` and `SignIn`. This and the
  five below follow from one invariant, `ServiceOK` for the server and `BrowserOK`
  for the tabs.
- `GuardsAreSound`: `GuardsHold`. Redis is written before the commit, so whoever is
  inactive is flagged unless a reactivation is about to commit, and whoever has no
  status change under way is active or flagged (`AccountsOK`); an authorization
  token is minted together with its entry in `brought` (`TokensOK`).
- `AccountsStayOwned`: `AccountsAreOwned`. What a sign-in looked up stays true until
  it commits, except that an account without a social one may have been given one,
  and then the commit that did it has marked the sign-in (`FoundOK`, `moved`).
- `PickerOffersMintable`: `PickerIsMintable`, of every state: the list of the picker
  and the check of the exchange are two translations of one gate.
- `PagesAreHonest`: `PagesKnowTheirUser`. A csrf token names one user wherever it is
  held: in the cookie, in a page, in a request's cookie or its form
  (`NamesOneUser`). A sign-in keeps this because its token is held by nobody. The
  model picks it from 3·|Procs|+2 numbers, where the code draws 32 random bytes, and
  `FreshToken` shows that one of them is always free. After a sign-out every
  request that carries a user is older than it (`StaysOut`).
- `LoginsAreApart`: `LoginsStayApart`. A cookie's redirect, challenge and app are
  written and popped together, as are the two keys of a round trip to GitHub
  (`CookieOK`), and every response replaces the whole cookie, so no mixture of two
  logins arises. A request past `consume_auth_code` is alone with its code, which
  nobody has spent (`ExchangeOK`).
- `ServiceKeyCacheProofs.TypeCorrect` and `KeyCacheCoherent`: `CacheIsCurrent`.
  Strengthened by `Fresh`: a rebuild that no commit has overtaken holds what a
  SELECT would return now. A commit makes every rebuild in flight stale and leaves
  an invalidation pending, so nothing is promised until that invalidation empties
  both hashes or its request dies and tears them.
- `ClientProofs.NoThieves`: `TabsAreNoThieves`. With Web Locks at most one tab
  is between its fetch and its answer (`Serialized`); what a tab would read is the
  server's newest token, but for the time between the server's rotation and
  `setTokens` (`Current`); what is on the wire is that token (`OnWire`). Without a
  shared store no two tabs know one session (`Owned`), so the same argument holds
  for each. A family that lost an answer is outside all of this.
- `RedirectsEnd`: `LoginsComeBack`. A tab that is away without a
  fresh marker still has an automatic redirect to spare (`Bounded`), and wherever a
  tab holds an account, the identity provider sent it to that tab (`Known`).
- `SessionsLast`: `SessionIsKept`. Inductive with two additions. A tab whose refresh
  was refused carries a family that lost an answer (`RefusedAreLost`), so what
  `RefreshEnds` clears for it is not the newest session; and with one store *every* tab
  keeps the session and no logout's message is under way, where without one it is
  some tab (`Lasting`). Only a sign-in that comes while a refresh or such a message
  is under way (`UnderWay`) may lose its session to either.
- `TabsSignOut`: `SignedOutEverywhere`. Between the logout and the next sign-in each
  tab is empty or has the message before it, and no request can bring a token
  (`Quiet`); a tab at the identity provider has nothing to bring back (`Away`).
- `AuthzTabsSignOut`: `SignedOutForGood`. After a logout the authorization store is
  empty and every tab is `Silent`: no mint under way, not at the provider, and no
  answer to come back to that it has asked for. `EveryTabSignsOut` puts both together as `SignedOut`.
- `MintsAreShared`: `SharedMints`. A minted token belongs to one pair of caller and
  workspace, wherever it is held (`CacheOK`, `RequestsOK`), so throwing it out of
  that pair's entry throws it out everywhere.
- `RefusalsHaveReasons`: `RefusalsAreRight`. While the processes agree, every key a
  token in use was signed with is the newest or the one before it, and some process
  publishes it (`Published`, `KeysOK`), so an app that refetches finds it. The one before it
  leaves only under `OverlapIsOver`, which asks that no live token needs it.
- `OwnWritesSeen`: `OwnWritesAreSeen`. A question under way is from after the last
  write or is marked by the write that overtakes it (`Questioned`); what is cached
  was such a question's answer.
- `ClientsAreTyped`: `TypesOK` of all three parts. Strengthened where a type depends
  on more than a type: a token's key is one Duar has had, the lock is held by a tab
  with a request, one store has one value.

The assumptions are the modules' named `ASSUME`s: sentinels that are distinct and in
none of the sets, natural bounds, finite sets where something is counted (users,
invitations, workspaces, requests, jobs), at least owners and members among the roles,
and rows that are consistent at first where a behaviour starts with some.

Every safety and action property of the passing runs is a theorem. Only
model-checked are the three liveness properties (`NoLimbo`, `RetiredKeysDie`,
`EveryRequestEnds`), since liveness under fairness and ENABLED are out of the
prover's reach. So are induction over data, which no theorem here needs, and RECURSIVE
operators, of which the project has none.

## What would come next

The composition of `TabSessions` with `TokenSessions` in place of the numbered family
it uses now. For `NoLimbo` and `RetiredKeysDie`, the safety half of which says no
more than that a rotation in flight and a retired key each have a step left to
take, nothing beyond TLC's runs is worth stating.

## Not modelled

- The middleware. Rate limits are the slowapi library's; the access log and the
  headers keep no state. `refresh_origins` (`middleware/cors.py`) replaces one set
  per worker by a plain read, so an older read can win until the next change; no
  line of the code promises more.
- Cryptography, parsing, formatting and logging: signatures, hashes, the retrieval
  of an identity provider's keys and its claim formats are data here.
- Edits that no decision reads: renames, descriptions, profile fields, listings,
  statistics, exports and the pruning of the activity log.
- The admin UI, the demos, the migrations, insights and the scripts under
  `src/pentest`: presentation, examples, schema and tests of a running service.
- The Python SDK's role client, MCP helpers and proxy router, and the Next.js
  proxy handlers: thin calls without state.
- Crashes inside a status change: with them `FlagAgrees` fails in the direction
  the code's comment accepts (flagged, though still active).
- Several Postgres or Redis nodes: the code assumes one of each. Several service
  processes are modelled where they keep state of their own, which is their keys.
