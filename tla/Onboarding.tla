---------------------------- MODULE Onboarding ----------------------------
(***************************************************************************)
(* How users come to be members of workspaces: invitations, self-serve     *)
(* creation, and the direct additions of admins, in front of the           *)
(* organization gate.  A handler is one Postgres transaction; it is split  *)
(* where it reads what another may change before it writes, and where it   *)
(* waits for a row lock.                                                   *)
(***************************************************************************)
EXTENDS Organizations

CONSTANTS Invites,       \* invitations that may be created
          Grantable,     \* roles an invitation may grant
          Procs,         \* requests in flight together
          MaxPending,    \* MAX_PENDING_PER_WORKSPACE
          MaxOwn,        \* settings.self_serve_max_workspaces_per_user
          MaxPerHour,    \* settings.self_serve_max_creates_per_hour
          Founded, Founder, \* the workspace there is at first, and its owner
          Newcomers,     \* users without a row at first
          Gone,          \* an invitation whose row went with its workspace
          Addresses,     \* bound: what an invitation may be locked to
          Scenarios      \* bound: the features a behaviour combines, how many requests
                         \* begin in it and how often the organizations change

Invite == [ws: Workspaces, role: Grantable, email: Users \cup {None}, by: Users,
           accepted_by: Users \cup {None}, revoked: BOOLEAN, expired: BOOLEAN]

ASSUME OnboardingAssumption ==
  /\ Grantable \subseteq {"viewer", "editor", "admin"}
  /\ {MaxPending, MaxOwn, MaxPerHour} \subseteq Nat \ {0}
  /\ \A S \in {Invites, Workspaces, Procs} : IsFiniteSet(S)
  /\ Founded \in Workspaces /\ Founder \in Users /\ Newcomers \subseteq Users
  /\ Addresses \subseteq Users \cup {None}
  /\ None \notin Procs \cup {"viewer", "editor", "admin", "owner"}
  /\ Gone # None /\ None \notin Invite /\ Gone \notin Invite
  /\ Scenarios \subseteq [features: SUBSET {"inviting", "creating", "deleting", "members", "orgs",
                                       "signin", "status"},
                          requests: Nat, changes: Nat]

Roles == Grantable \cup {"owner", "admin"}
AdminRoles == {"owner", "admin"}

VARIABLES active,     \* users.is_active
          role,       \* workspace_memberships
          inv,        \* workspace_invitations; None: not created yet
          creator,    \* workspaces.created_by
          recent,     \* workspaces created within the last hour
          selfMade,   \* history: workspaces created by create_self_serve
          lock,       \* FOR UPDATE locks on users and workspaces
          req,        \* requests between two statements
          redeemed,   \* history: the claims that succeeded
          collided,   \* history: users whose generated slug collided
          arrived, changes, \* how many of those there have been
          selfServe,  \* settings.self_serve_enabled
          on          \* the scenario of this behaviour

spaces == <<creator, recent, selfMade>>
people == <<active, role, inv, spaces>>
settings == <<arrived, changes, selfServe, on>>
vars == <<tenancy, people, lock, req, redeemed, collided, settings>>

Request == [pc: {"idle", "claim", "revoke", "count", "invite", "cap", "create", "manage", "add"},
            user: Users \cup {None}, ws: Workspaces \cup {None}, inv: Invites \cup {None},
            who: Users \cup {None}, role: Roles \cup {None}, actor: Roles \cup {None},
            tries: 0 .. 3, moved: BOOLEAN]

Idle == [pc |-> "idle", user |-> None, ws |-> None, inv |-> None, who |-> None,
         role |-> None, actor |-> None, tries |-> 0, moved |-> FALSE]

TypeOK ==
  /\ OrganizationsTypeOK
  /\ active \in [Users -> BOOLEAN]
  /\ role \in [Workspaces -> [Users -> Roles \cup {None}]]
  /\ inv \in [Invites -> Invite \cup {None, Gone}]
  /\ creator \in [Workspaces -> Users \cup {None}]
  /\ recent \in SUBSET Workspaces
  /\ selfMade \in SUBSET Workspaces
  /\ lock \in [Users \cup Workspaces -> Procs \cup {None}]
  /\ req \in [Procs -> Request]
  /\ redeemed \in SUBSET (Invites \X Users)
  /\ collided \in SUBSET Users
  /\ arrived \in 0 .. on.requests /\ changes \in 0 .. on.changes
  /\ selfServe \in BOOLEAN
  /\ on \in Scenarios

NoRoles == [u \in Users |-> None]

Init ==
  /\ OrganizationsInit
  /\ known = Users \ Newcomers
  /\ live = {Founded}
  /\ role = [w \in Workspaces |-> IF w = Founded THEN [NoRoles EXCEPT ![Founder] = "owner"] ELSE NoRoles]
  /\ creator = [w \in Workspaces |-> IF w = Founded THEN Founder ELSE None]
  /\ active = [u \in Users |-> TRUE]
  /\ inv = [i \in Invites |-> None]
  /\ recent = {}
  /\ selfMade = {}
  /\ lock = [x \in Users \cup Workspaces |-> None]
  /\ req = [s \in Procs |-> Idle]
  /\ redeemed = {}
  /\ collided = {}
  /\ arrived = 0 /\ changes = 0
  /\ selfServe \in BOOLEAN
  /\ on \in Scenarios

Become(s, q) == req' = [req EXCEPT ![s] = q]

(* A request begins: what it read first is in q. *)
Arrive(s, q) ==
  /\ req[s].pc = "idle" /\ arrived < on.requests
  /\ arrived' = arrived + 1
  /\ Become(s, q)
  /\ UNCHANGED <<tenancy, people, lock, redeemed, collided, changes, selfServe, on>>

Unlocked(s) == [x \in DOMAIN lock |-> IF lock[x] = s THEN None ELSE lock[x]]

(* SELECT ... FOR UPDATE *)
UnlockedRead(x) == TRUE                                       \* mutant: no FOR UPDATE
RowFree(x) == lock[x] = None

(* _session_user: the signed-in user of a hosted page, still active. *)
SessionUser(u) == u \in known /\ active[u]

-----------------------------------------------------------------------------
(* invitation_service *)

(* The row is there. *)
IsInvite(i) == inv[i] \notin {None, Gone}

Pending(i) == IsInvite(i) /\ inv[i].accepted_by = None /\ ~inv[i].revoked /\ ~inv[i].expired

inviter_standing(i) == role[inv[i].ws][inv[i].by] \in AdminRoles /\ active[inv[i].by]

list_for_workspace(w) == {i \in Invites : Pending(i) /\ inv[i].ws = w}

peek(i) == Pending(i) /\ inviter_standing(i)

(* POST /onboard/join: redeem peeks, compares the address and asks the gate ... *)
join(s, u, i) ==
  /\ selfServe
  /\ SessionUser(u)
  /\ peek(i)
  /\ inv[i].email \in {None, u}
  /\ UserAllowedIn(u, inv[i].ws)
  /\ Arrive(s, [Idle EXCEPT !.pc = "claim", !.user = u, !.inv = i])

(* ... and claims with one conditional UPDATE.  Expiry is compared with the
   time the request began, so it no longer counts. *)
ClaimableOnPeek(i) == IsInvite(i) /\ ~inv[i].revoked        \* mutants: the UPDATE repeats
ClaimableAnyInviter(i) ==                                     \* less of what peek asked
  IsInvite(i) /\ inv[i].accepted_by = None /\ ~inv[i].revoked
Claimable(i) ==
  IsInvite(i) /\ inv[i].accepted_by = None /\ ~inv[i].revoked /\ inviter_standing(i)

Claim(s) ==
  LET q == req[s]
      i == q.inv
      w == inv[i].ws IN
  /\ q.pc = "claim"
  /\ Become(s, Idle)
  /\ IF Claimable(i)
       THEN /\ inv' = [inv EXCEPT ![i].accepted_by = q.user]
            /\ redeemed' = redeemed \cup {<<i, q.user>>}
            /\ role' = IF role[w][q.user] = None THEN [role EXCEPT ![w][q.user] = inv[i].role]
                       ELSE role
       ELSE UNCHANGED <<inv, role, redeemed>>
  /\ UNCHANGED <<tenancy, active, spaces, lock, collided, settings>>

(* POST /onboard/invites reads the actor's role; create then waits for the
   workspace row, counts, and inserts. *)
create_invite(s, u, w, as, email) ==
  /\ selfServe
  /\ SessionUser(u)
  /\ role[w][u] \in AdminRoles
  /\ Arrive(s, [Idle EXCEPT !.pc = "count", !.user = u, !.ws = w, !.role = as, !.who = email])

CountPending(s) ==
  LET q == req[s] IN
  /\ q.pc = "count"
  /\ RowFree(q.ws)
  /\ IF Cardinality(list_for_workspace(q.ws)) >= MaxPending
       THEN Become(s, Idle) /\ UNCHANGED lock
       ELSE Become(s, [q EXCEPT !.pc = "invite"]) /\ lock' = [lock EXCEPT ![q.ws] = s]
  /\ UNCHANGED <<tenancy, people, redeemed, collided, settings>>

NewInviteSwapped(q) ==                                        \* mutant: swapped columns
  [ws |-> q.ws, role |-> q.role, email |-> q.user, by |-> q.who,
   accepted_by |-> None, revoked |-> FALSE, expired |-> FALSE]
NewInvite(q) ==
  [ws |-> q.ws, role |-> q.role, email |-> q.who, by |-> q.user,
   accepted_by |-> None, revoked |-> FALSE, expired |-> FALSE]

InsertInvite(s) ==
  LET q == req[s]
      i == CHOOSE j \in Invites : inv[j] = None IN
  /\ q.pc = "invite"
  /\ \E j \in Invites : inv[j] = None
  /\ IF q.ws \in live
       THEN inv' = [inv EXCEPT ![i] = NewInvite(q)]
       ELSE UNCHANGED inv
  /\ Become(s, Idle)
  /\ lock' = Unlocked(s)
  /\ UNCHANGED <<tenancy, active, role, spaces, redeemed, collided, settings>>

(* POST /onboard/invites/{id}/revoke reads the invitation as pending, then
   stamps revoked_at whatever has happened to it since. *)
revoke_invite(s, u, i) ==
  /\ selfServe
  /\ SessionUser(u)
  /\ Pending(i)
  /\ role[inv[i].ws][u] \in AdminRoles
  /\ Arrive(s, [Idle EXCEPT !.pc = "revoke", !.user = u, !.inv = i])

Revoke(s) ==
  /\ req[s].pc = "revoke"
  /\ inv' = IF IsInvite(req[s].inv) THEN [inv EXCEPT ![req[s].inv].revoked = TRUE] ELSE inv
  /\ Become(s, Idle)
  /\ UNCHANGED <<tenancy, active, role, spaces, lock, redeemed, collided, settings>>

(* INVITATION_TTL *)
Expire(i) ==
  /\ Pending(i)
  /\ inv' = [inv EXCEPT ![i].expired = TRUE]
  /\ UNCHANGED <<tenancy, active, role, spaces, lock, req, redeemed, collided, settings>>

-----------------------------------------------------------------------------
(* workspace_service: creation *)

count_created_by(u) == Cardinality({w \in live : creator[w] = u})

(* create_self_serve, from the hosted page (three tries at a generated slug)
   or from the API (its own slug, one try): lock the user, count, create. *)
create(s, u) ==
  /\ selfServe
  /\ SessionUser(u)
  /\ Arrive(s, [Idle EXCEPT !.pc = "cap", !.user = u, !.tries = 3])

ApiCreate(s, u) ==
  /\ selfServe
  /\ SessionUser(u)
  /\ Arrive(s, [Idle EXCEPT !.pc = "cap", !.user = u, !.tries = 1])

CapReached(u) == count_created_by(u) >= MaxOwn
Throttled == Cardinality(recent) >= MaxPerHour

create_self_serve(s) ==
  LET u == req[s].user IN
  /\ req[s].pc = "cap"
  /\ RowFree(u)
  /\ IF CapReached(u) \/ Throttled
       THEN Become(s, Idle) /\ UNCHANGED lock
       ELSE Become(s, [req[s] EXCEPT !.pc = "create"]) /\ lock' = [lock EXCEPT ![u] = s]
  /\ UNCHANGED <<tenancy, people, redeemed, collided, settings>>

(* create_workspace: a new row, and its creator's membership as the owner. *)
Unused == {w \in Workspaces : creator[w] = None}
Fresh == CHOOSE w \in Unused : TRUE

create_workspace(w, u) ==
  /\ Unused # {}
  /\ live' = live \cup {w}
  /\ creator' = [creator EXCEPT ![w] = u]
  /\ role' = [role EXCEPT ![w][u] = "owner"]
  /\ recent' = recent \cup {w}

CreateWorkspace(s) ==
  /\ req[s].pc = "create"
  /\ create_workspace(Fresh, req[s].user)
  /\ selfMade' = selfMade \cup {Fresh}
  /\ lock' = Unlocked(s)
  /\ Become(s, Idle)
  /\ UNCHANGED <<orgState, rule, known, orgOf, allow, adminReq, active, inv, redeemed, collided, settings>>

(* The slug collides: the rollback drops the user's row lock, and the retry
   counts nothing again. *)
SlugCollides(s) ==
  LET left == req[s].tries - 1 IN
  /\ req[s].pc = "create"
  /\ lock' = Unlocked(s)
  /\ Become(s, IF left = 0 THEN Idle ELSE [req[s] EXCEPT !.tries = left])
  /\ collided' = collided \cup {req[s].user}
  /\ UNCHANGED <<tenancy, people, redeemed, settings>>

HourPasses ==
  /\ recent # {}
  /\ recent' = {}
  /\ UNCHANGED <<tenancy, active, role, inv, creator, selfMade, lock, req, redeemed, collided, settings>>

(* POST /admin/workspaces: no cap, and a row of the hour's count. *)
AdminCreateWorkspace(u) ==
  /\ create_workspace(Fresh, u)
  /\ UNCHANGED <<orgState, rule, known, orgOf, allow, adminReq, active, inv, selfMade, lock, req,
                 redeemed, collided, settings>>

(* delete_workspace: the rows that hang on it cascade; tokens stay. *)
DeleteWorkspace(w) ==
  /\ w \in live
  /\ \A s \in Procs : lock[w] # s
  /\ live' = live \ {w}
  /\ role' = [role EXCEPT ![w] = NoRoles]
  /\ inv' = [i \in Invites |-> IF IsInvite(i) /\ inv[i].ws = w THEN Gone ELSE inv[i]]
  /\ allow' = [allow EXCEPT ![w] = {}]
  /\ recent' = recent \ {w}
  /\ UNCHANGED <<orgState, rule, known, orgOf, adminReq, active, creator, selfMade, lock, req, redeemed,
                 collided, settings>>

ApiDeleteWorkspace(w, claimed) == claimed = "owner" /\ DeleteWorkspace(w)
AdminDeleteWorkspace(w) == DeleteWorkspace(w)

-----------------------------------------------------------------------------
(* workspace_service: members.  Every surface hands the service the role its
   actor is taken to have: as read a moment ago (hosted pages), as claimed by
   its token, which may be out of date (API), or "owner" (admin console). *)

Managing(w, who, as, actor) == 
  [Idle EXCEPT !.pc = "manage", !.ws = w, !.who = who, !.role = as, !.actor = actor]

(* as is the new role, None for a removal. *)
manage_actor(s, u, w, who, as) ==
  /\ SessionUser(u)
  /\ role[w][u] \in AdminRoles
  /\ Arrive(s, Managing(w, who, as, role[w][u]))

change_member_role(s, u, w, who, as) == role[w][who] # as /\ manage_actor(s, u, w, who, as)
remove_member_page(s, u, w, who) == manage_actor(s, u, w, who, None)

leave_workspace(s, u, w) ==
  /\ SessionUser(u)
  /\ role[w][u] # None
  /\ Arrive(s, Managing(w, u, None, role[w][u]))

ApiUpdateMember(s, w, who, as, claimed) ==
  claimed \in AdminRoles /\ Arrive(s, Managing(w, who, as, claimed))
ApiRemoveMember(s, w, who, claimed) ==
  claimed \in AdminRoles /\ Arrive(s, Managing(w, who, None, claimed))
AdminUpdateMember(s, w, who, as) == Arrive(s, Managing(w, who, as, "owner"))
AdminRemoveMember(s, w, who) == Arrive(s, Managing(w, who, None, "owner"))

Owners(w) == {u \in Users : role[w][u] = "owner"}
LastOwner(w, who) == Owners(w) = {who}

update_member_role_allowed(w, who, as, actor) ==
  /\ as = "owner" => actor = "owner"
  /\ role[w][who] = "owner" => actor = "owner" /\ (as # "owner" => ~LastOwner(w, who))

remove_member_allowed(w, who, actor) ==
  role[w][who] = "owner" => actor = "owner" /\ ~LastOwner(w, who)

(* The commit of a change or a removal. *)
Manage(s) ==
  LET q == req[s]
      allowed == /\ role[q.ws][q.who] # None
                 /\ IF q.role = None THEN remove_member_allowed(q.ws, q.who, q.actor)
                                     ELSE update_member_role_allowed(q.ws, q.who, q.role, q.actor) IN
  /\ q.pc = "manage"
  /\ Become(s, Idle)
  /\ IF allowed
       THEN role' = [role EXCEPT ![q.ws][q.who] = q.role]
       ELSE UNCHANGED role
  /\ UNCHANGED <<tenancy, active, inv, spaces, lock, redeemed, collided, settings>>

(* The additions: the gate, then the INSERT, whose unique constraint refuses a
   second membership. *)
Adding(s, who, w, as) ==
  /\ w \in live
  /\ Arrive(s, [Idle EXCEPT !.pc = "add", !.who = who, !.ws = w, !.role = as])

invite_member(s, who, w, as, actor) ==
  /\ as = "owner" => actor = "owner"
  /\ who \in known
  /\ role[w][who] = None
  /\ UserAllowedIn(who, w)
  /\ Adding(s, who, w, as)

(* Closed in self-serve mode: nobody is added without an action of his own. *)
ApiInviteMember(s, who, w, as, claimed) ==
  /\ ~selfServe
  /\ claimed \in AdminRoles
  /\ invite_member(s, who, w, as, claimed)

AdminInviteMember(s, who, w, as) == invite_member(s, who, w, as, "owner")

AddUngated(s, who, w, as) == who \in known /\ Adding(s, who, w, as)   \* mutant: no gate
add_user_to_workspace(s, who, w, as) ==
  /\ who \in known
  /\ UserAllowedIn(who, w)
  /\ Adding(s, who, w, as)

(* One row of a CSV; a user it brings along gets the organization of its
   domain. *)
execute_import(s, who, w, as) ==
  /\ role[w][who] = None
  /\ UserAllowedIn(who, w)
  /\ Adding(s, who, w, as)

InsertMember(s) ==
  LET q == req[s] IN
  /\ q.pc = "add"
  /\ Become(s, Idle)
  /\ IF q.ws \in live /\ role[q.ws][q.who] = None
       THEN /\ role' = [role EXCEPT ![q.ws][q.who] = q.role]
            /\ known' = known \cup {q.who}
            /\ orgOf' = IF q.who \in known THEN orgOf
                        ELSE [orgOf EXCEPT ![q.who] = resolve_organization(q.who)]
       ELSE UNCHANGED <<role, known, orgOf>>
  /\ UNCHANGED <<orgState, rule, live, allow, adminReq, active, inv, spaces, lock, redeemed,
                 collided, settings>>

-----------------------------------------------------------------------------
(* update_user's is_active. *)
SetActive(u, yes) ==
  /\ u \in known
  /\ active[u] # yes
  /\ active' = [active EXCEPT ![u] = yes]
  /\ UNCHANGED <<tenancy, role, inv, spaces, lock, req, redeemed, collided, settings>>

(* The request dies or its transaction fails: its locks go with it. *)
Dies(s) ==
  /\ req[s].pc # "idle"
  /\ Become(s, Idle)
  /\ lock' = Unlocked(s)
  /\ UNCHANGED <<tenancy, people, redeemed, collided, settings>>

(* An admin's change of the organizations, or a sign-in, under the requests
   that have asked the gate already. *)
GateMoves(step) ==
  /\ step
  /\ changes < on.changes
  /\ changes' = changes + 1
  /\ req' = [s \in Procs |-> IF req[s].pc = "idle" THEN Idle ELSE [req[s] EXCEPT !.moved = TRUE]]
  /\ UNCHANGED <<people, lock, redeemed, collided, arrived, selfServe, on>>

-----------------------------------------------------------------------------
Inviting ==
  \E s \in Procs :
    \/ \E u \in Users, i \in Invites : join(s, u, i) \/ revoke_invite(s, u, i)
    \/ \E u \in Users, w \in Workspaces, as \in Grantable, email \in Addresses :
         create_invite(s, u, w, as, email)
    \/ Claim(s) \/ CountPending(s) \/ InsertInvite(s) \/ Revoke(s)

Creating ==
  \/ \E s \in Procs : \/ \E u \in Users : create(s, u) \/ ApiCreate(s, u)
                       \/ create_self_serve(s) \/ CreateWorkspace(s) \/ SlugCollides(s)
  \/ \E u \in known : AdminCreateWorkspace(u)
  \/ HourPasses

Deleting ==
  \E w \in Workspaces : \/ \E claimed \in Roles : ApiDeleteWorkspace(w, claimed)
                        \/ AdminDeleteWorkspace(w)

MembersChange ==
  \E s \in Procs :
    \/ \E w \in live, who \in Users :
         \/ \E u \in Users : \/ \E as \in Roles : change_member_role(s, u, w, who, as)
                            \/ remove_member_page(s, u, w, who)
         \/ leave_workspace(s, who, w)
         \/ \E claimed \in Roles : \/ ApiRemoveMember(s, w, who, claimed)
                                  \/ \E as \in Roles : \/ ApiUpdateMember(s, w, who, as, claimed)
                                                      \/ ApiInviteMember(s, who, w, as, claimed)
         \/ AdminRemoveMember(s, w, who)
         \/ \E as \in Roles : \/ AdminUpdateMember(s, w, who, as)
                             \/ AdminInviteMember(s, who, w, as)
                             \/ add_user_to_workspace(s, who, w, as)
                             \/ execute_import(s, who, w, as)
    \/ Manage(s) \/ InsertMember(s)

Next ==
  \/ "inviting" \in on.features /\ (Inviting \/ \E i \in Invites : Expire(i))
  \/ "creating" \in on.features /\ Creating
  \/ "deleting" \in on.features /\ Deleting
  \/ "members" \in on.features /\ MembersChange
  \/ "orgs" \in on.features /\ GateMoves(OrganizationsNext)
  \/ "signin" \in on.features /\ GateMoves(\E u \in Users : SignIn(u))
  \/ "status" \in on.features /\ \E u \in Users, yes \in BOOLEAN : SetActive(u, yes)
  \/ \E s \in Procs : Dies(s)

Spec == Init /\ [][Next]_vars

-----------------------------------------------------------------------------
(* PROPERTIES *)

(* One invitation lets in at most one user, the one it names as accepted_by,
   however many redeem its code at once. *)
InvitationAdmitsOne ==
  \A c \in redeemed : IsInvite(c[1]) => inv[c[1]].accepted_by = c[2]

(* An invitation is claimed only while it is neither revoked nor claimed and
   its inviter, still active, still administers the workspace: all judged by
   the UPDATE that claims it, however long ago it was peeked at. *)
ClaimNeedsStanding ==
  [][\A i \in Invites :
       IsInvite(i) /\ IsInvite(i)' /\ inv[i].accepted_by # inv'[i].accepted_by =>
         /\ inv[i].accepted_by = None /\ ~inv[i].revoked
         /\ role[inv[i].ws][inv[i].by] \in AdminRoles /\ active[inv[i].by]]_vars

(* Concurrent creations of invitations never exceed a workspace's cap. *)
PendingCap == \A w \in Workspaces : Cardinality(list_for_workspace(w)) <= MaxPending

(* Concurrent creations by one user never exceed the user's cap, unless a
   slug collision made one of them drop its row lock.  (Workspaces an admin
   creates count, and are not limited.) *)
SelfServeCap ==
  \A u \in Users \ collided : Cardinality({w \in live \cap selfMade : creator[w] = u}) <= MaxOwn

(* The hourly breaker is counted without a lock: every request in flight may
   pass it on the same count, and none after that. *)
BreakerOvershoot == Cardinality(recent \cap selfMade) <= MaxPerHour - 1 + Cardinality(Procs)

(* The three limits of onboarding hold together. *)
LimitsHold == PendingCap /\ SelfServeCap /\ BreakerOvershoot

(* On every path that creates a membership the allowed-orgs gate admitted the
   user; what it saw may have changed only while the request was in flight.
   (assert_user_allowed_in_workspace, "the single chokepoint") *)
GateOnEveryPath ==
  [][\A w \in Workspaces, u \in Users :
       role[w][u] = None /\ role'[w][u] # None =>
         \/ w \notin live /\ creator'[w] = u
         \/ UserAllowedIn(u, w)
         \/ \E s \in Procs : /\ req[s].moved
                            /\ \/ req[s].pc = "claim" /\ req[s].user = u
                               \/ req[s].pc = "add" /\ req[s].who = u]_vars

(* The gate is asked on every path in, and is never widened behind the
   administrators' backs. *)
GateHolds == GateOnEveryPath /\ OpenedOnlyByPut
=============================================================================
