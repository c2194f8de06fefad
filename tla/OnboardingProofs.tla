-------------------------- MODULE OnboardingProofs --------------------------
(***************************************************************************)
(* Theorems of Onboarding, for every set of users, workspaces,             *)
(* organizations, invitations and requests, every limit, and every         *)
(* combination of the features a behaviour may use.                        *)
(***************************************************************************)
EXTENDS Onboarding, OrganizationsProofs, FiniteSetTheorems

(* What a request holds at each program counter. *)
ReqOK(q) ==
  /\ q.pc \in {"claim", "revoke"} => q.inv \in Invites
  /\ q.pc \in {"claim", "count", "invite", "cap", "create"} => q.user \in Users
  /\ q.pc \in {"count", "invite"} => q.ws \in Workspaces /\ q.role \in Grantable
  /\ q.pc \in {"cap", "create"} => q.tries \in 1 .. 3
  /\ q.pc \in {"manage", "add"} => q.ws \in Workspaces /\ q.who \in Users
  /\ q.pc = "add" => q.role \in Roles
TypeInv ==
  /\ TypeOK
  /\ rule \in [Domains -> Rule \cup {None}]
  /\ \A s \in Procs : ReqOK(req[s])
  /\ \A a \in Admins : AdminOK(adminReq[a])

(* Workspaces are not created twice, and only a row that exists is live. *)
RowInv == \A w \in Workspaces : creator[w] = None => w \notin live \cup selfMade

(* An invitation, once there, is never created again. *)
RedeemInv ==
  /\ \A c \in redeemed : inv[c[1]] # None
  /\ \A s \in Procs : req[s].pc = "claim" => inv[req[s].inv] # None
  /\ InvitationAdmitsOne

(* What the gate answered still holds, unless the gate has moved. *)
AsksInv ==
  /\ \A u \in Users \ known : orgOf[u] = None
  /\ \A s \in Procs : ~req[s].moved =>
       /\ req[s].pc = "add" => UserAllowedIn(req[s].who, req[s].ws)
       /\ req[s].pc = "claim" /\ IsInvite(req[s].inv) =>
            UserAllowedIn(req[s].user, inv[req[s].inv].ws)

(* Whoever has counted holds the lock it counted under, and the count stands. *)
SelfMadeBy(u) == {w \in live \cap selfMade : creator[w] = u}
Creators == {s \in Procs : req[s].pc = "create"}
PendingInv ==
  /\ PendingCap
  /\ \A s \in Procs : req[s].pc = "invite" =>
       lock[req[s].ws] = s /\ Cardinality(list_for_workspace(req[s].ws)) < MaxPending
OwnInv ==
  /\ SelfServeCap
  /\ \A s \in Procs : req[s].pc = "create" /\ req[s].user \notin collided =>
       lock[req[s].user] = s /\ Cardinality(SelfMadeBy(req[s].user)) < MaxOwn
BreakerInv ==
  Cardinality(recent \cap selfMade) + Cardinality(Creators) <= MaxPerHour - 1 + Cardinality(Procs)
LimitInv == PendingInv /\ OwnInv /\ BreakerInv

(* TypeInv in three parts: the organizations (OrgOK), the rest of the state, and
   the requests. *)
SpaceOK ==
  /\ active \in [Users -> BOOLEAN]
  /\ role \in [Workspaces -> [Users -> Roles \cup {None}]]
  /\ inv \in [Invites -> Invite \cup {None, Gone}]
  /\ creator \in [Workspaces -> Users \cup {None}]
  /\ recent \in SUBSET Workspaces /\ selfMade \in SUBSET Workspaces
  /\ lock \in [Users \cup Workspaces -> Procs \cup {None}]
  /\ redeemed \in SUBSET (Invites \X Users) /\ collided \in SUBSET Users
  /\ arrived \in 0 .. on.requests /\ changes \in 0 .. on.changes
  /\ selfServe \in BOOLEAN /\ on \in Scenarios

LEMMA TypeSplit ==
  TypeInv <=> OrgOK /\ SpaceOK /\ req \in [Procs -> Request] /\ \A s \in Procs : ReqOK(req[s])
  BY DEF TypeInv, TypeOK, OrgOK, SpaceOK

-----------------------------------------------------------------------------
(* What a step can be: an arrival that has passed the checks of its page, a
   statement of a request under way, or something behind the requests' backs. *)

Asked(q) ==
  /\ q \in Request /\ ReqOK(q) /\ ~q.moved
  /\ q.pc \notin {"idle", "invite", "create"}
  /\ q.pc = "add" => UserAllowedIn(q.who, q.ws)
  /\ q.pc = "claim" => IsInvite(q.inv) /\ UserAllowedIn(q.user, inv[q.inv].ws)

Statement(s) ==
  \/ Claim(s) \/ CountPending(s) \/ InsertInvite(s) \/ Revoke(s)
  \/ create_self_serve(s) \/ CreateWorkspace(s) \/ SlugCollides(s)
  \/ Manage(s) \/ InsertMember(s) \/ Dies(s)

Elsewhere ==
  \/ \E i \in Invites : Expire(i)
  \/ \E u \in Users : AdminCreateWorkspace(u)
  \/ HourPasses
  \/ \E w \in Workspaces : DeleteWorkspace(w)
  \/ \E u \in Users, yes \in BOOLEAN : SetActive(u, yes)
  \/ GateMoves(OrganizationsNext)
  \/ GateMoves(\E u \in Users : SignIn(u))

LEMMA GrantableRoles == Grantable \subseteq Roles /\ AdminRoles \subseteq Roles /\ None \notin Roles
  BY OnboardingAssumption DEF Roles, AdminRoles

LEMMA IdleOK == Idle \in Request /\ ReqOK(Idle)
  BY DEF Idle, Request, ReqOK

(* The locals that an arrival takes. *)
LEMMA ManagingAsked ==
  ASSUME NEW w \in Workspaces, NEW who \in Users, NEW as \in Roles \cup {None}, NEW actor \in Roles
  PROVE  Asked(Managing(w, who, as, actor))
<1> DEFINE q == Managing(w, who, as, actor)
<1>1. q \in Request
  BY IdleOK DEF Managing, Request
<1>2. q.pc = "manage" /\ q.who = who /\ q.ws = w /\ ~q.moved
  BY DEF Managing, Idle
<1> HIDE DEF q
<1>3. Asked(q)
  BY <1>1, <1>2 DEF Asked, ReqOK
<1> QED BY <1>3 DEF q

LEMMA AddingAsked ==
  ASSUME NEW w \in Workspaces, NEW who \in Users, NEW as \in Roles, UserAllowedIn(who, w)
  PROVE  Asked([Idle EXCEPT !.pc = "add", !.who = who, !.ws = w, !.role = as])
<1> DEFINE q == [Idle EXCEPT !.pc = "add", !.who = who, !.ws = w, !.role = as]
<1>1. q \in Request
  BY IdleOK DEF Request
<1>2. q.pc = "add" /\ q.who = who /\ q.ws = w /\ q.role = as /\ ~q.moved
  BY DEF Idle
<1> HIDE DEF q
<1>3. Asked(q)
  BY <1>1, <1>2 DEF Asked, ReqOK
<1> QED BY <1>3 DEF q

Arrives == \E s \in Procs, q \in Request : Asked(q) /\ Arrive(s, q)

LEMMA Arrived == ASSUME NEW s \in Procs, NEW q, Asked(q), Arrive(s, q) PROVE Arrives
  BY DEF Arrives, Asked

LEMMA InvitingCases ==
  ASSUME TypeInv, Inviting
  PROVE  Arrives \/ \E s \in Procs : Claim(s) \/ CountPending(s) \/ InsertInvite(s) \/ Revoke(s)
<1>1. ASSUME NEW s \in Procs, NEW u \in Users, NEW i \in Invites, join(s, u, i) PROVE Arrives
  <2> DEFINE q == [Idle EXCEPT !.pc = "claim", !.user = u, !.inv = i]
  <2>1. q \in Request
    BY IdleOK DEF Request
  <2>2. q.pc = "claim" /\ q.user = u /\ q.inv = i /\ ~q.moved
    BY DEF Idle
  <2> HIDE DEF q
  <2>3. Asked(q)
    BY <1>1, <2>1, <2>2 DEF Asked, ReqOK, join, peek, Pending
  <2> QED BY <1>1, <2>3, Arrived DEF join, q
<1>2. ASSUME NEW s \in Procs, NEW u \in Users, NEW i \in Invites, revoke_invite(s, u, i) PROVE Arrives
  <2> DEFINE q == [Idle EXCEPT !.pc = "revoke", !.user = u, !.inv = i]
  <2>0. q \in Request
    BY IdleOK DEF Request
  <2>2. q.pc = "revoke" /\ q.user = u /\ q.inv = i /\ ~q.moved
    BY DEF Idle
  <2> HIDE DEF q
  <2>1. Asked(q)
    BY <2>0, <2>2 DEF Asked, ReqOK
  <2> QED BY <1>2, <2>1, Arrived DEF revoke_invite, q
<1>3. ASSUME NEW s \in Procs, NEW u \in Users, NEW w \in Workspaces, NEW as \in Grantable,
             NEW email \in Addresses, create_invite(s, u, w, as, email)
      PROVE  Arrives
  <2> DEFINE q == [Idle EXCEPT !.pc = "count", !.user = u, !.ws = w, !.role = as, !.who = email]
  <2>0. q \in Request
    BY OnboardingAssumption, GrantableRoles, IdleOK DEF Request
  <2>2. q.pc = "count" /\ q.user = u /\ q.ws = w /\ q.role = as /\ ~q.moved
    BY DEF Idle
  <2> HIDE DEF q
  <2>1. Asked(q)
    BY <2>0, <2>2 DEF Asked, ReqOK
  <2> QED BY <1>3, <2>1, Arrived DEF create_invite, q
<1> QED BY <1>1, <1>2, <1>3 DEF Inviting

LEMMA CreatingCases ==
  ASSUME TypeInv, Creating
  PROVE  \/ Arrives
         \/ \E s \in Procs : create_self_serve(s) \/ CreateWorkspace(s) \/ SlugCollides(s)
         \/ \E u \in Users : AdminCreateWorkspace(u)
         \/ HourPasses
<1>1. ASSUME NEW s \in Procs, NEW u \in Users, NEW n \in {1, 3},
             Arrive(s, [Idle EXCEPT !.pc = "cap", !.user = u, !.tries = n])
      PROVE  Arrives
  <2> DEFINE q == [Idle EXCEPT !.pc = "cap", !.user = u, !.tries = n]
  <2>3. n \in 0 .. 3
    OBVIOUS
  <2>0. q \in Request
    BY <2>3, IdleOK DEF Request
  <2>2. q.pc = "cap" /\ q.user = u /\ q.tries = n /\ q.tries \in 1 .. 3 /\ ~q.moved
    BY DEF Idle
  <2> HIDE DEF q
  <2>1. Asked(q)
    BY <2>0, <2>2 DEF Asked, ReqOK
  <2> QED BY <1>1, <2>1, Arrived DEF q
<1>2. known \subseteq Users
  BY DEF TypeInv, TypeOK, OrganizationsTypeOK
<1> QED BY <1>1, <1>2 DEF Creating, create, ApiCreate

LEMMA MembersCases ==
  ASSUME TypeInv, MembersChange
  PROVE  Arrives \/ \E s \in Procs : Manage(s) \/ InsertMember(s)
<1>0. live \subseteq Workspaces
  BY DEF TypeInv, TypeOK, OrganizationsTypeOK
<1>1. ASSUME NEW s \in Procs, NEW w \in live, NEW who \in Users, NEW as \in Roles \cup {None},
             NEW actor \in Roles, Arrive(s, Managing(w, who, as, actor))
      PROVE  Arrives
  BY <1>0, <1>1, ManagingAsked, Arrived
<1>2. ASSUME NEW s \in Procs, NEW w \in live, NEW who \in Users, NEW as \in Roles,
             UserAllowedIn(who, w), Adding(s, who, w, as)
      PROVE  Arrives
  BY <1>0, <1>2, AddingAsked, Arrived DEF Adding
<1>3. ASSUME NEW s \in Procs, NEW u \in Users, NEW w \in live, NEW who \in Users,
             NEW as \in Roles \cup {None}, manage_actor(s, u, w, who, as)
      PROVE  Arrives
  BY <1>1, <1>3, GrantableRoles DEF manage_actor
<1>4. ASSUME NEW s \in Procs, NEW w \in live, NEW who \in Users, leave_workspace(s, who, w)
      PROVE  Arrives
  <2>1. role[w][who] \in Roles
    BY <1>0, <1>4 DEF leave_workspace, TypeInv, TypeOK
  <2> QED BY <1>1, <1>4, <2>1 DEF leave_workspace
<1>5. ASSUME NEW s \in Procs, NEW w \in live, NEW who \in Users, NEW claimed \in Roles,
             \/ ApiRemoveMember(s, w, who, claimed)
             \/ \E as \in Roles : ApiUpdateMember(s, w, who, as, claimed)
             \/ \E as \in Roles : ApiInviteMember(s, who, w, as, claimed)
      PROVE  Arrives
  BY <1>1, <1>2, <1>5 DEF ApiRemoveMember, ApiUpdateMember, ApiInviteMember, invite_member
<1>6. "owner" \in Roles
  BY DEF Roles
<1>7. ASSUME NEW s \in Procs, NEW w \in live, NEW who \in Users,
             \/ AdminRemoveMember(s, w, who)
             \/ \E as \in Roles : \/ AdminUpdateMember(s, w, who, as)
                                 \/ AdminInviteMember(s, who, w, as)
                                 \/ add_user_to_workspace(s, who, w, as)
                                 \/ execute_import(s, who, w, as)
      PROVE  Arrives
  BY <1>1, <1>2, <1>6, <1>7 DEF AdminRemoveMember, AdminUpdateMember, AdminInviteMember,
     invite_member, add_user_to_workspace, execute_import
<1> QED BY <1>3, <1>4, <1>5, <1>7 DEF MembersChange, change_member_role, remove_member_page

LEMMA NextCases ==
  ASSUME TypeInv, [Next]_vars
  PROVE  Arrives \/ (\E s \in Procs : Statement(s)) \/ Elsewhere \/ UNCHANGED vars
  BY InvitingCases, CreatingCases, MembersCases
     DEF Next, Deleting, ApiDeleteWorkspace, AdminDeleteWorkspace, Statement, Elsewhere

(* A statement leaves its request where the next one waits for a lock's holder,
   or ends it. *)
LEMMA StatementReq ==
  ASSUME TypeInv, NEW s \in Procs, Statement(s)
  PROVE  \E q : Become(s, q) /\ q.pc \in {"idle", "invite", "create"}
<1>0. Idle.pc = "idle" /\ req[s] \in Request
  BY DEF Idle, TypeInv, TypeOK
<1>1. [req[s] EXCEPT !.pc = "invite"].pc = "invite" /\ [req[s] EXCEPT !.pc = "create"].pc = "create"
  BY <1>0 DEF Request
<1>2. \A n : [req[s] EXCEPT !.tries = n].pc = req[s].pc
  BY <1>0 DEF Request
<1>3. CASE SlugCollides(s)
  BY <1>0, <1>2, <1>3 DEF SlugCollides
<1>4. CASE CountPending(s) \/ create_self_serve(s)
  BY <1>0, <1>1, <1>4 DEF CountPending, create_self_serve
<1> QED BY <1>0, <1>3, <1>4 DEF Statement, Claim, InsertInvite, Revoke, CreateWorkspace, Manage, InsertMember, Dies


-----------------------------------------------------------------------------
(* Type correctness. *)

ReqsOK == req \in [Procs -> Request] /\ \A s \in Procs : ReqOK(req[s])

LEMMA TypeParts ==
  /\ TypeInv <=> OrgOK /\ SpaceOK /\ ReqsOK
  /\ TypeInv' <=> (OrgOK /\ SpaceOK /\ ReqsOK)'
  BY DEF TypeInv, TypeOK, OrgOK, SpaceOK, ReqsOK

LEMMA OrgKept == OrgOK /\ UNCHANGED tenancy => OrgOK'
  BY DEF OrgOK, OrganizationsTypeOK, AdminOK, tenancy

LEMMA Handled ==
  ASSUME ReqsOK, NEW s \in Procs, NEW q \in Request, ReqOK(q), Become(s, q)
  PROVE  ReqsOK'
<1>1. req' \in [Procs -> Request] /\ \A t \in Procs : req'[t] = IF t = s THEN q ELSE req[t]
  BY DEF ReqsOK, Become
<1> HIDE DEF ReqOK
<1> QED BY <1>1 DEF ReqsOK

LEMMA HandledIdle == ASSUME ReqsOK, NEW s \in Procs, Become(s, Idle) PROVE ReqsOK'
  BY Handled, IdleOK

(* A request at work holds what its program counter says. *)
LEMMA AtWork ==
  ASSUME TypeInv, NEW s \in Procs
  PROVE  req[s] \in Request /\ ReqOK(req[s])
  BY DEF TypeInv, TypeOK

LEMMA UnlockedOK ==
  ASSUME SpaceOK, NEW s \in Procs
  PROVE  Unlocked(s) \in [Users \cup Workspaces -> Procs \cup {None}]
  BY DEF SpaceOK, Unlocked

LEMMA InviteTyped ==
  ASSUME TypeInv, NEW i \in Invites, IsInvite(i)
  PROVE  inv[i] \in Invite
  BY DEF TypeInv, TypeOK, IsInvite

(* An arrival, and anything that leaves the spaces alone. *)
LEMMA ArriveOK ==
  ASSUME TypeInv, NEW s \in Procs, NEW q, Asked(q), Arrive(s, q)
  PROVE  TypeInv'
<1>1. OrgOK /\ SpaceOK /\ ReqsOK
  BY TypeParts
<1>2. OrgOK'
  BY <1>1, OrgKept DEF Arrive
<1>3. ReqsOK'
  BY <1>1, Handled DEF Arrive, Asked
<1>4. arrived' \in 0 .. on.requests
  <2>1. on.requests \in Nat /\ arrived \in 0 .. on.requests /\ arrived < on.requests /\ arrived' = arrived + 1
    BY <1>1, OnboardingAssumption DEF Arrive, SpaceOK
  <2> HIDE DEF Arrive
  <2> QED BY <2>1
<1>5. SpaceOK'
  BY <1>1, <1>4 DEF Arrive, SpaceOK, people, spaces
<1> QED BY <1>2, <1>3, <1>5, TypeParts

LEMMA InvitingStatementOK ==
  ASSUME TypeInv, NEW s \in Procs, Claim(s) \/ CountPending(s) \/ InsertInvite(s) \/ Revoke(s)
  PROVE  TypeInv'
<1>0. OrgOK /\ SpaceOK /\ ReqsOK
  BY TypeParts
<1>1. CASE Claim(s)
  <2>1. OrgOK' /\ ReqsOK'
    BY <1>0, <1>1, OrgKept, HandledIdle DEF Claim
  <2> DEFINE q == req[s]
             i == q.inv
             w == inv[i].ws
  <2>2. q.user \in Users /\ i \in Invites
    BY <1>1, AtWork DEF Claim, ReqOK
  <2>3. CASE Claimable(i)
    <3>1. inv[i] \in Invite
      BY <2>2, <2>3, InviteTyped DEF Claimable
    <3>2. w \in Workspaces /\ inv[i].role \in Roles
      BY <3>1, GrantableRoles DEF Invite
    <3>3. inv' \in [Invites -> Invite \cup {None, Gone}]
      <4>1. [inv[i] EXCEPT !.accepted_by = q.user] \in Invite
        BY <2>2, <3>1 DEF Invite
      <4>2. inv' = [inv EXCEPT ![i] = [inv[i] EXCEPT !.accepted_by = q.user]]
        BY <1>1, <2>3 DEF Claim
      <4> QED BY <1>0, <2>2, <4>1, <4>2 DEF SpaceOK
    <3>4. role' \in [Workspaces -> [Users -> Roles \cup {None}]]
      <4>1. role' = IF role[w][q.user] = None THEN [role EXCEPT ![w][q.user] = inv[i].role] ELSE role
        BY <1>1, <2>3 DEF Claim
      <4> HIDE DEF q, i, w
      <4> QED BY <1>0, <2>2, <3>2, <4>1 DEF SpaceOK
    <3>5. redeemed' \in SUBSET (Invites \X Users)
      BY <1>0, <1>1, <2>2, <2>3 DEF Claim, SpaceOK
    <3> QED BY <1>0, <1>1, <2>1, <3>3, <3>4, <3>5, TypeParts DEF Claim, SpaceOK, spaces, settings, tenancy
  <2>4. CASE ~Claimable(i)
    BY <1>0, <1>1, <2>1, <2>4, TypeParts DEF Claim, SpaceOK, spaces, settings, tenancy
  <2> QED BY <2>3, <2>4
<1>2. CASE CountPending(s)
  <2> DEFINE q == [req[s] EXCEPT !.pc = "invite"]
  <2>1. q \in Request /\ req[s].ws \in Workspaces
    BY <1>2, AtWork DEF CountPending, ReqOK, Request
  <2>2. ReqOK(q)
    BY <1>2, AtWork DEF CountPending, ReqOK, Request
  <2> HIDE DEF q
  <2>3. \/ Become(s, Idle) /\ UNCHANGED lock
        \/ Become(s, q) /\ lock' = [lock EXCEPT ![req[s].ws] = s]
    BY <1>2 DEF CountPending, q
  <2>4. OrgOK' /\ ReqsOK'
    BY <1>0, <1>2, <2>1, <2>2, <2>3, OrgKept, HandledIdle, Handled DEF CountPending
  <2>5. lock' \in [Users \cup Workspaces -> Procs \cup {None}]
    BY <1>0, <2>1, <2>3 DEF SpaceOK
  <2> QED BY <1>0, <1>2, <2>4, <2>5, TypeParts DEF CountPending, SpaceOK, people, spaces, settings, tenancy
<1>3. CASE InsertInvite(s)
  <2> DEFINE q == req[s]
  <2>1. OrgOK' /\ ReqsOK'
    BY <1>0, <1>3, OrgKept, HandledIdle DEF InsertInvite
  <2>2. lock' \in [Users \cup Workspaces -> Procs \cup {None}]
    BY <1>0, <1>3, UnlockedOK DEF InsertInvite
  <2>3. NewInvite(q) \in Invite
    BY <1>3, AtWork DEF InsertInvite, ReqOK, Request, NewInvite, Invite
  <2>4. inv' \in [Invites -> Invite \cup {None, Gone}]
    BY <1>0, <1>3, <2>3 DEF InsertInvite, SpaceOK
  <2> QED BY <1>0, <1>3, <2>1, <2>2, <2>4, TypeParts DEF InsertInvite, SpaceOK, spaces, settings, tenancy
<1>4. CASE Revoke(s)
  <2> DEFINE i == req[s].inv
  <2>1. OrgOK' /\ ReqsOK'
    BY <1>0, <1>4, OrgKept, HandledIdle DEF Revoke
  <2>2. i \in Invites
    BY <1>4, AtWork DEF Revoke, ReqOK
  <2>3. ASSUME IsInvite(i) PROVE [inv[i] EXCEPT !.revoked = TRUE] \in Invite
    BY <2>2, <2>3, InviteTyped DEF Invite
  <2>4. inv' = IF IsInvite(i) THEN [inv EXCEPT ![i] = [inv[i] EXCEPT !.revoked = TRUE]] ELSE inv
    BY <1>4 DEF Revoke
  <2>5. inv' \in [Invites -> Invite \cup {None, Gone}]
    BY <1>0, <2>2, <2>3, <2>4 DEF SpaceOK
  <2> QED BY <1>0, <1>4, <2>1, <2>5, TypeParts DEF Revoke, SpaceOK, spaces, settings, tenancy
<1> QED BY <1>1, <1>2, <1>3, <1>4

LEMMA FreshIsNew == Unused # {} => Fresh \in Workspaces /\ creator[Fresh] = None
  BY DEF Fresh, Unused

LEMMA CreatedOK ==
  ASSUME SpaceOK, NEW u \in Users, create_workspace(Fresh, u)
  PROVE  /\ creator' \in [Workspaces -> Users \cup {None}] /\ recent' \in SUBSET Workspaces
         /\ role' \in [Workspaces -> [Users -> Roles \cup {None}]]
         /\ Fresh \in Workspaces /\ live' = live \cup {Fresh}
<1>1. Fresh \in Workspaces
  BY FreshIsNew DEF create_workspace
<1> HIDE DEF Fresh
<1>2. "owner" \in Roles
  BY DEF Roles
<1> QED BY <1>1, <1>2 DEF create_workspace, SpaceOK

LEMMA CreatingStatementOK ==
  ASSUME TypeInv, NEW s \in Procs, create_self_serve(s) \/ CreateWorkspace(s) \/ SlugCollides(s)
  PROVE  TypeInv'
<1>0. OrgOK /\ SpaceOK /\ ReqsOK
  BY TypeParts
<1>1. CASE create_self_serve(s)
  <2> DEFINE q == [req[s] EXCEPT !.pc = "create"]
  <2>1. q \in Request /\ req[s].user \in Users
    BY <1>1, AtWork DEF create_self_serve, ReqOK, Request
  <2>2. ReqOK(q)
    BY <1>1, AtWork DEF create_self_serve, ReqOK, Request
  <2> HIDE DEF q
  <2>3. \/ Become(s, Idle) /\ UNCHANGED lock
        \/ Become(s, q) /\ lock' = [lock EXCEPT ![req[s].user] = s]
    BY <1>1 DEF create_self_serve, q
  <2>4. OrgOK' /\ ReqsOK'
    BY <1>0, <1>1, <2>1, <2>2, <2>3, OrgKept, HandledIdle, Handled DEF create_self_serve
  <2>5. lock' \in [Users \cup Workspaces -> Procs \cup {None}]
    BY <1>0, <2>1, <2>3 DEF SpaceOK
  <2> QED BY <1>0, <1>1, <2>4, <2>5, TypeParts DEF create_self_serve, SpaceOK, people, spaces, settings, tenancy
<1>2. CASE CreateWorkspace(s)
  <2>1. req[s].user \in Users
    BY <1>2, AtWork DEF CreateWorkspace, ReqOK
  <2>2. ReqsOK'
    BY <1>0, <1>2, HandledIdle DEF CreateWorkspace
  <2>3. lock' \in [Users \cup Workspaces -> Procs \cup {None}]
    BY <1>0, <1>2, UnlockedOK DEF CreateWorkspace
  <2>4. /\ creator' \in [Workspaces -> Users \cup {None}] /\ recent' \in SUBSET Workspaces
        /\ role' \in [Workspaces -> [Users -> Roles \cup {None}]]
        /\ Fresh \in Workspaces /\ live' = live \cup {Fresh}
    BY <1>0, <1>2, <2>1, CreatedOK DEF CreateWorkspace
  <2>5. OrgOK'
    BY <1>0, <1>2, <2>4 DEF CreateWorkspace, OrgOK, OrganizationsTypeOK, AdminOK
  <2>6. SpaceOK'
    BY <1>0, <1>2, <2>3, <2>4 DEF CreateWorkspace, SpaceOK, settings
  <2> QED BY <2>2, <2>5, <2>6, TypeParts
<1>3. CASE SlugCollides(s)
  <2> DEFINE left == req[s].tries - 1
             q == [req[s] EXCEPT !.tries = left]
  <2>1. req[s] \in Request /\ req[s].pc = "create" /\ req[s].user \in Users /\ req[s].tries \in 1 .. 3
    BY <1>3, AtWork DEF SlugCollides, ReqOK
  <2>2. left \in 0 .. 2
    BY <2>1
  <2> HIDE DEF left
  <2>3. q \in Request
    BY <2>1, <2>2 DEF Request
  <2>4. left # 0 => ReqOK(q)
    BY <2>1, <2>2 DEF ReqOK, Request
  <2>5. Become(s, IF left = 0 THEN Idle ELSE q)
    BY <1>3 DEF SlugCollides, left
  <2> HIDE DEF q
  <2>6. OrgOK' /\ ReqsOK'
    BY <1>0, <1>3, <2>3, <2>4, <2>5, OrgKept, HandledIdle, Handled DEF SlugCollides
  <2>7. lock' \in [Users \cup Workspaces -> Procs \cup {None}]
    BY <1>0, <1>3, UnlockedOK DEF SlugCollides
  <2>8. collided' \in SUBSET Users
    BY <1>0, <1>3, <2>1 DEF SlugCollides, SpaceOK
  <2> QED BY <1>0, <1>3, <2>6, <2>7, <2>8, TypeParts DEF SlugCollides, SpaceOK, people, spaces, settings, tenancy
<1> QED BY <1>1, <1>2, <1>3

LEMMA MembersStatementOK ==
  ASSUME TypeInv, NEW s \in Procs, Manage(s) \/ InsertMember(s) \/ Dies(s)
  PROVE  TypeInv'
<1>0. OrgOK /\ SpaceOK /\ ReqsOK
  BY TypeParts
<1>1. CASE Manage(s)
  <2> DEFINE q == req[s]
  <2>1. OrgOK' /\ ReqsOK'
    BY <1>0, <1>1, OrgKept, HandledIdle DEF Manage
  <2>2. q.ws \in Workspaces /\ q.who \in Users /\ q.role \in Roles \cup {None}
    BY <1>1, AtWork DEF Manage, ReqOK, Request
  <2>3. role' = role \/ role' = [role EXCEPT ![q.ws][q.who] = q.role]
    BY <1>1 DEF Manage
  <2> HIDE DEF q
  <2>4. role' \in [Workspaces -> [Users -> Roles \cup {None}]]
    BY <1>0, <2>2, <2>3 DEF SpaceOK
  <2> QED BY <1>0, <1>1, <2>1, <2>4, TypeParts DEF Manage, SpaceOK, spaces, settings, tenancy
<1>2. CASE InsertMember(s)
  <2> DEFINE q == req[s]
  <2>1. ReqsOK'
    BY <1>0, <1>2, HandledIdle DEF InsertMember
  <2>2. q.ws \in Workspaces /\ q.who \in Users /\ q.role \in Roles
    BY <1>2, AtWork DEF InsertMember, ReqOK
  <2>3. resolve_organization(q.who) \in Orgs \cup {Public, None}
    BY <1>0, <2>2, ResolvedOrg
  <2>4. \/ role' = role /\ known' = known /\ orgOf' = orgOf
        \/ /\ role' = [role EXCEPT ![q.ws][q.who] = q.role] /\ known' = known \cup {q.who}
           /\ orgOf' \in {orgOf, [orgOf EXCEPT ![q.who] = resolve_organization(q.who)]}
    <3>1. CASE q.ws \in live /\ role[q.ws][q.who] = None
      <4>1. role' = [role EXCEPT ![q.ws][q.who] = q.role] /\ known' = known \cup {q.who}
        BY <1>2, <3>1 DEF InsertMember
      <4>2. orgOf' = IF q.who \in known THEN orgOf
                     ELSE [orgOf EXCEPT ![q.who] = resolve_organization(q.who)]
        BY <1>2, <3>1, Zenon DEF InsertMember
      <4> HIDE DEF q
      <4> QED BY <4>1, <4>2
    <3>2. CASE ~(q.ws \in live /\ role[q.ws][q.who] = None)
      BY <1>2, <3>2 DEF InsertMember
    <3> QED BY <3>1, <3>2
  <2> HIDE DEF q
  <2>5. role' \in [Workspaces -> [Users -> Roles \cup {None}]]
    <3>1. role' = role \/ role' = [role EXCEPT ![q.ws][q.who] = q.role]
      BY <2>4
    <3> QED BY <1>0, <2>2, <3>1 DEF SpaceOK
  <2>6. known' \in SUBSET Users /\ orgOf' \in [Users -> Orgs \cup {Public, None}]
    <3>1. known \in SUBSET Users /\ orgOf \in [Users -> Orgs \cup {Public, None}]
      BY <1>0 DEF OrgOK, OrganizationsTypeOK
    <3> HIDE DEF OrgOK
    <3> QED BY <2>2, <2>3, <2>4, <3>1
  <2>7. OrgOK'
    BY <1>0, <1>2, <2>6 DEF InsertMember, OrgOK, OrganizationsTypeOK, AdminOK
  <2>8. SpaceOK'
    BY <1>0, <1>2, <2>5 DEF InsertMember, SpaceOK, spaces, settings
  <2> QED BY <2>1, <2>7, <2>8, TypeParts
<1>3. CASE Dies(s)
  <2>1. OrgOK' /\ ReqsOK'
    BY <1>0, <1>3, OrgKept, HandledIdle DEF Dies
  <2>2. lock' \in [Users \cup Workspaces -> Procs \cup {None}]
    BY <1>0, <1>3, UnlockedOK DEF Dies
  <2> QED BY <1>0, <1>3, <2>1, <2>2, TypeParts DEF Dies, SpaceOK, people, spaces, settings, tenancy
<1> QED BY <1>1, <1>2, <1>3

LEMMA MovedOK ==
  ASSUME TypeInv, GateMoves(TRUE), OrgOK'
  PROVE  TypeInv'
<1>0. OrgOK /\ SpaceOK /\ ReqsOK
  BY TypeParts
<1> DEFINE moved(s) == [req[s] EXCEPT !.moved = TRUE]
<1>1. ASSUME NEW s \in Procs PROVE moved(s) \in Request /\ ReqOK(moved(s))
  BY AtWork DEF Request, ReqOK
<1> HIDE DEF moved
<1>2. req' = [s \in Procs |-> IF req[s].pc = "idle" THEN Idle ELSE moved(s)]
  BY DEF GateMoves, moved
<1>3. ReqsOK'
  BY <1>1, <1>2, IdleOK DEF ReqsOK
<1>4. changes' \in 0 .. on.changes
  <2>1. on.changes \in Nat /\ changes \in 0 .. on.changes /\ changes < on.changes /\ changes' = changes + 1
    BY <1>0, OnboardingAssumption DEF GateMoves, SpaceOK
  <2> HIDE DEF GateMoves
  <2> QED BY <2>1
<1>5. SpaceOK'
  BY <1>0, <1>4 DEF GateMoves, SpaceOK, people, spaces
<1> QED BY <1>3, <1>5, TypeParts

LEMMA ElsewhereOK == TypeInv /\ Elsewhere => TypeInv'
<1> SUFFICES ASSUME TypeInv, Elsewhere PROVE TypeInv'
  OBVIOUS
<1>0. OrgOK /\ SpaceOK /\ ReqsOK
  BY TypeParts
<1>1. ASSUME NEW i \in Invites, Expire(i) PROVE TypeInv'
  <2>1. [inv[i] EXCEPT !.expired = TRUE] \in Invite
    BY <1>1, InviteTyped DEF Expire, Pending, Invite
  <2>2. inv' = [inv EXCEPT ![i] = [inv[i] EXCEPT !.expired = TRUE]]
    BY <1>1 DEF Expire
  <2>3. inv' \in [Invites -> Invite \cup {None, Gone}]
    BY <1>0, <2>1, <2>2 DEF SpaceOK
  <2>4. OrgOK' /\ ReqsOK'
    BY <1>0, <1>1, OrgKept DEF Expire, ReqsOK, ReqOK
  <2> QED BY <1>0, <1>1, <2>3, <2>4, TypeParts DEF Expire, SpaceOK, spaces, settings
<1>2. ASSUME NEW u \in Users, AdminCreateWorkspace(u) PROVE TypeInv'
  <2>1. /\ creator' \in [Workspaces -> Users \cup {None}] /\ recent' \in SUBSET Workspaces
        /\ role' \in [Workspaces -> [Users -> Roles \cup {None}]]
        /\ Fresh \in Workspaces /\ live' = live \cup {Fresh}
    BY <1>0, <1>2, CreatedOK DEF AdminCreateWorkspace
  <2>2. OrgOK' /\ ReqsOK'
    BY <1>0, <1>2, <2>1 DEF AdminCreateWorkspace, OrgOK, OrganizationsTypeOK, AdminOK, ReqsOK, ReqOK
  <2>3. SpaceOK'
    BY <1>0, <1>2, <2>1 DEF AdminCreateWorkspace, SpaceOK, settings
  <2> QED BY <2>2, <2>3, TypeParts
<1>3. CASE HourPasses
  <2>1. OrgOK' /\ ReqsOK'
    BY <1>0, <1>3, OrgKept DEF HourPasses, ReqsOK, ReqOK
  <2> QED BY <1>0, <1>3, <2>1, TypeParts DEF HourPasses, SpaceOK, settings
<1>4. ASSUME NEW w \in Workspaces, DeleteWorkspace(w) PROVE TypeInv'
  <2>1. role' \in [Workspaces -> [Users -> Roles \cup {None}]]
    BY <1>0, <1>4 DEF DeleteWorkspace, SpaceOK, NoRoles
  <2>2. inv' \in [Invites -> Invite \cup {None, Gone}]
    BY <1>0, <1>4 DEF DeleteWorkspace, SpaceOK
  <2>3. live' \in SUBSET Workspaces /\ allow' \in [Workspaces -> SUBSET Orgs]
    BY <1>0, <1>4 DEF DeleteWorkspace, OrgOK, OrganizationsTypeOK
  <2>4. OrgOK' /\ ReqsOK'
    BY <1>0, <1>4, <2>3 DEF DeleteWorkspace, OrgOK, OrganizationsTypeOK, AdminOK, ReqsOK, ReqOK
  <2>5. SpaceOK'
    BY <1>0, <1>4, <2>1, <2>2 DEF DeleteWorkspace, SpaceOK, settings
  <2> QED BY <2>4, <2>5, TypeParts
<1>5. ASSUME NEW u \in Users, NEW yes \in BOOLEAN, SetActive(u, yes) PROVE TypeInv'
  <2>1. active' \in [Users -> BOOLEAN]
    BY <1>0, <1>5 DEF SetActive, SpaceOK
  <2>2. OrgOK' /\ ReqsOK'
    BY <1>0, <1>5, OrgKept DEF SetActive, ReqsOK, ReqOK
  <2> QED BY <1>0, <1>5, <2>1, <2>2, TypeParts DEF SetActive, SpaceOK, spaces, settings
<1>6. CASE GateMoves(OrganizationsNext)
  BY <1>0, <1>6, OrganizationsOK, MovedOK DEF GateMoves
<1>7. CASE GateMoves(\E u \in Users : SignIn(u))
  BY <1>0, <1>7, SignInOK, MovedOK DEF GateMoves
<1> QED BY <1>1, <1>2, <1>3, <1>4, <1>5, <1>6, <1>7 DEF Elsewhere

LEMMA TypeInit == Init => TypeInv
<1> SUFFICES ASSUME Init PROVE TypeInv
  OBVIOUS
<1>1. OrgOK
  BY OrganizationsAssumption, OnboardingAssumption
     DEF Init, OrganizationsInit, OrgOK, OrganizationsTypeOK, Rule, AdminOK, AdminIdle
<1>2. SpaceOK
  BY OnboardingAssumption DEF Init, SpaceOK, NoRoles, Roles
<1>3. ReqsOK
  BY IdleOK DEF Init, ReqsOK
<1> QED BY <1>1, <1>2, <1>3, TypeParts

LEMMA TypeStep == TypeInv /\ [Next]_vars => TypeInv'
<1> SUFFICES ASSUME TypeInv, [Next]_vars PROVE TypeInv'
  OBVIOUS
<1>1. CASE Arrives
  BY <1>1, ArriveOK DEF Arrives
<1>2. ASSUME NEW s \in Procs, Statement(s) PROVE TypeInv'
  BY <1>2, InvitingStatementOK, CreatingStatementOK, MembersStatementOK DEF Statement
<1>3. CASE UNCHANGED vars
  <2>1. OrgOK /\ SpaceOK /\ ReqsOK
    BY TypeParts
  <2>2. (OrgOK /\ ReqsOK)'
    BY <1>3, <2>1, OrgKept DEF vars, ReqsOK, ReqOK
  <2> QED BY <1>3, <2>1, <2>2, TypeParts DEF vars, SpaceOK, people, spaces, settings
<1> QED BY <1>1, <1>2, <1>3, NextCases, ElsewhereOK

(* Whatever the requests, the admins and the sign-ins do, every variable keeps
   its type, and a request between two statements of its handler holds the
   locals that its next statement reads. *)
THEOREM OnboardingIsTyped == Spec => []TypeOK
<1>1. TypeInv => TypeOK
  BY DEF TypeInv
<1> QED BY <1>1, TypeInit, TypeStep, PTL DEF Spec

-----------------------------------------------------------------------------
(* Invitations. *)

(* An invitation that is there stays the same invitation, is claimed only
   while it can be, and is never pending again. *)
InvitesStep ==
  \A i \in Invites : inv[i] # None =>
    /\ inv'[i] # None
    /\ IsInvite(i)' =>
         /\ IsInvite(i) /\ inv'[i].ws = inv[i].ws
         /\ inv'[i].accepted_by = inv[i].accepted_by \/ Claimable(i)
         /\ Pending(i)' => Pending(i)

LEMMA ChangedInvite ==
  ASSUME NEW i \in Invites, NEW x \in Invite, inv \in [Invites -> Invite \cup {None, Gone}],
         inv' = [inv EXCEPT ![i] = x], IsInvite(i), x.ws = inv[i].ws,
         x.accepted_by = inv[i].accepted_by \/ Claimable(i),
         x.accepted_by = None /\ ~x.revoked /\ ~x.expired => Pending(i)
  PROVE  InvitesStep
<1>1. x # None /\ x # Gone
  BY OnboardingAssumption
<1>2. \A j \in Invites : j # i => inv'[j] = inv[j] /\ (Pending(j)' <=> Pending(j))
  BY DEF Pending, IsInvite
<1>3. inv'[i] = x /\ (Pending(i)' => Pending(i))
  BY DEF Pending, IsInvite
<1> QED BY <1>1, <1>2, <1>3 DEF InvitesStep, IsInvite

LEMMA InvitesStepped == TypeInv /\ [Next]_vars => InvitesStep
<1> SUFFICES ASSUME TypeInv, [Next]_vars PROVE InvitesStep
  OBVIOUS
<1>0. inv \in [Invites -> Invite \cup {None, Gone}]
  BY DEF TypeInv, TypeOK
<1>1. ASSUME UNCHANGED inv PROVE InvitesStep
  BY <1>1 DEF InvitesStep, IsInvite, Pending
<1>2. ASSUME NEW s \in Procs, Claim(s) PROVE InvitesStep
  <2> DEFINE i == req[s].inv
             x == [inv[i] EXCEPT !.accepted_by = req[s].user]
  <2>1. i \in Invites /\ req[s].user \in Users
    BY <1>2, AtWork DEF Claim, ReqOK
  <2>2. CASE Claimable(i)
    <3>1. inv[i] \in Invite /\ IsInvite(i)
      BY <2>1, <2>2, InviteTyped DEF Claimable
    <3>2. inv' = [inv EXCEPT ![i] = x]
      BY <1>2, <2>2 DEF Claim
    <3>3. x \in Invite /\ x.ws = inv[i].ws /\ x.accepted_by # None
      BY <2>1, <3>1, OrganizationsAssumption DEF Invite
    <3> HIDE DEF x, i
    <3> QED BY <1>0, <2>1, <2>2, <3>1, <3>2, <3>3, ChangedInvite
  <2>3. CASE ~Claimable(i)
    BY <1>1, <1>2, <2>3 DEF Claim
  <2> QED BY <2>2, <2>3
<1>3. ASSUME NEW s \in Procs, InsertInvite(s) PROVE InvitesStep
  <2> DEFINE i == CHOOSE j \in Invites : inv[j] = None
  <2>1. i \in Invites /\ inv[i] = None
    BY <1>3 DEF InsertInvite
  <2>2. UNCHANGED inv \/ inv' = [inv EXCEPT ![i] = NewInvite(req[s])]
    BY <1>3 DEF InsertInvite
  <2> HIDE DEF i
  <2>3. CASE inv' = [inv EXCEPT ![i] = NewInvite(req[s])]
    <3>1. \A j \in Invites : inv[j] # None => inv'[j] = inv[j] /\ (Pending(j)' <=> Pending(j))
      BY <1>0, <2>1, <2>3 DEF Pending, IsInvite
    <3> QED BY <3>1 DEF InvitesStep, IsInvite
  <2> QED BY <1>1, <2>2, <2>3
<1>4. ASSUME NEW s \in Procs, Revoke(s) PROVE InvitesStep
  <2> DEFINE i == req[s].inv
             x == [inv[i] EXCEPT !.revoked = TRUE]
  <2>1. i \in Invites
    BY <1>4, AtWork DEF Revoke, ReqOK
  <2>2. CASE IsInvite(i)
    <3>1. inv' = [inv EXCEPT ![i] = x]
      BY <1>4, <2>2 DEF Revoke
    <3>2. x \in Invite /\ x.ws = inv[i].ws /\ x.accepted_by = inv[i].accepted_by /\ x.revoked
      BY <2>1, <2>2, InviteTyped DEF Invite
    <3> HIDE DEF x, i
    <3> QED BY <1>0, <2>1, <2>2, <3>1, <3>2, ChangedInvite
  <2>3. CASE ~IsInvite(i)
    BY <1>1, <1>4, <2>3 DEF Revoke
  <2> QED BY <2>2, <2>3
<1>5. ASSUME NEW i \in Invites, Expire(i) PROVE InvitesStep
  <2> DEFINE x == [inv[i] EXCEPT !.expired = TRUE]
  <2>1. inv' = [inv EXCEPT ![i] = x] /\ IsInvite(i)
    BY <1>5 DEF Expire, Pending
  <2>2. x \in Invite /\ x.ws = inv[i].ws /\ x.accepted_by = inv[i].accepted_by /\ x.expired
    BY <2>1, InviteTyped DEF Invite
  <2> HIDE DEF x
  <2> QED BY <1>0, <2>1, <2>2, ChangedInvite
<1>6. ASSUME NEW w \in Workspaces, DeleteWorkspace(w) PROVE InvitesStep
  <2>1. inv' = [i \in Invites |-> IF IsInvite(i) /\ inv[i].ws = w THEN Gone ELSE inv[i]]
    BY <1>6 DEF DeleteWorkspace
  <2>2. \A i \in Invites : inv'[i] # Gone => inv'[i] = inv[i] /\ (Pending(i)' <=> Pending(i))
    BY <2>1 DEF Pending, IsInvite
  <2> QED BY <2>2, OnboardingAssumption DEF InvitesStep, IsInvite
<1>7. CASE Arrives
  BY <1>1, <1>7 DEF Arrives, Arrive, people
<1>8. ASSUME NEW s \in Procs, Statement(s) PROVE InvitesStep
  BY <1>1, <1>2, <1>3, <1>4, <1>8
     DEF Statement, CountPending, create_self_serve, CreateWorkspace, SlugCollides, Manage,
         InsertMember, Dies, people
<1>9. CASE Elsewhere
  BY <1>1, <1>5, <1>6, <1>9 DEF Elsewhere, AdminCreateWorkspace, HourPasses, SetActive, GateMoves, people
<1>10. CASE UNCHANGED vars
  BY <1>1, <1>10 DEF vars, people
<1> QED BY <1>7, <1>8, <1>9, <1>10, NextCases

LEMMA RedeemStep == TypeInv /\ RedeemInv /\ [Next]_vars => RedeemInv'
<1> SUFFICES ASSUME TypeInv, RedeemInv, [Next]_vars PROVE RedeemInv'
  OBVIOUS
<1>0. InvitesStep /\ redeemed \subseteq Invites \X Users /\ None \notin Users
  BY InvitesStepped, OrganizationsAssumption DEF TypeInv, TypeOK
<1>1. \A c \in redeemed : inv'[c[1]] # None /\ (IsInvite(c[1])' => inv'[c[1]].accepted_by = c[2])
  BY <1>0 DEF RedeemInv, InvitationAdmitsOne, InvitesStep, Claimable
<1>2. redeemed' = redeemed \/ \E s \in Procs : Claim(s) /\ Claimable(req[s].inv)
                                 /\ redeemed' = redeemed \cup {<<req[s].inv, req[s].user>>}
  <2>1. CASE Arrives
    BY <2>1 DEF Arrives, Arrive
  <2>2. ASSUME NEW s \in Procs, Statement(s), ~Claim(s) PROVE redeemed' = redeemed
    BY <2>2 DEF Statement, CountPending, InsertInvite, Revoke, create_self_serve, CreateWorkspace,
                SlugCollides, Manage, InsertMember, Dies
  <2>3. CASE Elsewhere
    BY <2>3 DEF Elsewhere, Expire, AdminCreateWorkspace, HourPasses, DeleteWorkspace, SetActive, GateMoves
  <2>4. ASSUME NEW s \in Procs, Claim(s), redeemed' # redeemed
        PROVE  Claimable(req[s].inv) /\ redeemed' = redeemed \cup {<<req[s].inv, req[s].user>>}
    BY <2>4 DEF Claim
  <2>5. UNCHANGED vars => redeemed' = redeemed
    BY DEF vars
  <2> QED BY <2>1, <2>2, <2>3, <2>4, <2>5, NextCases DEF Statement
<1>3. ASSUME NEW s \in Procs, Claim(s), Claimable(req[s].inv)
      PROVE  inv'[req[s].inv] # None /\ inv'[req[s].inv].accepted_by = req[s].user
  <2> DEFINE i == req[s].inv
  <2>1. i \in Invites /\ req[s].user \in Users /\ inv[i] \in Invite /\ inv[i] # None
    BY <1>3, AtWork, InviteTyped DEF Claim, ReqOK, Claimable, IsInvite
  <2>2. inv' = [inv EXCEPT ![i].accepted_by = req[s].user] /\ inv'[i] # None
    BY <1>0, <1>3, <2>1 DEF Claim, InvitesStep
  <2>3. inv \in [Invites -> Invite \cup {None, Gone}]
    BY DEF TypeInv, TypeOK
  <2>4. inv'[i] = [inv[i] EXCEPT !.accepted_by = req[s].user]
    BY <2>1, <2>2, <2>3
  <2> HIDE DEF i
  <2> QED BY <2>1, <2>2, <2>4 DEF Invite, i
<1>4. \A c \in redeemed' : inv'[c[1]] # None /\ (IsInvite(c[1])' => inv'[c[1]].accepted_by = c[2])
  BY <1>1, <1>2, <1>3
<1>5. ASSUME NEW s \in Procs, req'[s].pc = "claim" PROVE inv'[req'[s].inv] # None
  <2>1. \/ req'[s] = req[s]
        \/ IsInvite(req'[s].inv) /\ req'[s].inv \in Invites
        \/ req[s].pc = "claim" /\ req'[s].inv = req[s].inv
    <3>1. CASE Arrives
      <4> PICK t \in Procs, q \in Request : Asked(q) /\ Arrive(t, q)
        BY <3>1 DEF Arrives
      <4>1. req' = [req EXCEPT ![t] = q] /\ req \in [Procs -> Request]
        BY DEF Arrive, Become, TypeInv, TypeOK
      <4> QED BY <1>5, <4>1 DEF Asked, ReqOK
    <3>2. ASSUME NEW t \in Procs, Statement(t), req'[s] # req[s] PROVE FALSE
      <4>1. \E q : Become(t, q) /\ q.pc # "claim"
        BY <3>2, StatementReq
      <4> QED BY <1>5, <3>2, <4>1 DEF Become, TypeInv, TypeOK
    <3>3. CASE Elsewhere
      <4>1. CASE UNCHANGED req
        BY <4>1
      <4>2. CASE req' = [t \in Procs |-> IF req[t].pc = "idle" THEN Idle ELSE [req[t] EXCEPT !.moved = TRUE]]
        <5>1. req[s] \in Request
          BY AtWork
        <5>2. Idle.pc = "idle"
          BY DEF Idle
        <5>3. req'[s] = [req[s] EXCEPT !.moved = TRUE]
          BY <1>5, <4>2, <5>2
        <5> QED BY <1>5, <5>1, <5>3 DEF Request
      <4> QED BY <3>3, <4>1, <4>2
              DEF Elsewhere, Expire, AdminCreateWorkspace, HourPasses, DeleteWorkspace, SetActive, GateMoves
    <3>4. UNCHANGED vars => req'[s] = req[s]
      BY DEF vars
    <3> QED BY <3>1, <3>2, <3>3, <3>4, NextCases
  <2>2. CASE IsInvite(req'[s].inv) /\ req'[s].inv \in Invites
    BY <1>0, <2>2 DEF InvitesStep, IsInvite
  <2>3. CASE req[s].pc = "claim" /\ req'[s].inv = req[s].inv
    <3>1. req[s].inv \in Invites /\ inv[req[s].inv] # None
      BY <2>3, AtWork DEF ReqOK, RedeemInv
    <3> QED BY <1>0, <2>3, <3>1 DEF InvitesStep
  <2> QED BY <1>5, <2>1, <2>2, <2>3
<1> QED BY <1>4, <1>5 DEF RedeemInv, InvitationAdmitsOne

(* One invitation admits one user.  The claim is a conditional UPDATE, so of
   two requests that both peeked at an unclaimed code only one still finds it
   claimable; and an invitation that has gone with its workspace does not come
   back under the same id. *)
THEOREM OneUserPerInvitation == Spec => []InvitationAdmitsOne
<1>1. Init => RedeemInv
  BY IdleOK DEF Init, RedeemInv, InvitationAdmitsOne, Idle
<1>2. RedeemInv => InvitationAdmitsOne
  BY DEF RedeemInv
<1>3. TypeInv /\ RedeemInv /\ [Next]_vars => (TypeInv /\ RedeemInv)'
  BY TypeStep, RedeemStep
<1> QED BY <1>1, <1>2, <1>3, TypeInit, PTL DEF Spec

(* However long ago redeem peeked at it, an invitation is claimed only if, in
   the state the UPDATE sees, it is unclaimed and unrevoked and its inviter is
   still an active administrator of the workspace. *)
THEOREM InviterStillStands == Spec => ClaimNeedsStanding
<1>1. TypeInv /\ [Next]_vars =>
        [\A i \in Invites :
          IsInvite(i) /\ IsInvite(i)' /\ inv[i].accepted_by # inv'[i].accepted_by =>
            /\ inv[i].accepted_by = None /\ ~inv[i].revoked
            /\ role[inv[i].ws][inv[i].by] \in AdminRoles /\ active[inv[i].by]]_vars
  <2> SUFFICES ASSUME TypeInv, [Next]_vars, NEW i \in Invites,
                      IsInvite(i), IsInvite(i)', inv[i].accepted_by # inv'[i].accepted_by
               PROVE  Claimable(i)
    BY DEF Claimable, inviter_standing
  <2>1. InvitesStep
    BY InvitesStepped
  <2> QED BY <2>1 DEF InvitesStep, IsInvite
<1> QED BY <1>1, TypeInit, TypeStep, PTL DEF Spec, ClaimNeedsStanding

-----------------------------------------------------------------------------
(* Workspaces. *)

RowsStep ==
  \/ UNCHANGED <<creator, selfMade>> /\ live' \subseteq live /\ recent' \subseteq recent
  \/ \E u \in Users : create_workspace(Fresh, u) /\ selfMade' \in {selfMade, selfMade \cup {Fresh}}

LEMMA RowsStepped == TypeInv /\ [Next]_vars => RowsStep
<1> SUFFICES ASSUME TypeInv, [Next]_vars PROVE RowsStep
  OBVIOUS
<1>1. CASE Arrives
  BY <1>1 DEF Arrives, Arrive, tenancy, people, spaces, RowsStep
<1>2. ASSUME NEW s \in Procs, Statement(s) PROVE RowsStep
  <2>1. CASE CreateWorkspace(s)
    BY <2>1, AtWork DEF CreateWorkspace, ReqOK, RowsStep
  <2> QED BY <1>2, <2>1
          DEF Statement, Claim, CountPending, InsertInvite, Revoke, create_self_serve, SlugCollides,
              Manage, InsertMember, Dies, tenancy, people, spaces, RowsStep
<1>3. CASE Elsewhere
  <2>1. ASSUME NEW u \in Users, AdminCreateWorkspace(u) PROVE RowsStep
    BY <2>1 DEF AdminCreateWorkspace, RowsStep
  <2>2. OrganizationsNext \/ (\E u \in Users : SignIn(u)) => UNCHANGED live
    BY DEF OrganizationsNext, create_organization, update_organization, add_domain, remove_domain,
           delete_organization, CommitDelete, AdminFails, set_workspace_allowed_orgs,
           CommitAllowedOrgs, SignIn
  <2> QED BY <1>3, <2>1, <2>2
          DEF Elsewhere, Expire, HourPasses, DeleteWorkspace, SetActive, GateMoves, tenancy, people,
              spaces, RowsStep
<1>4. CASE UNCHANGED vars
  BY <1>4 DEF vars, tenancy, people, spaces, RowsStep
<1> QED BY <1>1, <1>2, <1>3, <1>4, NextCases

LEMMA RowStep == TypeInv /\ RowInv /\ [Next]_vars => RowInv'
<1> SUFFICES ASSUME TypeInv, RowInv, RowsStep PROVE RowInv'
  BY RowsStepped
<1>1. ASSUME NEW u \in Users, create_workspace(Fresh, u), selfMade' \in {selfMade, selfMade \cup {Fresh}}
      PROVE  RowInv'
  <2>1. Fresh \in Workspaces /\ u # None
    BY <1>1, FreshIsNew, OrganizationsAssumption DEF create_workspace
  <2> HIDE DEF Fresh
  <2> QED BY <1>1, <2>1 DEF create_workspace, RowInv, TypeInv, TypeOK
<1> QED BY <1>1 DEF RowsStep, RowInv

LEMMA RowInit == Init => RowInv
  BY OnboardingAssumption, OrganizationsAssumption DEF Init, RowInv

-----------------------------------------------------------------------------
(* The gate. *)

GateKept == \A u \in Users, w \in Workspaces : UserAllowedIn(u, w) => UserAllowedIn(u, w)'

LEMMA TenancyKept == UNCHANGED <<orgState, rule, orgOf, allow>> => GateKept
<1> SUFFICES ASSUME UNCHANGED <<orgState, rule, orgOf, allow>> PROVE GateKept
  OBVIOUS
<1>1. \A u \in Users : resolve_organization(u)' = resolve_organization(u)
  BY DEF resolve_organization, match_org_id, RulesOf
<1>2. \A u \in Users : effective_org(u)' = effective_org(u)
  BY <1>1 DEF effective_org
<1> QED BY <1>2 DEF GateKept, UserAllowedIn, is_disabled_real_org, workspace_allows_org

LEMMA InsertMemberKeeps ==
  ASSUME TypeInv, \A u \in Users \ known : orgOf[u] = None, NEW s \in Procs, InsertMember(s)
  PROVE  GateKept /\ \A u \in Users \ known' : orgOf'[u] = None
<1> DEFINE q == req[s]
<1>1. q.who \in Users
  BY AtWork DEF InsertMember, ReqOK
<1>2. orgState' = orgState /\ rule' = rule /\ allow' = allow
  BY DEF InsertMember
<1>3. \A u \in Users : resolve_organization(u)' = resolve_organization(u)
  BY <1>2 DEF resolve_organization, match_org_id, RulesOf
<1>4. \/ orgOf' = orgOf /\ known \subseteq known'
      \/ /\ q.who \notin known /\ known' = known \cup {q.who}
         /\ orgOf' = [orgOf EXCEPT ![q.who] = resolve_organization(q.who)]
  BY DEF InsertMember
<1>5. orgOf \in [Users -> Orgs \cup {Public, None}]
  BY DEF TypeInv, TypeOK, OrganizationsTypeOK
<1> HIDE DEF q
<1>6. \A u \in Users : effective_org(u)' = effective_org(u)
  BY <1>1, <1>3, <1>4, <1>5 DEF effective_org
<1>7. GateKept
  BY <1>2, <1>6 DEF GateKept, UserAllowedIn, is_disabled_real_org, workspace_allows_org
<1>8. \A u \in Users \ known' : orgOf'[u] = None
  BY <1>1, <1>4, <1>5
<1> QED BY <1>7, <1>8

LEMMA DeleteWorkspaceKeeps ==
  ASSUME TypeInv, NEW w \in Workspaces, DeleteWorkspace(w)
  PROVE  GateKept
<1>1. \A u \in Users : effective_org(u)' = effective_org(u)
  BY DEF DeleteWorkspace, effective_org, resolve_organization, match_org_id, RulesOf
<1>2. orgState' = orgState /\ \A x \in Workspaces : allow'[x] = allow[x] \/ allow'[x] = {}
  BY DEF DeleteWorkspace, TypeInv, TypeOK, OrganizationsTypeOK
<1> QED BY <1>1, <1>2 DEF GateKept, UserAllowedIn, is_disabled_real_org, workspace_allows_org

(* Newcomers have no organization stored. *)
Unstored == \A u \in Users \ known : orgOf[u] = None

(* Whatever happens behind a request's back either leaves the gate's answers
   standing or is remembered in the request. *)
LEMMA GateStep ==
  ASSUME TypeInv, Unstored, [Next]_vars
  PROVE  /\ Unstored'
         /\ GateKept \/ \A s \in Procs : req'[s].pc = "idle" \/ req'[s].moved
<1>0. orgOf \in [Users -> Orgs \cup {Public, None}]
  BY DEF TypeInv, TypeOK, OrganizationsTypeOK
<1>1. CASE UNCHANGED tenancy
  BY <1>1, TenancyKept DEF tenancy, Unstored
<1>2. ASSUME NEW s \in Procs, InsertMember(s) PROVE GateKept /\ Unstored'
  BY <1>2, InsertMemberKeeps DEF Unstored
<1>3. ASSUME NEW s \in Procs, CreateWorkspace(s) PROVE GateKept /\ Unstored'
  BY <1>3, TenancyKept DEF CreateWorkspace, Unstored
<1>4. ASSUME NEW u \in Users, AdminCreateWorkspace(u) PROVE GateKept /\ Unstored'
  BY <1>4, TenancyKept DEF AdminCreateWorkspace, Unstored
<1>5. ASSUME NEW w \in Workspaces, DeleteWorkspace(w) PROVE GateKept /\ Unstored'
  BY <1>5, DeleteWorkspaceKeeps DEF DeleteWorkspace, Unstored
<1>6. ASSUME GateMoves(TRUE) PROVE \A s \in Procs : req'[s].pc = "idle" \/ req'[s].moved
  <2>1. \A s \in Procs : [req[s] EXCEPT !.moved = TRUE].moved
    BY AtWork DEF Request
  <2>2. Idle.pc = "idle"
    BY DEF Idle
  <2> QED BY <1>6, <2>1, <2>2 DEF GateMoves
<1>7. CASE GateMoves(OrganizationsNext)
  <2>0. GateMoves(TRUE)
    BY <1>7 DEF GateMoves
  <2>1. known' = known /\ \A u \in Users : orgOf'[u] \in {orgOf[u], None}
    <3>1. CASE UNCHANGED <<known, orgOf>>
      BY <3>1
    <3>2. ASSUME NEW a \in Admins, CommitDelete(a) PROVE known' = known /\ \A u \in Users : orgOf'[u] \in {orgOf[u], None}
      BY <3>2 DEF CommitDelete, OnDelete
    <3> QED BY <1>7, <3>1, <3>2
            DEF GateMoves, OrganizationsNext, create_organization, update_organization, add_domain,
                remove_domain, delete_organization, AdminFails, set_workspace_allowed_orgs,
                CommitAllowedOrgs
  <2>2. Unstored'
    BY <2>1 DEF Unstored
  <2> QED BY <1>6, <2>0, <2>2
<1>8. CASE GateMoves(\E u \in Users : SignIn(u))
  <2>0. GateMoves(TRUE)
    BY <1>8 DEF GateMoves
  <2>1. Unstored'
    BY <1>0, <1>8 DEF GateMoves, SignIn, Unstored
  <2> QED BY <1>6, <2>0, <2>1
<1>9. CASE Arrives
  BY <1>1, <1>9 DEF Arrives, Arrive
<1>10. ASSUME NEW s \in Procs, Statement(s) PROVE GateKept /\ Unstored'
  <2>1. UNCHANGED tenancy => GateKept /\ Unstored'
    BY TenancyKept DEF tenancy, Unstored
  <2> QED BY <1>2, <1>3, <1>10, <2>1
          DEF Statement, Claim, CountPending, InsertInvite, Revoke, create_self_serve, SlugCollides,
              Manage, Dies
<1>11. CASE Elsewhere
  BY <1>1, <1>4, <1>5, <1>7, <1>8, <1>11 DEF Elsewhere, Expire, HourPasses, SetActive
<1>12. CASE UNCHANGED vars
  BY <1>1, <1>12 DEF vars
<1> QED BY <1>9, <1>10, <1>11, <1>12, NextCases

(* A request on its way into a workspace has just asked, or asked before and
   has not been touched, or is marked as overtaken. *)
JustAsked(q) == Asked(q) /\ UNCHANGED <<tenancy, inv>>

LEMMA OnItsWay ==
  ASSUME TypeInv, [Next]_vars, NEW s \in Procs, ~req'[s].moved, req'[s].pc \in {"add", "claim"}
  PROVE  req'[s] = req[s] \/ JustAsked(req'[s])
<1>1. CASE Arrives
  <2> PICK t \in Procs, q \in Request : Asked(q) /\ Arrive(t, q)
    BY <1>1 DEF Arrives
  <2> QED BY DEF Arrive, Become, people, TypeInv, TypeOK, JustAsked
<1>2. ASSUME NEW t \in Procs, Statement(t) PROVE req'[s] = req[s]
  <2>1. PICK q : Become(t, q) /\ q.pc \in {"idle", "invite", "create"}
    BY <1>2, StatementReq
  <2> QED BY <2>1 DEF Become, TypeInv, TypeOK
<1>3. CASE Elsewhere
  <2>1. CASE GateMoves(TRUE)
    <3>1. [req[s] EXCEPT !.moved = TRUE].moved /\ Idle.pc = "idle"
      BY AtWork DEF Request, Idle
    <3>2. FALSE
      BY <2>1, <3>1 DEF GateMoves
    <3> QED BY <3>2
  <2>2. CASE UNCHANGED req
    BY <2>2
  <2> QED BY <1>3, <2>1, <2>2
          DEF Elsewhere, Expire, AdminCreateWorkspace, HourPasses, DeleteWorkspace, SetActive, GateMoves
<1>4. UNCHANGED vars => req'[s] = req[s]
  BY DEF vars
<1> QED BY <1>1, <1>2, <1>3, <1>4, NextCases

LEMMA AsksStep == TypeInv /\ RedeemInv /\ AsksInv /\ [Next]_vars => AsksInv'
<1> SUFFICES ASSUME TypeInv, RedeemInv, AsksInv, [Next]_vars PROVE AsksInv'
  OBVIOUS
<1>0. Unstored
  BY DEF AsksInv, Unstored
<1>1. Unstored' /\ (GateKept \/ \A s \in Procs : req'[s].pc = "idle" \/ req'[s].moved)
  BY <1>0, GateStep
<1>2. InvitesStep /\ TypeInv'
  BY InvitesStepped, TypeStep
<1>3. ASSUME NEW s \in Procs, NEW u, NEW w, ~req'[s].moved, req'[s].pc = "add",
             u = req'[s].who, w = req'[s].ws
      PROVE  UserAllowedIn(u, w)'
  <2>1. GateKept /\ u \in Users /\ w \in Workspaces
    BY <1>1, <1>2, <1>3 DEF TypeInv, ReqOK
  <2>2. UserAllowedIn(u, w)
    BY <1>3, OnItsWay DEF JustAsked, Asked, AsksInv
  <2> QED BY <2>1, <2>2 DEF GateKept
<1>4. ASSUME NEW s \in Procs, NEW u, NEW i, NEW w, ~req'[s].moved, req'[s].pc = "claim",
             u = req'[s].user, i = req'[s].inv, w = inv'[i].ws, inv'[i] \notin {None, Gone}
      PROVE  UserAllowedIn(u, w)'
  <2>1. GateKept /\ u \in Users /\ i \in Invites
    BY <1>1, <1>2, <1>4 DEF TypeInv, ReqOK
  <2>2. w \in Workspaces /\ UserAllowedIn(u, w)
    <3>1. CASE req'[s] = req[s]
      <4>1. inv[i] # None
        BY <1>4, <3>1 DEF RedeemInv
      <4>2. IsInvite(i) /\ w = inv[i].ws
        BY <1>2, <1>4, <2>1, <4>1 DEF InvitesStep, IsInvite
      <4>3. inv[i] \in Invite
        BY <2>1, <4>2, InviteTyped
      <4> QED BY <1>4, <3>1, <4>2, <4>3 DEF AsksInv, Invite
    <3>2. CASE JustAsked(req'[s])
      <4>1. IsInvite(i) /\ UserAllowedIn(u, inv[i].ws) /\ w = inv[i].ws
        BY <1>4, <3>2 DEF JustAsked, Asked
      <4>2. inv[i] \in Invite
        BY <2>1, <4>1, InviteTyped
      <4> QED BY <4>1, <4>2 DEF Invite
    <3> QED BY <1>4, <3>1, <3>2, OnItsWay
  <2> QED BY <2>1, <2>2 DEF GateKept
<1> QED BY <1>1, <1>3, <1>4 DEF AsksInv, Unstored, IsInvite

(* How a user may come to a role it did not have. *)
AllowedIn(w, u) ==
  \/ w \notin live /\ creator'[w] = u
  \/ UserAllowedIn(u, w)
  \/ \E s \in Procs : /\ req[s].moved
                     /\ \/ req[s].pc = "claim" /\ req[s].user = u
                        \/ req[s].pc = "add" /\ req[s].who = u

LEMMA WayIn ==
  ASSUME TypeInv, RowInv, AsksInv, [Next]_vars, NEW w \in Workspaces, NEW u \in Users,
         role[w][u] = None, role'[w][u] # None
  PROVE  AllowedIn(w, u)
<1>0. role \in [Workspaces -> [Users -> Roles \cup {None}]] /\ role' # role
  BY DEF TypeInv, TypeOK
<1>1. ASSUME NEW s \in Procs, Claim(s) PROVE AllowedIn(w, u)
  <2> DEFINE q == req[s]
             i == q.inv
             x == inv[i].ws
  <2>1. q.pc = "claim" /\ i \in Invites /\ q.user \in Users
    BY <1>1, AtWork DEF Claim, ReqOK
  <2>2. Claimable(i) /\ role' = [role EXCEPT ![x][q.user] = inv[i].role]
    BY <1>0, <1>1 DEF Claim
  <2>3. inv[i] \in Invite /\ IsInvite(i)
    BY <2>1, <2>2, InviteTyped DEF Claimable
  <2>4. x \in Workspaces
    BY <2>3 DEF Invite
  <2>5. ~q.moved => UserAllowedIn(q.user, x)
    BY <2>1, <2>3 DEF AsksInv
  <2>6. x = w /\ q.user = u
    <3> HIDE DEF x, q, i
    <3> QED BY <1>0, <2>1, <2>2, <2>4
  <2> QED BY <2>1, <2>5, <2>6 DEF AllowedIn
<1>2. ASSUME NEW s \in Procs, Manage(s) PROVE FALSE
  <2> DEFINE q == req[s]
  <2>1. q.ws \in Workspaces /\ q.who \in Users
    BY <1>2, AtWork DEF Manage, ReqOK
  <2>2. role[q.ws][q.who] # None /\ role' = [role EXCEPT ![q.ws][q.who] = q.role]
    BY <1>0, <1>2 DEF Manage
  <2> HIDE DEF q
  <2> QED BY <1>0, <2>1, <2>2
<1>3. ASSUME NEW s \in Procs, InsertMember(s) PROVE AllowedIn(w, u)
  <2> DEFINE q == req[s]
  <2>1. q.pc = "add" /\ q.ws \in Workspaces /\ q.who \in Users
    BY <1>3, AtWork DEF InsertMember, ReqOK
  <2>2. role' = [role EXCEPT ![q.ws][q.who] = q.role]
    BY <1>0, <1>3 DEF InsertMember
  <2>3. ~q.moved => UserAllowedIn(q.who, q.ws)
    BY <2>1 DEF AsksInv
  <2>4. q.ws = w /\ q.who = u
    <3> HIDE DEF q
    <3> QED BY <1>0, <2>1, <2>2
  <2> QED BY <2>1, <2>3, <2>4 DEF AllowedIn
<1>4. ASSUME NEW v \in Users, create_workspace(Fresh, v) PROVE AllowedIn(w, u)
  <2>1. Fresh \in Workspaces /\ Fresh \notin live
    BY <1>4, FreshIsNew DEF create_workspace, RowInv
  <2>2. role' = [role EXCEPT ![Fresh][v] = "owner"] /\ creator' = [creator EXCEPT ![Fresh] = v]
    BY <1>4 DEF create_workspace
  <2>3. creator \in [Workspaces -> Users \cup {None}]
    BY DEF TypeInv, TypeOK
  <2> HIDE DEF Fresh
  <2>4. Fresh = w /\ v = u
    BY <1>0, <1>4, <2>1, <2>2
  <2> QED BY <2>1, <2>2, <2>3, <2>4 DEF AllowedIn
<1>5. ASSUME NEW v \in Workspaces, DeleteWorkspace(v) PROVE FALSE
  BY <1>0, <1>5 DEF DeleteWorkspace, NoRoles
<1>6. ~Arrives
  BY <1>0 DEF Arrives, Arrive, people
<1>7. ASSUME NEW s \in Procs, Statement(s) PROVE AllowedIn(w, u)
  <2>1. CASE CreateWorkspace(s)
    BY <1>4, <2>1, AtWork DEF CreateWorkspace, ReqOK
  <2> QED BY <1>0, <1>1, <1>2, <1>3, <1>7, <2>1
          DEF Statement, CountPending, InsertInvite, Revoke, create_self_serve, SlugCollides, Dies, people
<1>8. CASE Elsewhere
  <2> QED BY <1>0, <1>4, <1>5, <1>8
          DEF Elsewhere, Expire, AdminCreateWorkspace, HourPasses, SetActive, GateMoves, people
<1>9. ~UNCHANGED vars
  BY <1>0 DEF vars, people
<1> QED BY <1>6, <1>7, <1>8, <1>9, NextCases

LEMMA OpenedByPut ==
  ASSUME TypeInv, [Next]_vars, NEW w \in Workspaces, allow[w] # {}, allow'[w] = {}, w \in live'
  PROVE  \E a \in Admins : adminReq[a].op = "put" /\ adminReq[a].ws = w /\ adminReq[a].ids = {}
<1>0. allow \in [Workspaces -> SUBSET Orgs] /\ allow' # allow
  BY DEF TypeInv, TypeOK, OrganizationsTypeOK
<1>1. ASSUME NEW a \in Admins, CommitAllowedOrgs(a)
      PROVE  adminReq[a].op = "put" /\ adminReq[a].ws = w /\ adminReq[a].ids = {}
  <2> DEFINE q == adminReq[a]
  <2>1. q.op = "put" /\ allow' = [allow EXCEPT ![q.ws] = (allow[q.ws] \ q.seen) \cup q.ids]
    BY <1>1 DEF CommitAllowedOrgs
  <2> HIDE DEF q
  <2>2. q.ws = w /\ q.ids = {}
    BY <1>0, <2>1
  <2> QED BY <2>1, <2>2 DEF q
<1>2. ASSUME NEW v \in Workspaces, DeleteWorkspace(v) PROVE FALSE
  BY <1>0, <1>2 DEF DeleteWorkspace
<1>3. ~Arrives
  BY <1>0 DEF Arrives, Arrive, tenancy
<1>4. \A s \in Procs : ~Statement(s)
  BY <1>0 DEF Statement, Claim, CountPending, InsertInvite, Revoke, create_self_serve, CreateWorkspace,
              SlugCollides, Manage, InsertMember, Dies, tenancy
<1>5. ~UNCHANGED vars
  BY <1>0 DEF vars, tenancy
<1>6. OrganizationsNext => \E a \in Admins : CommitAllowedOrgs(a)
  BY <1>0 DEF OrganizationsNext, create_organization, update_organization, add_domain, remove_domain,
              delete_organization, CommitDelete, OnDelete, AdminFails, set_workspace_allowed_orgs
<1>7. CASE GateMoves(OrganizationsNext)
  BY <1>1, <1>6, <1>7 DEF GateMoves
<1>8. CASE Elsewhere
  BY <1>0, <1>2, <1>7, <1>8
     DEF Elsewhere, Expire, AdminCreateWorkspace, HourPasses, SetActive, GateMoves, SignIn, tenancy
<1> QED BY <1>3, <1>4, <1>5, <1>8, NextCases

GateInv == TypeInv /\ RowInv /\ RedeemInv /\ AsksInv

LEMMA GateInvInit == Init => GateInv
<1>1. Init => RedeemInv
  BY IdleOK DEF Init, RedeemInv, InvitationAdmitsOne, Idle
<1>2. Init => AsksInv
  BY DEF Init, OrganizationsInit, AsksInv, Idle
<1> QED BY <1>1, <1>2, TypeInit, RowInit DEF GateInv

LEMMA GateInvStep == GateInv /\ [Next]_vars => GateInv'
  BY TypeStep, RowStep, RedeemStep, AsksStep DEF GateInv

(* The allowed-orgs gate is on every path in: whoever comes to have a role in a
   workspace founded it, or is admitted by the gate as it is at that moment, or
   was admitted when its request asked and an admin or a sign-in has moved the
   gate since.  And a restricted workspace opens to everybody only with a PUT
   of the empty list, or goes. *)
THEOREM NobodyWalksAround == Spec => GateHolds
<1>1. GateInv /\ [Next]_vars =>
        [\A w \in Workspaces, u \in Users :
           role[w][u] = None /\ role'[w][u] # None =>
             \/ w \notin live /\ creator'[w] = u
             \/ UserAllowedIn(u, w)
             \/ \E s \in Procs : /\ req[s].moved
                                /\ \/ req[s].pc = "claim" /\ req[s].user = u
                                   \/ req[s].pc = "add" /\ req[s].who = u]_vars
  BY WayIn DEF GateInv, AllowedIn
<1>2. GateInv /\ [Next]_vars =>
        [\A w \in Workspaces :
           allow[w] # {} /\ allow'[w] = {} =>
             \/ w \notin live'
             \/ \E a \in Admins : adminReq[a].op = "put" /\ adminReq[a].ws = w /\ adminReq[a].ids = {}]_tenancy
  BY OpenedByPut DEF GateInv
<1> QED BY <1>1, <1>2, GateInvInit, GateInvStep, PTL
        DEF Spec, GateHolds, GateOnEveryPath, OpenedOnlyByPut

-----------------------------------------------------------------------------
(* The limits. *)

LEMMA Fewer ==
  ASSUME NEW S, NEW T, IsFiniteSet(T), S \subseteq T
  PROVE  Cardinality(S) \in Nat /\ Cardinality(T) \in Nat /\ Cardinality(S) <= Cardinality(T)
  BY FS_Subset, FS_CardinalityType

LEMMA OneMore ==
  ASSUME NEW S, NEW T, NEW x, IsFiniteSet(T), S \subseteq T \cup {x}
  PROVE  Cardinality(S) \in Nat /\ Cardinality(T) \in Nat /\ Cardinality(S) <= Cardinality(T) + 1
<1>1. IsFiniteSet(T \cup {x}) /\ Cardinality(T) \in Nat
      /\ Cardinality(T \cup {x}) \in {Cardinality(T), Cardinality(T) + 1}
  BY FS_AddElement, FS_CardinalityType
<1>2. Cardinality(S) \in Nat /\ Cardinality(S) <= Cardinality(T \cup {x})
  BY <1>1, Fewer
<1> QED BY <1>1, <1>2

LEMMA Finite ==
  ASSUME TypeInv
  PROVE  /\ \A w : IsFiniteSet(list_for_workspace(w))
         /\ \A u : IsFiniteSet(SelfMadeBy(u))
         /\ IsFiniteSet(recent) /\ IsFiniteSet(recent \cap selfMade)
         /\ IsFiniteSet(Creators) /\ IsFiniteSet(Procs)
<1>1. IsFiniteSet(Invites) /\ IsFiniteSet(Workspaces) /\ IsFiniteSet(Procs)
  BY OnboardingAssumption
<1>2. live \subseteq Workspaces /\ recent \subseteq Workspaces
  BY DEF TypeInv, TypeOK, OrganizationsTypeOK
<1>3. \A w : list_for_workspace(w) \subseteq Invites
  BY DEF list_for_workspace
<1>4. \A u : SelfMadeBy(u) \subseteq Workspaces
  BY <1>2 DEF SelfMadeBy
<1>5. Creators \subseteq Procs
  BY DEF Creators
<1> QED BY <1>1, <1>2, <1>3, <1>4, <1>5, FS_Subset

LEMMA Limits == MaxPending \in Nat \ {0} /\ MaxOwn \in Nat \ {0} /\ MaxPerHour \in Nat \ {0}
  BY OnboardingAssumption

(* Who holds a lock and has counted. *)
Keeps(s) == \A x \in Users \cup Workspaces : lock[x] = s => lock'[x] = s
Waits(s) == req'[s].pc = req[s].pc /\ req'[s].ws = req[s].ws /\ req'[s].user = req[s].user /\ Keeps(s)

LEMMA OthersLocks ==
  ASSUME TypeInv, NEW s \in Procs, NEW t \in Procs, t # s, Statement(s)
  PROVE  Keeps(t)
<1>0. lock \in [Users \cup Workspaces -> Procs \cup {None}] /\ None # t
  BY OnboardingAssumption DEF TypeInv, TypeOK
<1>1. CASE lock' = lock
  BY <1>1 DEF Keeps
<1>2. CASE lock' = Unlocked(s)
  BY <1>0, <1>2 DEF Keeps, Unlocked
<1>3. ASSUME NEW y, RowFree(y), lock' = [lock EXCEPT ![y] = s] PROVE Keeps(t)
  BY <1>0, <1>3 DEF Keeps, RowFree
<1>4. CASE CountPending(s)
  BY <1>1, <1>3, <1>4 DEF CountPending
<1>5. CASE create_self_serve(s)
  BY <1>1, <1>3, <1>5 DEF create_self_serve
<1> QED BY <1>1, <1>2, <1>4, <1>5
        DEF Statement, Claim, InsertInvite, Revoke, CreateWorkspace, SlugCollides, Manage,
            InsertMember, Dies

(* A request stands between its count and its INSERT because it stood there
   already, or because it has just counted, or because its slug collided. *)
LEMMA Counted ==
  ASSUME TypeInv, [Next]_vars, NEW s \in Procs, req'[s].pc \in {"invite", "create"}
  PROVE  Waits(s) \/ CountPending(s) \/ create_self_serve(s) \/ SlugCollides(s)
<1>0. req \in [Procs -> Request]
  BY DEF TypeInv, TypeOK
<1>1. CASE UNCHANGED lock /\ req'[s] = req[s]
  BY <1>1 DEF Waits, Keeps
<1>2. CASE Arrives
  <2> PICK t \in Procs, q \in Request : Asked(q) /\ Arrive(t, q)
    BY <1>2 DEF Arrives
  <2> QED BY <1>0, <1>1 DEF Arrive, Become, Asked
<1>3. ASSUME NEW t \in Procs, Statement(t), t # s PROVE Waits(s)
  <2>1. PICK q : Become(t, q)
    BY <1>3, StatementReq
  <2>2. Keeps(s)
    BY <1>3, OthersLocks
  <2> QED BY <1>0, <1>3, <2>1, <2>2 DEF Become, Waits
<1>4. CASE Statement(s)
  <2>1. Become(s, Idle) => FALSE
    BY <1>0 DEF Become, Idle
  <2> QED BY <1>4, <2>1 DEF Statement, Claim, InsertInvite, Revoke, CreateWorkspace, Manage, InsertMember, Dies
<1>5. CASE GateMoves(TRUE)
  <2> DEFINE q == [req[s] EXCEPT !.moved = TRUE]
  <2>1. q.pc = req[s].pc /\ q.ws = req[s].ws /\ q.user = req[s].user
    BY <1>0 DEF Request
  <2> HIDE DEF q
  <2>2. req'[s] = q
    <3>1. req'[s] = IF req[s].pc = "idle" THEN Idle ELSE q
      BY <1>5 DEF GateMoves, q
    <3> QED BY <3>1 DEF Idle
  <2> QED BY <1>5, <2>1, <2>2 DEF GateMoves, Waits, Keeps
<1>6. CASE Elsewhere
  BY <1>1, <1>5, <1>6
     DEF Elsewhere, Expire, AdminCreateWorkspace, HourPasses, DeleteWorkspace, SetActive, GateMoves
<1>7. CASE UNCHANGED vars
  BY <1>1, <1>7 DEF vars
<1> QED BY <1>2, <1>3, <1>4, <1>6, <1>7, NextCases

LEMMA CountedAs ==
  ASSUME TypeInv, NEW s \in Procs
  PROVE  /\ CountPending(s) => req'[s].pc \in {"idle", "invite"}
         /\ create_self_serve(s) \/ SlugCollides(s) => req'[s].pc \in {"idle", "create"}
<1>0. req \in [Procs -> Request] /\ Idle.pc = "idle"
  BY DEF TypeInv, TypeOK, Idle
<1>1. \A q : Become(s, q) => req'[s] = q
  BY <1>0 DEF Become
<1>2. ASSUME CountPending(s) PROVE req'[s].pc \in {"idle", "invite"}
  <2>1. Become(s, Idle) \/ Become(s, [req[s] EXCEPT !.pc = "invite"])
    BY <1>2 DEF CountPending
  <2>2. [req[s] EXCEPT !.pc = "invite"].pc = "invite"
    BY <1>0 DEF Request
  <2> QED BY <1>0, <1>1, <2>1, <2>2
<1>3. ASSUME create_self_serve(s) PROVE req'[s].pc \in {"idle", "create"}
  <2>1. Become(s, Idle) \/ Become(s, [req[s] EXCEPT !.pc = "create"])
    BY <1>3 DEF create_self_serve
  <2>2. [req[s] EXCEPT !.pc = "create"].pc = "create"
    BY <1>0 DEF Request
  <2> QED BY <1>0, <1>1, <2>1, <2>2
<1>4. ASSUME SlugCollides(s) PROVE req'[s].pc \in {"idle", "create"}
  <2>1. Become(s, Idle) \/ \E n : Become(s, [req[s] EXCEPT !.tries = n])
    BY <1>4 DEF SlugCollides
  <2>2. \A n : [req[s] EXCEPT !.tries = n].pc = "create"
    BY <1>0, <1>4 DEF Request, SlugCollides
  <2> QED BY <1>0, <1>1, <2>1, <2>2
<1> QED BY <1>2, <1>3, <1>4

(* Pending invitations per workspace. *)
LEMMA NewInvites ==
  ASSUME TypeInv, [Next]_vars, NEW i \in Invites, inv[i] = None, inv'[i] # None
  PROVE  \E s \in Procs : InsertInvite(s) /\ inv' = [inv EXCEPT ![i] = NewInvite(req[s])]
<1>0. inv \in [Invites -> Invite \cup {None, Gone}] /\ inv' # inv /\ ~IsInvite(i) /\ ~Pending(i)
  BY DEF TypeInv, TypeOK, IsInvite, Pending
<1>1. ASSUME NEW j \in Invites, NEW x, inv' = [inv EXCEPT ![j] = x], IsInvite(j) PROVE FALSE
  BY <1>0, <1>1
<1>2. ASSUME NEW s \in Procs, Claim(s) PROVE FALSE
  <2>1. req[s].inv \in Invites /\ Claimable(req[s].inv)
        /\ inv' = [inv EXCEPT ![req[s].inv] = [inv[req[s].inv] EXCEPT !.accepted_by = req[s].user]]
    BY <1>0, <1>2, AtWork DEF Claim, ReqOK
  <2> QED BY <1>1, <2>1 DEF Claimable
<1>3. ASSUME NEW s \in Procs, Revoke(s) PROVE FALSE
  <2>1. req[s].inv \in Invites /\ IsInvite(req[s].inv)
        /\ inv' = [inv EXCEPT ![req[s].inv] = [inv[req[s].inv] EXCEPT !.revoked = TRUE]]
    BY <1>0, <1>3, AtWork DEF Revoke, ReqOK
  <2> QED BY <1>1, <2>1
<1>4. ASSUME NEW j \in Invites, Expire(j) PROVE FALSE
  <2>1. IsInvite(j) /\ inv' = [inv EXCEPT ![j] = [inv[j] EXCEPT !.expired = TRUE]]
    BY <1>4 DEF Expire, Pending
  <2> QED BY <1>1, <2>1
<1>5. ASSUME NEW w \in Workspaces, DeleteWorkspace(w) PROVE FALSE
  BY <1>0, <1>5 DEF DeleteWorkspace
<1>6. ASSUME NEW s \in Procs, InsertInvite(s) PROVE inv' = [inv EXCEPT ![i] = NewInvite(req[s])]
  <2> DEFINE j == CHOOSE k \in Invites : inv[k] = None
  <2>1. j \in Invites /\ inv' = [inv EXCEPT ![j] = NewInvite(req[s])]
    BY <1>0, <1>6 DEF InsertInvite
  <2> HIDE DEF j
  <2> QED BY <1>0, <2>1
<1>7. ~Arrives /\ ~UNCHANGED vars
  BY <1>0 DEF Arrives, Arrive, people, vars
<1>8. ASSUME NEW s \in Procs, Statement(s) PROVE InsertInvite(s)
  BY <1>0, <1>2, <1>3, <1>8
     DEF Statement, CountPending, create_self_serve, CreateWorkspace, SlugCollides, Manage,
         InsertMember, Dies, people
<1>9. ~Elsewhere
  BY <1>0, <1>4, <1>5 DEF Elsewhere, AdminCreateWorkspace, HourPasses, SetActive, GateMoves, people
<1> QED BY <1>6, <1>7, <1>8, <1>9, NextCases

LEMMA PendingStays ==
  ASSUME TypeInv, [Next]_vars, NEW w \in Workspaces,
         \A s \in Procs : InsertInvite(s) => req[s].ws # w
  PROVE  list_for_workspace(w)' \subseteq list_for_workspace(w)
<1>0. inv \in [Invites -> Invite \cup {None, Gone}] /\ InvitesStep
  BY InvitesStepped DEF TypeInv, TypeOK
<1>1. ASSUME NEW i \in Invites, Pending(i)', inv'[i].ws = w PROVE Pending(i) /\ inv[i].ws = w
  <2>1. inv'[i] # None /\ IsInvite(i)'
    BY <1>1 DEF Pending, IsInvite
  <2>2. CASE inv[i] = None
    <3>1. PICK s \in Procs : InsertInvite(s) /\ inv' = [inv EXCEPT ![i] = NewInvite(req[s])]
      BY <2>1, <2>2, NewInvites
    <3>2. inv'[i].ws = req[s].ws
      BY <1>0, <3>1 DEF NewInvite
    <3> QED BY <1>1, <3>1, <3>2
  <2>3. CASE inv[i] # None
    BY <1>0, <1>1, <2>1, <2>3 DEF InvitesStep
  <2> QED BY <2>2, <2>3
<1> QED BY <1>1 DEF list_for_workspace

LEMMA PendingInvStep == TypeInv /\ PendingInv /\ [Next]_vars => PendingInv'
<1> SUFFICES ASSUME TypeInv, PendingInv, [Next]_vars PROVE PendingInv'
  OBVIOUS
<1>0. TypeInv' /\ inv \in [Invites -> Invite \cup {None, Gone}]
  BY TypeStep DEF TypeInv, TypeOK
<1>1. ASSUME NEW w \in Workspaces, list_for_workspace(w)' \subseteq list_for_workspace(w)
      PROVE  /\ Cardinality(list_for_workspace(w)') \in Nat
             /\ Cardinality(list_for_workspace(w)) \in Nat
             /\ Cardinality(list_for_workspace(w)') <= Cardinality(list_for_workspace(w))
  BY <1>1, Fewer, Finite
<1>2. ASSUME NEW w \in Workspaces PROVE Cardinality(list_for_workspace(w)') <= MaxPending
  <2>1. CASE list_for_workspace(w)' \subseteq list_for_workspace(w)
    BY <1>1, <2>1, Limits DEF PendingInv, PendingCap
  <2>2. ASSUME NEW s \in Procs, InsertInvite(s), req[s].ws = w
        PROVE  Cardinality(list_for_workspace(w)') <= MaxPending
    <3> DEFINE i == CHOOSE j \in Invites : inv[j] = None
    <3>1. i \in Invites /\ (UNCHANGED inv \/ inv' = [inv EXCEPT ![i] = NewInvite(req[s])])
      BY <2>2 DEF InsertInvite
    <3> HIDE DEF i
    <3>2. list_for_workspace(w)' \subseteq list_for_workspace(w) \cup {i}
      BY <1>0, <3>1 DEF list_for_workspace, Pending, IsInvite
    <3>3. Cardinality(list_for_workspace(w)) < MaxPending
      BY <2>2 DEF InsertInvite, PendingInv
    <3>4. /\ Cardinality(list_for_workspace(w)') \in Nat /\ Cardinality(list_for_workspace(w)) \in Nat
          /\ Cardinality(list_for_workspace(w)') <= Cardinality(list_for_workspace(w)) + 1
      BY <3>2, OneMore, Finite
    <3> QED BY <3>3, <3>4, Limits
  <2> QED BY <2>1, <2>2, PendingStays
<1>3. ASSUME NEW s \in Procs, NEW w \in Workspaces, req'[s].pc = "invite", w = req'[s].ws
      PROVE  lock'[w] = s /\ Cardinality(list_for_workspace(w)') < MaxPending
  <2>1. CASE Waits(s)
    <3>1. lock[w] = s /\ Cardinality(list_for_workspace(w)) < MaxPending
      BY <1>3, <2>1 DEF Waits, PendingInv
    <3>2. \A t \in Procs : InsertInvite(t) => req[t].ws # w
      <4>1. ASSUME NEW t \in Procs, InsertInvite(t), req[t].ws = w PROVE FALSE
        <5>1. req[t].pc = "invite" /\ lock[w] = t
          BY <4>1 DEF InsertInvite, PendingInv
        <5>2. req'[t] = Idle
          BY <4>1 DEF InsertInvite, Become, TypeInv, TypeOK
        <5> QED BY <1>3, <3>1, <5>1, <5>2 DEF Idle
      <4> QED BY <4>1
    <3>3. list_for_workspace(w)' \subseteq list_for_workspace(w)
      BY <3>2, PendingStays
    <3>4. lock'[w] = s
      BY <2>1, <3>1 DEF Waits, Keeps
    <3> QED BY <1>1, <3>1, <3>3, <3>4, Limits
  <2>2. CASE CountPending(s)
    <3> DEFINE q == [req[s] EXCEPT !.pc = "invite"]
    <3>1. req \in [Procs -> Request] /\ lock \in [Users \cup Workspaces -> Procs \cup {None}]
      BY DEF TypeInv, TypeOK
    <3>2. q.ws = req[s].ws /\ Idle.pc = "idle"
      BY <3>1 DEF Request, Idle
    <3> HIDE DEF q
    <3>3. \/ Become(s, Idle)
          \/ /\ Become(s, q) /\ lock' = [lock EXCEPT ![req[s].ws] = s]
             /\ ~(Cardinality(list_for_workspace(req[s].ws)) >= MaxPending)
      BY <2>2 DEF CountPending, q
    <3>4. /\ w = req[s].ws /\ lock' = [lock EXCEPT ![w] = s]
          /\ ~(Cardinality(list_for_workspace(w)) >= MaxPending)
      BY <1>3, <3>1, <3>2, <3>3 DEF Become
    <3>5. list_for_workspace(w)' = list_for_workspace(w)
      BY <2>2 DEF CountPending, people, list_for_workspace, Pending, IsInvite
    <3>6. Cardinality(list_for_workspace(w)) \in Nat
      BY <1>1, <3>5
    <3> QED BY <3>1, <3>4, <3>5, <3>6, Limits
  <2>3. ~create_self_serve(s) /\ ~SlugCollides(s)
    BY <1>3, CountedAs
  <2> QED BY <1>3, <2>1, <2>2, <2>3, Counted
<1>4. ASSUME NEW s \in Procs, req'[s].pc = "invite" PROVE req'[s].ws \in Workspaces
  BY <1>0, <1>4 DEF TypeInv, ReqOK
<1> QED BY <1>2, <1>3, <1>4 DEF PendingInv, PendingCap

(* Workspaces that users created themselves. *)
LEMMA SelfMadeStepped ==
  ASSUME TypeInv, [Next]_vars
  PROVE  selfMade' = selfMade \/ \E s \in Procs : CreateWorkspace(s)
<1>1. CASE Arrives
  BY <1>1 DEF Arrives, Arrive, people, spaces
<1>2. ASSUME NEW s \in Procs, Statement(s), ~CreateWorkspace(s) PROVE selfMade' = selfMade
  BY <1>2 DEF Statement, Claim, CountPending, InsertInvite, Revoke, create_self_serve, SlugCollides,
              Manage, InsertMember, Dies, people, spaces
<1>3. CASE Elsewhere
  BY <1>3 DEF Elsewhere, Expire, AdminCreateWorkspace, HourPasses, DeleteWorkspace, SetActive,
              GateMoves, people, spaces
<1>4. CASE UNCHANGED vars
  BY <1>4 DEF vars, people, spaces
<1> QED BY <1>1, <1>2, <1>3, <1>4, NextCases

LEMMA OwnStays ==
  ASSUME TypeInv, RowInv, [Next]_vars, NEW u \in Users,
         \A s \in Procs : CreateWorkspace(s) => req[s].user # u
  PROVE  SelfMadeBy(u)' \subseteq SelfMadeBy(u)
<1>0. live \in SUBSET Workspaces /\ selfMade \in SUBSET Workspaces
      /\ creator \in [Workspaces -> Users \cup {None}]
  BY DEF TypeInv, TypeOK, OrganizationsTypeOK
<1>1. ASSUME NEW s \in Procs, CreateWorkspace(s) PROVE SelfMadeBy(u)' \subseteq SelfMadeBy(u)
  <2> DEFINE v == req[s].user
  <2>1. /\ Fresh \in Workspaces /\ v # u /\ live' = live \cup {Fresh}
        /\ selfMade' = selfMade \cup {Fresh} /\ creator' = [creator EXCEPT ![Fresh] = v]
    BY <1>1, FreshIsNew DEF CreateWorkspace, create_workspace
  <2> HIDE DEF v, Fresh
  <2> QED BY <1>0, <2>1 DEF SelfMadeBy
<1>2. ASSUME selfMade' = selfMade PROVE SelfMadeBy(u)' \subseteq SelfMadeBy(u)
  <2>1. CASE UNCHANGED <<creator, selfMade>> /\ live' \subseteq live
    BY <2>1 DEF SelfMadeBy
  <2>2. ASSUME NEW v \in Users, create_workspace(Fresh, v) PROVE SelfMadeBy(u)' \subseteq SelfMadeBy(u)
    <3>1. /\ Fresh \in Workspaces /\ Fresh \notin selfMade
          /\ live' = live \cup {Fresh} /\ creator' = [creator EXCEPT ![Fresh] = v]
      BY <2>2, FreshIsNew DEF create_workspace, RowInv
    <3> HIDE DEF Fresh
    <3> QED BY <1>0, <1>2, <3>1 DEF SelfMadeBy
  <2> QED BY <2>1, <2>2, RowsStepped DEF RowsStep
<1> QED BY <1>1, <1>2, SelfMadeStepped

LEMMA CollidedStays == TypeInv /\ [Next]_vars => collided \subseteq collided'
<1> SUFFICES ASSUME TypeInv, [Next]_vars PROVE collided \subseteq collided'
  OBVIOUS
<1>1. CASE Arrives
  BY <1>1 DEF Arrives, Arrive
<1>2. ASSUME NEW s \in Procs, Statement(s) PROVE collided \subseteq collided'
  BY <1>2 DEF Statement, Claim, CountPending, InsertInvite, Revoke, create_self_serve,
              CreateWorkspace, SlugCollides, Manage, InsertMember, Dies, settings
<1>3. CASE Elsewhere
  BY <1>3 DEF Elsewhere, Expire, AdminCreateWorkspace, HourPasses, DeleteWorkspace, SetActive, GateMoves
<1>4. CASE UNCHANGED vars
  BY <1>4 DEF vars
<1> QED BY <1>1, <1>2, <1>3, <1>4, NextCases

LEMMA OwnInvStep == TypeInv /\ RowInv /\ OwnInv /\ [Next]_vars => OwnInv'
<1> SUFFICES ASSUME TypeInv, RowInv, OwnInv, [Next]_vars PROVE OwnInv'
  OBVIOUS
<1>0. TypeInv' /\ collided \subseteq collided' /\ req \in [Procs -> Request]
  BY TypeStep, CollidedStays DEF TypeInv, TypeOK
<1>1. ASSUME NEW u \in Users, SelfMadeBy(u)' \subseteq SelfMadeBy(u)
      PROVE  /\ Cardinality(SelfMadeBy(u)') \in Nat /\ Cardinality(SelfMadeBy(u)) \in Nat
             /\ Cardinality(SelfMadeBy(u)') <= Cardinality(SelfMadeBy(u))
  BY <1>1, Fewer, Finite
<1>2. ASSUME NEW u \in Users, u \notin collided' PROVE Cardinality(SelfMadeBy(u)') <= MaxOwn
  <2>1. CASE SelfMadeBy(u)' \subseteq SelfMadeBy(u)
    <3>1. Cardinality(SelfMadeBy(u)) <= MaxOwn
      BY <1>0, <1>2 DEF OwnInv, SelfServeCap, SelfMadeBy
    <3> QED BY <1>1, <2>1, <3>1, Limits
  <2>2. ASSUME NEW s \in Procs, CreateWorkspace(s), req[s].user = u
        PROVE  Cardinality(SelfMadeBy(u)') <= MaxOwn
    <3>1. Fresh \in Workspaces /\ live' = live \cup {Fresh} /\ selfMade' = selfMade \cup {Fresh}
          /\ creator' = [creator EXCEPT ![Fresh] = u]
      BY <2>2, FreshIsNew DEF CreateWorkspace, create_workspace
    <3> HIDE DEF Fresh
    <3>2. creator \in [Workspaces -> Users \cup {None}]
      BY DEF TypeInv, TypeOK
    <3>3. SelfMadeBy(u)' \subseteq SelfMadeBy(u) \cup {Fresh}
      BY <3>1, <3>2 DEF SelfMadeBy, TypeInv, TypeOK, OrganizationsTypeOK
    <3>4. Cardinality(SelfMadeBy(u)) < MaxOwn
      BY <1>0, <1>2, <2>2 DEF CreateWorkspace, OwnInv
    <3>5. /\ Cardinality(SelfMadeBy(u)') \in Nat /\ Cardinality(SelfMadeBy(u)) \in Nat
          /\ Cardinality(SelfMadeBy(u)') <= Cardinality(SelfMadeBy(u)) + 1
      BY <3>3, OneMore, Finite
    <3> QED BY <3>4, <3>5, Limits
  <2> QED BY <2>1, <2>2, OwnStays
<1>3. ASSUME NEW s \in Procs, NEW u \in Users, req'[s].pc = "create", u = req'[s].user, u \notin collided'
      PROVE  lock'[u] = s /\ Cardinality(SelfMadeBy(u)') < MaxOwn
  <2>1. CASE Waits(s)
    <3>1. lock[u] = s /\ Cardinality(SelfMadeBy(u)) < MaxOwn
      BY <1>0, <1>3, <2>1 DEF Waits, OwnInv
    <3>2. ASSUME NEW t \in Procs, CreateWorkspace(t), req[t].user = u PROVE FALSE
      <4>1. lock[u] = t
        BY <1>0, <1>3, <3>2 DEF CreateWorkspace, OwnInv
      <4>2. req'[t] = Idle
        BY <1>0, <3>2 DEF CreateWorkspace, Become
      <4> QED BY <1>3, <3>1, <4>1, <4>2 DEF Idle
    <3>3. SelfMadeBy(u)' \subseteq SelfMadeBy(u)
      BY <3>2, OwnStays
    <3>4. lock'[u] = s
      BY <2>1, <3>1 DEF Waits, Keeps
    <3> QED BY <1>1, <3>1, <3>3, <3>4, Limits
  <2>2. CASE create_self_serve(s)
    <3> DEFINE q == [req[s] EXCEPT !.pc = "create"]
    <3>1. lock \in [Users \cup Workspaces -> Procs \cup {None}]
      BY DEF TypeInv, TypeOK
    <3>2. q.user = req[s].user /\ Idle.pc = "idle"
      BY <1>0 DEF Request, Idle
    <3> HIDE DEF q
    <3>3. \/ Become(s, Idle)
          \/ /\ Become(s, q) /\ lock' = [lock EXCEPT ![req[s].user] = s]
             /\ ~CapReached(req[s].user)
      BY <2>2 DEF create_self_serve, q
    <3>4. u = req[s].user /\ lock' = [lock EXCEPT ![u] = s] /\ ~CapReached(u)
      BY <1>0, <1>3, <3>2, <3>3 DEF Become
    <3>5. SelfMadeBy(u)' = SelfMadeBy(u)
      BY <2>2 DEF create_self_serve, people, spaces, tenancy, SelfMadeBy
    <3>6. /\ Cardinality(SelfMadeBy(u)) \in Nat /\ count_created_by(u) \in Nat
          /\ Cardinality(SelfMadeBy(u)) <= count_created_by(u)
      <4>1. IsFiniteSet({w \in live : creator[w] = u})
        <5>1. {w \in live : creator[w] = u} \subseteq Workspaces /\ IsFiniteSet(Workspaces)
          BY OnboardingAssumption DEF TypeInv, TypeOK, OrganizationsTypeOK
        <5> QED BY <5>1, FS_Subset
      <4>2. SelfMadeBy(u) \subseteq {w \in live : creator[w] = u}
        BY DEF SelfMadeBy
      <4> QED BY <4>1, <4>2, Fewer DEF count_created_by
    <3> QED BY <3>1, <3>4, <3>5, <3>6, Limits DEF CapReached
  <2>3. CASE SlugCollides(s)
    <3>1. \A n : [req[s] EXCEPT !.tries = n].user = req[s].user
      BY <1>0 DEF Request
    <3>2. req'[s].user = req[s].user
      BY <1>0, <1>3, <2>3, <3>1 DEF SlugCollides, Become, Idle
    <3> QED BY <1>3, <2>3, <3>2 DEF SlugCollides
  <2>4. ~CountPending(s)
    BY <1>3, CountedAs
  <2> QED BY <1>3, <2>1, <2>2, <2>3, <2>4, Counted
<1>4. ASSUME NEW s \in Procs, req'[s].pc = "create" PROVE req'[s].user \in Users
  BY <1>0, <1>4 DEF TypeInv, ReqOK
<1> QED BY <1>2, <1>3, <1>4 DEF OwnInv, SelfServeCap, SelfMadeBy

(* The hourly breaker, which nobody locks. *)
LEMMA BreakerInvStep == TypeInv /\ RowInv /\ BreakerInv /\ [Next]_vars => BreakerInv'
<1> SUFFICES ASSUME TypeInv, RowInv, BreakerInv, [Next]_vars PROVE BreakerInv'
  OBVIOUS
<1> DEFINE R == recent \cap selfMade
           C == Creators
<1>0. TypeInv' /\ req \in [Procs -> Request] /\ Idle.pc = "idle"
  BY TypeStep DEF TypeInv, TypeOK, Idle
<1>1. IsFiniteSet(R) /\ IsFiniteSet(C) /\ IsFiniteSet(Procs) /\ IsFiniteSet(recent) /\ C' \subseteq Procs
  BY Finite DEF Creators
<1>2. Cardinality(R) \in Nat /\ Cardinality(C) \in Nat /\ Cardinality(Procs) \in Nat
      /\ Cardinality(recent) \in Nat /\ Cardinality(C') \in Nat /\ Cardinality(C') <= Cardinality(Procs)
  BY <1>1, Fewer, FS_CardinalityType
<1>3. Cardinality(R) + Cardinality(C) <= MaxPerHour - 1 + Cardinality(Procs)
  BY DEF BreakerInv
<1>4. ASSUME NEW s \in Procs, s \in C', s \notin C PROVE create_self_serve(s)
  <2>1. req'[s].pc = "create" /\ req[s].pc # "create"
    BY <1>4 DEF Creators
  <2> QED BY <2>1, Counted, CountedAs DEF Waits, SlugCollides
<1>5. ASSUME \A s \in Procs : ~CreateWorkspace(s) PROVE R' \subseteq R
  <2>1. selfMade' = selfMade
    BY <1>5, SelfMadeStepped
  <2>2. ASSUME NEW v \in Users, create_workspace(Fresh, v) PROVE R' \subseteq R
    <3>1. recent' = recent \cup {Fresh} /\ Fresh \notin selfMade
      BY <2>2, FreshIsNew DEF create_workspace, RowInv
    <3> QED BY <2>1, <3>1
  <2> QED BY <2>1, <2>2, RowsStepped DEF RowsStep
<1>6. ASSUME NEW s \in Procs, create_self_serve(s), req'[s].pc = "create"
      PROVE  Cardinality(R') + Cardinality(C') <= MaxPerHour - 1 + Cardinality(Procs)
  <2>1. R' = R
    BY <1>6 DEF create_self_serve, people, spaces
  <2>2. ~Throttled
    <3>1. CASE Become(s, Idle)
      BY <1>0, <1>6, <3>1 DEF Become
    <3> QED BY <1>6, <3>1 DEF create_self_serve
  <2>3. Cardinality(R) <= Cardinality(recent)
    BY <1>1, Fewer
  <2> QED BY <1>2, <2>1, <2>2, <2>3, Limits DEF Throttled
<1>7. ASSUME NEW s \in Procs, CreateWorkspace(s)
      PROVE  Cardinality(R') + Cardinality(C') <= MaxPerHour - 1 + Cardinality(Procs)
  <2>1. R' \subseteq R \cup {Fresh}
    BY <1>7 DEF CreateWorkspace, create_workspace
  <2>2. C' \subseteq C \ {s} /\ s \in C
    BY <1>0, <1>7 DEF CreateWorkspace, Become, Creators
  <2>3. Cardinality(R') \in Nat /\ Cardinality(R') <= Cardinality(R) + 1
    BY <1>1, <2>1, OneMore
  <2>4. Cardinality(C \ {s}) = Cardinality(C) - 1 /\ IsFiniteSet(C \ {s})
    BY <1>1, <2>2, FS_RemoveElement
  <2>5. Cardinality(C') <= Cardinality(C) - 1
    BY <2>2, <2>4, Fewer
  <2> QED BY <1>2, <1>3, <2>3, <2>5, Limits
<1>8. ASSUME R' \subseteq R, C' \subseteq C
      PROVE  Cardinality(R') + Cardinality(C') <= MaxPerHour - 1 + Cardinality(Procs)
  <2>1. /\ Cardinality(R') \in Nat /\ Cardinality(R') <= Cardinality(R)
        /\ Cardinality(C') <= Cardinality(C)
    BY <1>1, <1>8, Fewer
  <2> QED BY <1>2, <1>3, <2>1, Limits
<1>9. CASE C' \subseteq C
  BY <1>5, <1>7, <1>8, <1>9 DEF BreakerInv
<1>10. ASSUME NEW s \in Procs, s \in C', s \notin C PROVE BreakerInv'
  BY <1>4, <1>6, <1>10 DEF BreakerInv, Creators
<1> QED BY <1>1, <1>9, <1>10

LEMMA LimitInit == Init => LimitInv
<1> SUFFICES ASSUME Init PROVE LimitInv
  OBVIOUS
<1>0. \A s \in Procs : req[s].pc = "idle"
  BY DEF Init, Idle
<1>1. \A w \in Workspaces : list_for_workspace(w) = {}
  BY DEF Init, list_for_workspace, Pending, IsInvite
<1>2. \A u : SelfMadeBy(u) = {}
  BY DEF Init, SelfMadeBy
<1>3. recent \cap selfMade = {} /\ Creators = {}
  BY <1>0 DEF Init, Creators
<1>4. Cardinality({}) = 0 /\ Cardinality(Procs) \in Nat
  BY FS_EmptySet, FS_CardinalityType, OnboardingAssumption
<1>5. PendingInv
  <2>1. 0 <= MaxPending
    BY Limits
  <2>2. \A w \in Workspaces : Cardinality(list_for_workspace(w)) = 0
    BY <1>1, <1>4
  <2> QED BY <1>0, <2>1, <2>2 DEF PendingInv, PendingCap
<1>6. OwnInv
  <2>1. 0 <= MaxOwn
    BY Limits
  <2>2. \A u \in Users : Cardinality(SelfMadeBy(u)) = 0
    BY <1>2, <1>4
  <2> QED BY <1>0, <2>1, <2>2 DEF OwnInv, SelfServeCap, SelfMadeBy
<1>7. BreakerInv
  <2>1. Cardinality(recent \cap selfMade) = 0 /\ Cardinality(Creators) = 0
    BY <1>3, <1>4
  <2>2. 0 + 0 <= MaxPerHour - 1 + Cardinality(Procs)
    BY <1>4, Limits
  <2> QED BY <2>1, <2>2 DEF BreakerInv
<1> QED BY <1>5, <1>6, <1>7 DEF LimitInv

LEMMA LimitInvHolds == TypeInv /\ LimitInv => LimitsHold
<1> SUFFICES ASSUME TypeInv, LimitInv PROVE LimitsHold
  OBVIOUS
<1>1. Cardinality(recent \cap selfMade) \in Nat /\ Cardinality(Creators) \in Nat /\ Cardinality(Procs) \in Nat
  BY Finite, FS_CardinalityType
<1>2. BreakerOvershoot
  BY <1>1, Limits DEF LimitInv, BreakerInv, BreakerOvershoot
<1> QED BY <1>2 DEF LimitInv, PendingInv, OwnInv, LimitsHold

(* The three limits of onboarding.  A request that has counted a workspace's
   pending invitations, or a user's workspaces, holds the row lock it counted
   under until its INSERT commits, so the count it passed on still stands
   then; a user one of whose slugs collided has lost that lock, and is left
   out.  Nobody locks the hour's count, so each request in flight may add one
   to what the breaker allows, and no request more than one. *)
THEOREM OnboardingIsLimited == Spec => []LimitsHold
<1> DEFINE Inv == TypeInv /\ RowInv /\ LimitInv
<1>1. Init => Inv
  BY TypeInit, RowInit, LimitInit
<1>2. Inv /\ [Next]_vars => Inv'
  BY TypeStep, RowStep, PendingInvStep, OwnInvStep, BreakerInvStep DEF LimitInv
<1>3. Inv => LimitsHold
  BY LimitInvHolds
<1> HIDE DEF Inv
<1> QED BY <1>1, <1>2, <1>3, PTL DEF Spec
=============================================================================
