--------------------------- MODULE AccessControl ---------------------------
(***************************************************************************)
(* What a user may do: the role-based actions that roles of a workspace    *)
(* grant directly or through groups, and the permission rows and shares of *)
(* single resources.  Services read and write them under their scope, with *)
(* the claims of a user's token; admins write them directly.  A handler    *)
(* that checks a membership, a group or a role and then inserts is split   *)
(* between the two: no foreign key ties a grant to a membership.           *)
(***************************************************************************)
EXTENDS ServiceScopes

CONSTANTS Users, Workspaces, Groups, RoleIds, ActionNames, Resources,
          PermIds,    \* rows of resource_permissions that may be created
          Callers,    \* requests that insert, in flight together
          Scenarios   \* bound: the features of a behaviour, its requests and changes

WsRoles == {"owner", "admin", "editor", "viewer"}
Privileged == {"owner", "admin"}
Levels == {"view", "edit"}

PermRow == [svc: Names, res: Resources, ws: Workspaces, owner: Users, vis: {"private", "workspace"}]

(* As for the rows of ServiceScopes; whoever is in a group at first is a member
   of its workspace. *)
ASSUME AccessAssumption ==
  /\ Users \cap Groups = {}
  /\ {None, Gone} \cap (Users \cup Groups \cup Workspaces) = {}
  /\ None \notin WsRoles /\ None \notin Levels /\ {None, Gone} \cap PermRow = {}
  /\ Start.member \in [Workspaces -> [Users -> WsRoles \cup {None}]]
  /\ Start.groupWs \in [Groups -> Workspaces \cup {None}]
  /\ Start.roleWs \in [RoleIds -> Workspaces \cup {None}]
  /\ Start.perm \in [PermIds -> PermRow \cup {None}]
  /\ Start.registered \subseteq Names \X ActionNames
  /\ Start.roleAction \subseteq RoleIds \X Start.registered
  /\ Start.inGroup \subseteq Groups \X Users
  /\ \A x \in Start.inGroup : /\ Start.groupWs[x[1]] # None
                               /\ Start.member[Start.groupWs[x[1]]][x[2]] # None
  /\ Scenarios \subseteq [features: SUBSET {"registry", "services", "admin", "rbac", "members", "checks"},
                          requests: Nat]

VARIABLES member,     \* workspace_memberships
          groupWs,    \* groups.workspace_id
          inGroup,    \* group_memberships
          roleWs,     \* roles.workspace_id
          registered, \* service_actions: <<service_name, action>>
          roleAction, \* role_actions: <<role, service_name, action>>
          userRole, groupRole,
          perm,       \* resource_permissions
          share,      \* resource_shares: row, grantee -> permission
          ask,        \* requests that have checked and not yet inserted
          late,       \* history: users and groups granted something by a request
                      \* that had checked before others moved
          acted,      \* history: <<app, scope>> of the writes through a service key
          denied,     \* action_denied flags: <<user, workspace, service_name, action>>
          logged,     \* history: denials in the activity log, in this window
          twice,      \* history: denials logged twice in a window
          arrived, on

grants == <<member, groupWs, inGroup, roleWs, registered, roleAction, userRole, groupRole, perm, share>>
audit == <<denied, logged, twice>>
vars == <<registry, grants, ask, late, acted, audit, arrived, on>>

Denial == Users \X Workspaces \X Names \X ActionNames
Ask == [pc: {"idle", "register", "share", "user_role", "group_role", "group_member"},
        pm: PermIds \cup {None}, row: PermRow \cup {None}, who: Users \cup Groups \cup {None},
        level: Levels \cup {None}, role: RoleIds \cup {None}, group: Groups \cup {None},
        moved: BOOLEAN]
NoAsk == [pc |-> "idle", pm |-> None, row |-> None, who |-> None, level |-> None,
          role |-> None, group |-> None, moved |-> FALSE]

TypeOK ==
  /\ ScopesTypeOK
  /\ member \in [Workspaces -> [Users -> WsRoles \cup {None}]]
  /\ groupWs \in [Groups -> Workspaces \cup {None, Gone}]
  /\ inGroup \in SUBSET (Groups \X Users)
  /\ roleWs \in [RoleIds -> Workspaces \cup {None, Gone}]
  /\ registered \in SUBSET (Names \X ActionNames)
  /\ roleAction \in SUBSET (RoleIds \X registered)
  /\ userRole \in SUBSET (Users \X RoleIds)
  /\ groupRole \in SUBSET (Groups \X RoleIds)
  /\ perm \in [PermIds -> PermRow \cup {None, Gone}]
  /\ share \in [PermIds -> [Users \cup Groups -> Levels \cup {None}]]
  /\ ask \in [Callers -> Ask]
  /\ late \in SUBSET (Users \cup Groups)
  /\ acted \in SUBSET (Apps \X Names)
  /\ denied \in SUBSET Denial /\ logged \in SUBSET Denial /\ twice \in SUBSET Denial
  /\ arrived \in 0 .. on.requests /\ on \in Scenarios

Unshared == [g \in Users \cup Groups |-> None]

Init ==
  /\ ScopesInit
  /\ member = Start.member
  /\ groupWs = Start.groupWs
  /\ inGroup = Start.inGroup
  /\ roleWs = Start.roleWs
  /\ registered = Start.registered
  /\ roleAction = Start.roleAction
  /\ userRole = {} /\ groupRole = {}
  /\ perm = Start.perm
  /\ share = [x \in PermIds |-> Unshared]
  /\ ask = [c \in Callers |-> NoAsk]
  /\ late = {} /\ acted = {}
  /\ denied = {} /\ logged = {} /\ twice = {}
  /\ arrived = 0
  /\ on \in Scenarios

Member(w, u) == member[w][u] # None
IsGroup(g) == groupWs[g] \in Workspaces
IsRole(r) == roleWs[r] \in Workspaces
IsPerm(x) == perm[x] \notin {None, Gone}

-----------------------------------------------------------------------------
(* role_service: what the two grant paths give *)

_granted(u, w, s) ==
  LET reach == {r \in RoleIds : roleWs[r] = w /\ <<u, r>> \in userRole}
      grouped == {r \in RoleIds : roleWs[r] = w /\ \E g \in Groups : <<g, r>> \in groupRole /\ <<g, u>> \in inGroup} IN
  {x \in roleAction : x[1] \in reach \cup grouped /\ x[2][1] = s}

check_action(u, s, a, w) == \E x \in _granted(u, w, s) : x[2][2] = a

get_user_actions(u, s, w) == {x[2][2] : x \in _granted(u, w, s)}

-----------------------------------------------------------------------------
(* permission_service *)

get_resource_permission(s, res) == {x \in PermIds : IsPerm(x) /\ perm[x].svc = s /\ perm[x].res = res}

ViewOrEdit(level, action) == level # None /\ (action = "edit" => level = "edit")

GroupSharesViewOnly(x, groups, action) ==                     \* mutant: an edit share of a
  \E g \in groups : share[x][g] # None                        \* group is not asked for
GroupShares(x, groups, action) == \E g \in groups : ViewOrEdit(share[x][g], action)

check_permission(u, w, role, groups, s, res, action) ==
  \E x \in get_resource_permission(s, res) :
    /\ perm[x].ws = w
    /\ \/ perm[x].owner = u
       \/ role \in Privileged
       \/ /\ perm[x].vis = "workspace"
          /\ action = "view" \/ (action = "edit" /\ role = "editor")
       \/ ViewOrEdit(share[x][u], action)
       \/ GroupShares(x, groups, action)

(* The UNION of its four queries; full access names no rows. *)
lookup_accessible_resources(u, w, role, groups, s, action) ==
  LET base == {x \in PermIds : IsPerm(x) /\ perm[x].ws = w /\ perm[x].svc = s}
      owned == {x \in base : perm[x].owner = u}
      visible == {x \in base : perm[x].vis = "workspace" /\ (action = "view" \/ role = "editor")}
      shared == {x \in base : \E g \in {u} \cup groups :
                   share[x][g] \in (IF action = "view" THEN Levels ELSE {"edit"})} IN
  [full |-> role \in Privileged,
   ids |-> {perm[x].res : x \in IF role \in Privileged THEN base ELSE owned \cup visible \cup shared}]

-----------------------------------------------------------------------------
(* Two-step handlers: Checks records what was found, the insert comes later.
   Whatever moves rows marks the requests between the two. *)

Checks(c, q) ==
  /\ ask[c].pc = "idle" /\ arrived < on.requests
  /\ arrived' = arrived + 1
  /\ ask' = [ask EXCEPT ![c] = q]
  /\ UNCHANGED <<grants, late, audit, on>>

Inserted(c, granted) ==
  /\ ask' = [ask EXCEPT ![c] = NoAsk]
  /\ late' = IF ask[c].moved THEN late \cup granted ELSE late
  /\ UNCHANGED <<registry, acted, audit, arrived, on>>

Moves ==
  /\ arrived < on.requests
  /\ arrived' = arrived + 1
  /\ ask' = [c \in Callers |-> IF ask[c].pc = "idle" THEN NoAsk ELSE [ask[c] EXCEPT !.moved = TRUE]]
  /\ UNCHANGED <<late, audit, on>>
AdminMoves == Moves /\ UNCHANGED <<registry, acted>>

(* A request of a service: its key is resolved, and its scope must be s. *)
ByService(a, s) ==
  /\ require_service_key(a)
  /\ verify_service_scope(a, s)
  /\ acted' = acted \cup {<<a, s>>}
  /\ UNCHANGED <<service, realm, nameLock, task, minted, held>>

(* register_resource: the owner's membership, then an upsert that keeps an
   existing row. *)
register_resource(c, a, row) ==
  /\ ByService(a, row.svc)
  /\ Member(row.ws, row.owner)
  /\ Checks(c, [NoAsk EXCEPT !.pc = "register", !.row = row])

InsertPerm(c) ==
  LET row == ask[c].row
      free == {x \in PermIds : perm[x] = None} IN
  /\ ask[c].pc = "register"
  /\ free # {}
  /\ perm' = IF get_resource_permission(row.svc, row.res) # {} THEN perm
             ELSE [perm EXCEPT ![CHOOSE x \in free : TRUE] = row]
  /\ UNCHANGED <<member, groupWs, inGroup, roleWs, registered, roleAction, userRole, groupRole, share>>
  /\ Inserted(c, {})

(* share_resource: the grantee belongs to the workspace of the resource, then
   an upsert of its share. *)
share_resource(c, x, g, level) ==
  /\ IsPerm(x)
  /\ IF g \in Users THEN Member(perm[x].ws, g) ELSE groupWs[g] = perm[x].ws
  /\ Checks(c, [NoAsk EXCEPT !.pc = "share", !.pm = x, !.who = g, !.level = level])

InsertShare(c) ==
  LET q == ask[c] IN
  /\ q.pc = "share"
  /\ share' = IF IsPerm(q.pm) THEN [share EXCEPT ![q.pm][q.who] = q.level] ELSE share
  /\ UNCHANGED <<member, groupWs, inGroup, roleWs, registered, roleAction, userRole, groupRole, perm>>
  /\ Inserted(c, {q.who})

(* POST /permissions/{x}/share: with the claims of the user's token. *)
ShareByUser(c, a, x, u, claimed, g, level) ==
  /\ IsPerm(x)
  /\ ByService(a, perm[x].svc)
  /\ perm[x].owner = u \/ claimed \in Privileged
  /\ share_resource(c, x, g, level)

share_permission(c, x, g, level) == share_resource(c, x, g, level) /\ UNCHANGED <<registry, acted>>

RowChange(ps, ss) ==
  /\ perm' = ps /\ share' = ss
  /\ UNCHANGED <<member, groupWs, inGroup, roleWs, registered, roleAction, userRole, groupRole>>

update_visibility(x, vis) == IsPerm(x) /\ RowChange([perm EXCEPT ![x].vis = vis], share)
revoke_share(x, g) == IsPerm(x) /\ share[x][g] # None /\ RowChange(perm, [share EXCEPT ![x][g] = None])

(* The shares of a deleted row cascade. *)
DeleteRows(xs) ==
  RowChange([x \in PermIds |-> IF x \in xs THEN Gone ELSE perm[x]],
            [x \in PermIds |-> IF x \in xs THEN Unshared ELSE share[x]])
deregister_resource(x) == IsPerm(x) /\ DeleteRows({x})
purge_service_permissions(s) == DeleteRows({x \in PermIds : IsPerm(x) /\ perm[x].svc = s})

(* The routes of services look the row up and check its scope. *)
UpdateVisibility(a, x, vis) == ByService(a, perm[x].svc) /\ update_visibility(x, vis)
RevokeShare(a, x, g) == ByService(a, perm[x].svc) /\ revoke_share(x, g)
Deregister(a, x) == ByService(a, perm[x].svc) /\ deregister_resource(x)

(* DELETE /admin/service-apps/{a}: the rows under the app's own name go with
   it, those under its realm's slug stay; its actions stay too. *)
DeleteServiceApp(p, a) == delete_service_app(p, a) /\ purge_service_permissions(service[a].name)

-----------------------------------------------------------------------------
(* role_service: roles and actions *)

RbacChange(acts, ras, urs, grs) ==
  /\ registered' = acts /\ roleAction' = ras /\ userRole' = urs /\ groupRole' = grs
  /\ UNCHANGED <<member, groupWs, inGroup, perm, share>>

(* An upsert: registering again changes no row but its description. *)
register_actions(a, s, names) ==
  /\ ByService(a, s)
  /\ RbacChange(registered \cup {<<s, n>> : n \in names}, roleAction, userRole, groupRole)
  /\ UNCHANGED roleWs

delete_service_action(act) ==
  /\ act \in registered
  /\ RbacChange(registered \ {act}, {x \in roleAction : x[2] # act}, userRole, groupRole)
  /\ UNCHANGED roleWs

create_role(r, w) ==
  /\ roleWs[r] = None
  /\ roleWs' = [roleWs EXCEPT ![r] = w]
  /\ RbacChange(registered, roleAction, userRole, groupRole)

delete_role(r) ==
  /\ IsRole(r)
  /\ roleWs' = [roleWs EXCEPT ![r] = Gone]
  /\ RbacChange(registered, {x \in roleAction : x[1] # r}, {x \in userRole : x[2] # r},
                {x \in groupRole : x[2] # r})

(* Any action of any service, and all of them or none. *)
add_role_actions(r, acts) ==
  /\ IsRole(r) /\ acts \subseteq registered
  /\ \A act \in acts : <<r, act>> \notin roleAction
  /\ RbacChange(registered, roleAction \cup ({r} \X acts), userRole, groupRole)
  /\ UNCHANGED roleWs

remove_role_action(r, act) ==
  /\ <<r, act>> \in roleAction
  /\ RbacChange(registered, roleAction \ {<<r, act>>}, userRole, groupRole)
  /\ UNCHANGED roleWs

AssignAllowed(r, u) == IsRole(r) /\ Member(roleWs[r], u)

assign_user_role(c, r, u) ==
  /\ AssignAllowed(r, u)
  /\ Checks(c, [NoAsk EXCEPT !.pc = "user_role", !.role = r, !.who = u])
  /\ UNCHANGED <<registry, acted>>

InsertUserRole(c) ==
  LET q == ask[c] IN
  /\ q.pc = "user_role"
  /\ RbacChange(registered, roleAction,
                IF IsRole(q.role) THEN userRole \cup {<<q.who, q.role>>} ELSE userRole, groupRole)
  /\ UNCHANGED roleWs
  /\ Inserted(c, {q.who})

remove_user_role(u, r) ==
  /\ <<u, r>> \in userRole
  /\ RbacChange(registered, roleAction, userRole \ {<<u, r>>}, groupRole)
  /\ UNCHANGED roleWs

assign_group_role(c, g, r) ==
  /\ IsRole(r) /\ IsGroup(g) /\ groupWs[g] = roleWs[r]
  /\ Checks(c, [NoAsk EXCEPT !.pc = "group_role", !.role = r, !.group = g])
  /\ UNCHANGED <<registry, acted>>

InsertGroupRole(c) ==
  LET q == ask[c] IN
  /\ q.pc = "group_role"
  /\ RbacChange(registered, roleAction, userRole,
                IF IsRole(q.role) /\ IsGroup(q.group) THEN groupRole \cup {<<q.group, q.role>>}
                ELSE groupRole)
  /\ UNCHANGED roleWs
  /\ Inserted(c, {q.group})

remove_group_role(g, r) ==
  /\ <<g, r>> \in groupRole
  /\ RbacChange(registered, roleAction, userRole, groupRole \ {<<g, r>>})
  /\ UNCHANGED roleWs

-----------------------------------------------------------------------------
(* group_service, and the membership its groups rest on *)

GroupChange(ms, gws, ings, urs, grs, ss) ==
  /\ member' = ms /\ groupWs' = gws /\ inGroup' = ings /\ userRole' = urs /\ groupRole' = grs /\ share' = ss
  /\ UNCHANGED <<roleWs, registered, roleAction, perm>>

create_group(g, w) ==
  /\ groupWs[g] = None
  /\ GroupChange(member, [groupWs EXCEPT ![g] = w], inGroup, userRole, groupRole, share)

(* Shares have no foreign key to groups: they are purged by name. *)
SharesKept(g) == share                                        \* mutant: they are not
SharesWithout(g) == [x \in PermIds |-> [share[x] EXCEPT ![g] = None]]

delete_group(g) ==
  /\ IsGroup(g)
  /\ GroupChange(member, [groupWs EXCEPT ![g] = Gone], {x \in inGroup : x[1] # g}, userRole,
                 {x \in groupRole : x[1] # g}, SharesWithout(g))

add_group_member(c, g, u) ==
  /\ IsGroup(g) /\ Member(groupWs[g], u)
  /\ Checks(c, [NoAsk EXCEPT !.pc = "group_member", !.group = g, !.who = u])
  /\ UNCHANGED <<registry, acted>>

InsertGroupMember(c) ==
  LET q == ask[c] IN
  /\ q.pc = "group_member"
  /\ GroupChange(member, groupWs, IF IsGroup(q.group) THEN inGroup \cup {<<q.group, q.who>>} ELSE inGroup,
                 userRole, groupRole, share)
  /\ Inserted(c, {q.who})

remove_group_member(g, u) ==
  /\ <<g, u>> \in inGroup
  /\ GroupChange(member, groupWs, inGroup \ {<<g, u>>}, userRole, groupRole, share)

(* remove_member purges what the member had in the workspace; what races it
   statement by statement is in WorkspaceMembership. *)
remove_member_of(w, u) ==
  /\ Member(w, u)
  /\ GroupChange([member EXCEPT ![w][u] = None], groupWs,
                 {x \in inGroup : ~(x[2] = u /\ groupWs[x[1]] = w)},
                 {x \in userRole : ~(x[1] = u /\ roleWs[x[2]] = w)}, groupRole,
                 [x \in PermIds |-> IF IsPerm(x) /\ perm[x].ws = w THEN [share[x] EXCEPT ![u] = None]
                                    ELSE share[x]])

JoinWorkspace(w, u, as) ==
  /\ ~Member(w, u)
  /\ GroupChange([member EXCEPT ![w][u] = as], groupWs, inGroup, userRole, groupRole, share)

-----------------------------------------------------------------------------
(* POST /roles/check-action: a denial is logged once per window, which SET NX
   decides; with Redis down it is logged every time. *)
_first_denial_in_window(d) == d \notin denied

record_action_check(d) ==
  IF _first_denial_in_window(d)
    THEN /\ denied' = denied \cup {d}
         /\ logged' = logged \cup {d}
         /\ twice' = IF d \in logged THEN twice \cup {d} ELSE twice
    ELSE UNCHANGED audit

CheckAction(a, u, w, s, n) ==
  /\ require_service_key(a) /\ verify_service_scope(a, s)
  /\ arrived < on.requests /\ arrived' = arrived + 1
  /\ IF check_action(u, s, n, w) THEN UNCHANGED audit ELSE record_action_check(<<u, w, s, n>>)
  /\ UNCHANGED <<service, realm, nameLock, task, minted, held, grants, ask, late, acted, on>>

(* _DENIED_WINDOW_SECONDS *)
WindowEnds ==
  /\ denied # {}
  /\ denied' = {} /\ logged' = {}
  /\ UNCHANGED <<registry, grants, ask, late, acted, twice, arrived, on>>

AskDies(c) ==
  /\ ask[c].pc # "idle"
  /\ ask' = [ask EXCEPT ![c] = NoAsk]
  /\ UNCHANGED <<registry, grants, late, acted, audit, arrived, on>>

-----------------------------------------------------------------------------
(* The routes.  Those of services and admins differ in who may call them; the
   service function is the same.  API routes for groups go by the claims of
   the caller's token, which name one workspace. *)
ApiRole(claims, w) == claims.ws = w /\ claims.role \in Privileged

AdminUpdateVisibility(x, vis) == update_visibility(x, vis) /\ AdminMoves
AdminRevokeShare(x, g) == revoke_share(x, g) /\ AdminMoves
AdminPurge(s) == purge_service_permissions(s) /\ AdminMoves

AdminDeleteAction(act) == delete_service_action(act) /\ AdminMoves
AdminCreateRole(r, w) == create_role(r, w) /\ AdminMoves
AdminDeleteRole(r) == delete_role(r) /\ AdminMoves
AdminAddRoleActions(r, acts) == add_role_actions(r, acts) /\ AdminMoves
AdminRemoveRoleAction(r, act) == remove_role_action(r, act) /\ AdminMoves
AdminAssignRole(c, r, u) == assign_user_role(c, r, u)
AdminRemoveRole(u, r) == remove_user_role(u, r) /\ AdminMoves
AdminAssignGroup(c, g, r) == assign_group_role(c, g, r)
AdminUnassignGroup(g, r) == remove_group_role(g, r) /\ AdminMoves

AdminCreateGroup(g, w) == create_group(g, w) /\ AdminMoves
AdminDeleteGroup(g) == delete_group(g) /\ AdminMoves
AdminAddToGroup(c, g, u) == add_group_member(c, g, u)
AdminRemoveFromGroup(g, u) == remove_group_member(g, u) /\ AdminMoves

ApiCreateGroup(claims, g, w) == ApiRole(claims, w) /\ create_group(g, w) /\ AdminMoves
ApiDeleteGroup(claims, g) == ApiRole(claims, groupWs[g]) /\ delete_group(g) /\ AdminMoves
ApiAddToGroup(claims, c, g, u) == ApiRole(claims, groupWs[g]) /\ add_group_member(c, g, u)
ApiRemoveFromGroup(claims, g, u) ==
  ApiRole(claims, groupWs[g]) /\ remove_group_member(g, u) /\ AdminMoves

-----------------------------------------------------------------------------
Inserts(c) ==
  \/ InsertPerm(c) \/ InsertShare(c) \/ InsertUserRole(c) \/ InsertGroupRole(c)
  \/ InsertGroupMember(c) \/ AskDies(c)

ServiceCalls ==
  \E a \in Apps :
    \/ \E c \in Callers, row \in PermRow : register_resource(c, a, row)
    \/ \E x \in PermIds, g \in Users \cup Groups :
         \/ \E c \in Callers, u \in Users, claimed \in {"owner", "viewer"}, level \in Levels :
              ShareByUser(c, a, x, u, claimed, g, level)
         \/ IsPerm(x) /\ RevokeShare(a, x, g) /\ Moves
    \/ \E x \in PermIds : /\ IsPerm(x) /\ Moves
                          /\ (\E vis \in {"private", "workspace"} : UpdateVisibility(a, x, vis)) \/ Deregister(a, x)
    \/ \E s \in Names, names \in SUBSET ActionNames : register_actions(a, s, names) /\ Moves

AdminCalls ==
  \/ \E x \in PermIds : \/ \E vis \in {"private", "workspace"} : AdminUpdateVisibility(x, vis)
                        \/ \E g \in Users \cup Groups :
                             \/ AdminRevokeShare(x, g)
                             \/ \E c \in Callers, level \in Levels : share_permission(c, x, g, level)
  \/ \E s \in Names : AdminPurge(s)
  \/ \E p \in Procs, a \in Apps : DeleteServiceApp(p, a) /\ Moves /\ UNCHANGED acted

Rbac ==
  \/ \E act \in registered : AdminDeleteAction(act)
  \/ \E r \in RoleIds :
       \/ \E w \in Workspaces : AdminCreateRole(r, w)
       \/ AdminDeleteRole(r)
       \/ \E acts \in SUBSET registered : AdminAddRoleActions(r, acts)
       \/ \E act \in registered : AdminRemoveRoleAction(r, act)
       \/ \E u \in Users : AdminRemoveRole(u, r) \/ \E c \in Callers : AdminAssignRole(c, r, u)
       \/ \E g \in Groups : AdminUnassignGroup(g, r) \/ \E c \in Callers : AdminAssignGroup(c, g, r)

Claims == [ws: Workspaces, role: {"admin", "viewer"}]
Membership ==
  \/ \E g \in Groups :
       \/ \E w \in Workspaces : AdminCreateGroup(g, w) \/ \E k \in Claims : ApiCreateGroup(k, g, w)
       \/ AdminDeleteGroup(g) \/ \E k \in Claims : ApiDeleteGroup(k, g)
       \/ \E u \in Users :
            \/ AdminRemoveFromGroup(g, u) \/ \E k \in Claims : ApiRemoveFromGroup(k, g, u)
            \/ \E c \in Callers : \/ AdminAddToGroup(c, g, u)
                                  \/ \E k \in Claims : ApiAddToGroup(k, c, g, u)
  \/ /\ AdminMoves
     /\ \E w \in Workspaces, u \in Users : remove_member_of(w, u) \/ JoinWorkspace(w, u, "viewer")

Next ==
  \/ "registry" \in on.features /\ RegistryCalls
       /\ arrived < on.requests /\ arrived' = arrived + 1
       /\ UNCHANGED <<grants, ask, late, acted, audit, on>>
  \/ RegistrySteps /\ UNCHANGED <<grants, ask, late, acted, audit, arrived, on>>
  \/ "services" \in on.features /\ ServiceCalls
  \/ "admin" \in on.features /\ AdminCalls
  \/ "rbac" \in on.features /\ Rbac
  \/ "members" \in on.features /\ Membership
  \/ "checks" \in on.features
       /\ (\E a \in Apps, u \in Users, w \in Workspaces, s \in Names, n \in ActionNames : CheckAction(a, u, w, s, n))
  \/ WindowEnds
  \/ \E c \in Callers : Inserts(c)

Spec == Init /\ [][Next]_vars

-----------------------------------------------------------------------------
(* PROPERTIES *)

(* The two ways to ask about a resource agree, whatever claims they are asked
   with: check_permission allows exactly what lookup_accessible_resources
   lists, and what it lists to a privileged role is all there is. *)
CheckAgreesWithLookup ==
  \A x \in PermIds : IsPerm(x) =>
    LET s == perm[x].svc
        res == perm[x].res IN
    \A u \in Users, w \in Workspaces, role \in WsRoles, groups \in SUBSET Groups, action \in Levels :
      check_permission(u, w, role, groups, s, res, action)
        <=> res \in lookup_accessible_resources(u, w, role, groups, s, action).ids

(* A user who is not in a workspace has no action there, by no path, unless a
   grant was inserted behind a change.  _granted_stmt joins no membership and
   rests on this. *)
ActionsNeedMembership ==
  \A u \in Users, w \in Workspaces, s \in Names :
    Member(w, u) \/ u \in late \/ get_user_actions(u, s, w) = {}

(* No share outlives its grantee: it names a member, or a group, of the
   resource's workspace, unless it was inserted behind a change.
   ("purge the group's shares explicitly or they orphan permanently") *)
SharesReachSomeone ==
  \A x \in PermIds, g \in Users \cup Groups :
    IsPerm(x) /\ share[x][g] # None /\ g \notin late =>
      IF g \in Users THEN Member(perm[x].ws, g) ELSE groupWs[g] = perm[x].ws

(* No grant of either kind outlives the membership it was given to. *)
NothingOutlivesMembership == ActionsNeedMembership /\ SharesReachSomeone

(* A service key only ever writes under, or mints for, a scope that its app
   held in the tables, however stale the cached slug it resolved. *)
ScopesWereHeld == acted \cup minted \subseteq held

(* No trust domain reaches into another: neither by a shared name nor by a
   scope that a service never had. *)
TrustDomainsApart == ScopeNamesDisjoint /\ ScopesWereHeld

(* One denied action of one user is logged at most once in a window. *)
OneDenialPerWindow == twice = {}
=============================================================================
