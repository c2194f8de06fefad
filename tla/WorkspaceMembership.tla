------------------------ MODULE WorkspaceMembership ------------------------
(***************************************************************************)
(* One workspace: who is in it with which role, the workspace-scoped       *)
(* grants that hang on a membership without a foreign key to it, and the   *)
(* tokens whose claims copy the role.  Requests are Postgres transactions  *)
(* at READ COMMITTED: a SELECT ... FOR UPDATE waits for a locked row and   *)
(* reads it again once it has the lock, and a plain SELECT sees what is    *)
(* committed.  Each statement is one action.                               *)
(***************************************************************************)
EXTENDS Naturals, FiniteSets

CONSTANTS Users,
          Roles,      \* editor and viewer are both "member" here
          Kinds,      \* kinds of grants: group membership, role, share
          Procs,      \* requests in flight together
          None,
          MaxCrashes, \* bound: requests that may die between two statements
          Workload    \* bound: the kinds of requests that arrive

ASSUME MembershipAssumption ==
  /\ Users # {} /\ IsFiniteSet(Users)
  /\ {"owner", "member"} \subseteq Roles /\ Roles \subseteq {"owner", "admin", "member"}
  /\ Kinds \subseteq {"group", "role", "share"}
  /\ None \notin Users \cup Procs \cup Kinds \cup Roles
  /\ MaxCrashes \in Nat
  /\ Workload \subseteq {"members", "grants", "tokens"}

Grant == [user: Users, kind: Kinds]
Token == [user: Users, role: Roles]

VARIABLES role,       \* workspace_memberships, as committed; None: no row
          lock,       \* which transaction holds the row's FOR UPDATE lock
          grants,     \* group_memberships, user_roles, resource_shares
          tokens,     \* live tokens: the user and the role they claim
          req,
          late,       \* history: grants inserted behind a removal's back
          staleClaim, \* history: tokens issued across a role change, or that
                      \* a request died before revoking
          crashes

vars == <<role, lock, grants, tokens, req, late, staleClaim, crashes>>

Purging == {"purge_group", "purge_role", "purge_share"}
Request == [pc: {"idle", "lock", "count", "commit", "revoke", "assign", "issue"} \cup Purging,
            op: {"change", "remove", "none"}, user: Users \cup {None},
            new: Roles \cup {None}, actor: {"owner", "other"}, todo: SUBSET Users,
            counted: SUBSET Users, kind: Kinds \cup {None}, purged: SUBSET {"group", "role", "share"},
            doomed: SUBSET Grant, behind: BOOLEAN]

Idle == [pc |-> "idle", op |-> "none", user |-> None, new |-> None, actor |-> "other",
         todo |-> {}, counted |-> {}, kind |-> None, purged |-> {}, doomed |-> {},
         behind |-> FALSE]

TypeOK ==
  /\ role \in [Users -> Roles \cup {None}]
  /\ lock \in [Users -> Procs \cup {None}]
  /\ grants \in SUBSET Grant
  /\ tokens \in SUBSET Token
  /\ req \in [Procs -> Request]
  /\ late \in SUBSET Grant
  /\ staleClaim \in SUBSET Token
  /\ crashes \in 0 .. MaxCrashes

(* create_workspace: the creator is the owner. *)
Init ==
  /\ \E creator \in Users : role = [u \in Users |-> IF u = creator THEN "owner" ELSE None]
  /\ lock = [u \in Users |-> None]
  /\ grants = {}
  /\ tokens = {}
  /\ req = [r \in Procs |-> Idle]
  /\ late = {}
  /\ staleClaim = {}
  /\ crashes = 0

Owners == {u \in Users : role[u] = "owner"}
Member(u) == role[u] # None

Become(r, q) == req' = [req EXCEPT ![r] = q]
Unlocked(r) == [u \in Users |-> IF lock[u] = r THEN None ELSE lock[u]]

(* The transaction ends without effect: a ValueError, a rollback. *)

(* Mutant: the session is not closed, so its locks stay. *)
RefuseHoldingLocks(r) == Become(r, Idle) /\ UNCHANGED lock

Refuse(r) == Become(r, Idle) /\ lock' = Unlocked(r)

-----------------------------------------------------------------------------
(* invite_member, add_user_to_workspace, redeem: what counts is the INSERT,
   whose unique constraint refuses a second membership. *)
Invite(u, as) ==
  /\ ~Member(u)
  /\ role' = [role EXCEPT ![u] = as]
  /\ UNCHANGED <<lock, grants, tokens, req, late, staleClaim, crashes>>

-----------------------------------------------------------------------------
(* update_member_role and remove_member.  The actor's role comes from a token
   or a session and may be out of date: either value is possible. *)

(* Mutant: the two roles are passed in the wrong order. *)
ChangeRoleSwapped(r, u, new, actor) ==
  /\ req[r].pc = "idle"
  /\ Become(r, [Idle EXCEPT !.pc = "lock", !.op = "change", !.user = u, !.new = actor,
                            !.actor = new])
  /\ UNCHANGED <<role, lock, grants, tokens, late, staleClaim, crashes>>

ChangeRole(r, u, new, actor) ==
  /\ req[r].pc = "idle"
  /\ Become(r, [Idle EXCEPT !.pc = "lock", !.op = "change", !.user = u, !.new = new,
                            !.actor = actor])
  /\ UNCHANGED <<role, lock, grants, tokens, late, staleClaim, crashes>>

RemoveMember(r, u, actor) ==
  /\ req[r].pc = "idle"
  /\ Become(r, [Idle EXCEPT !.pc = "lock", !.op = "remove", !.user = u, !.actor = actor])
  /\ UNCHANGED <<role, lock, grants, tokens, late, staleClaim, crashes>>

(* What the guards say of request q on a target whose row reads `held'. *)
NotAllowed(q, held) ==
  IF q.op = "change" THEN q.new = "owner" /\ q.actor # "owner"
                     ELSE held = "owner" /\ q.actor # "owner"
GivesUpOwner(q, held) == held = "owner" /\ q.new # "owner"
AfterGuards(q) == IF q.op = "change" THEN "commit" ELSE "purge_group"

(* SELECT the target FOR UPDATE. *)
LockTarget(r) ==
  LET q == req[r]
      u == q.user IN
  /\ q.pc = "lock"
  /\ lock[u] = None
  /\ IF ~Member(u) \/ NotAllowed(q, role[u]) THEN Refuse(r)
     ELSE /\ lock' = [lock EXCEPT ![u] = r]
          /\ Become(r, IF GivesUpOwner(q, role[u])
                         THEN [q EXCEPT !.pc = "count", !.todo = Owners]
                         ELSE [q EXCEPT !.pc = AfterGuards(q)])
  /\ UNCHANGED <<role, grants, tokens, late, staleClaim, crashes>>

(* _count_owners: the rows that were owners when the statement began are
   locked one after the other, and read again once locked. *)

(* Mutant: no FOR UPDATE. *)
CountUnlocked(r) ==
  /\ req[r].pc = "count"
  /\ \E u \in req[r].todo :
       Become(r, [req[r] EXCEPT !.todo = @ \ {u}, !.counted = @ \cup {u}])
  /\ UNCHANGED <<role, lock, grants, tokens, late, staleClaim, crashes>>

CountOwner(r) ==
  /\ req[r].pc = "count"
  /\ \E u \in req[r].todo :
       /\ lock[u] \in {None, r}
       /\ lock' = IF Member(u) THEN [lock EXCEPT ![u] = r] ELSE lock
       /\ Become(r, [req[r] EXCEPT !.todo = @ \ {u},
                                   !.counted = IF role[u] = "owner" THEN @ \cup {u} ELSE @])
  /\ UNCHANGED <<role, grants, tokens, late, staleClaim, crashes>>

CountDone(r) ==
  LET q == req[r] IN
  /\ q.pc = "count"
  /\ q.todo = {}
  /\ IF Cardinality(q.counted) <= 1 \/ q.actor # "owner" THEN Refuse(r)
     ELSE /\ Become(r, [q EXCEPT !.pc = AfterGuards(q)])
          /\ UNCHANGED lock
  /\ UNCHANGED <<role, grants, tokens, late, staleClaim, crashes>>

(* The three DELETEs of remove_member.  Each takes the rows it sees; the
   deletion shows when the transaction commits. *)
PurgedBy == [purge_group |-> "group", purge_role |-> "role", purge_share |-> "share"]
AfterPurge == [purge_group |-> "purge_role", purge_role |-> "purge_share", purge_share |-> "commit"]

(* Mutant: rows of only one kind are taken. *)
PurgeRolesOnly(r) ==
  LET q == req[r] IN
  /\ q.pc \in Purging
  /\ Become(r, [q EXCEPT !.pc = AfterPurge[q.pc], !.purged = @ \cup {PurgedBy[q.pc]},
                         !.doomed = @ \cup {g \in grants : g.user = q.user /\ g.kind = "role"}])
  /\ UNCHANGED <<role, lock, grants, tokens, late, staleClaim, crashes>>

Purge(r) ==
  LET q == req[r] IN
  /\ q.pc \in Purging
  /\ Become(r, [q EXCEPT !.pc = AfterPurge[q.pc], !.purged = @ \cup {PurgedBy[q.pc]},
                         !.doomed = @ \cup {g \in grants : g.user = q.user /\ g.kind = PurgedBy[q.pc]}])
  /\ UNCHANGED <<role, lock, grants, tokens, late, staleClaim, crashes>>

(* The commit of a change of u's role or of u's removal; a request that read
   u's membership before it now falls behind. *)
Commit(r) ==
  LET q == req[r]
      u == q.user
      after == IF role[u] = q.new THEN Idle ELSE [Idle EXCEPT !.pc = "revoke", !.user = u] IN
  /\ q.pc = "commit"
  /\ role' = [role EXCEPT ![u] = q.new]
  /\ lock' = Unlocked(r)
  /\ grants' = grants \ q.doomed
  /\ late' = late \ q.doomed
  /\ req' = [s \in Procs |-> IF s = r THEN after
                             ELSE [req[s] EXCEPT !.behind = @ \/ req[s].user = u]]
  /\ UNCHANGED <<tokens, staleClaim, crashes>>

(* Mutant: a role change or a removal leaves the tokens alone. *)
RevokeNothing(r) ==
  /\ req[r].pc = "revoke"
  /\ Become(r, Idle)
  /\ UNCHANGED <<role, lock, grants, tokens, late, staleClaim, crashes>>

(* revoke_all_user_tokens, whose own interleavings are TokenSessions'. *)
Revoke(r) ==
  /\ req[r].pc = "revoke"
  /\ tokens' = {t \in tokens : t.user # req[r].user}
  /\ staleClaim' = staleClaim \cap tokens'
  /\ Become(r, Idle)
  /\ UNCHANGED <<role, lock, grants, late, crashes>>

-----------------------------------------------------------------------------
(* group_service.add_member, assign_user_role, share_resource: the membership
   is read without a lock, then the row is inserted and committed. *)

Assign(r, u, k) ==
  /\ req[r].pc = "idle"
  /\ Member(u)
  /\ Become(r, [Idle EXCEPT !.pc = "assign", !.user = u, !.kind = k])
  /\ UNCHANGED <<role, lock, grants, tokens, late, staleClaim, crashes>>

BehindRemoval(r, g) ==
  req[r].behind \/ \E s \in Procs : req[s].user = g.user /\ g.kind \in req[s].purged

(* An INSERT waits for a transaction that is deleting the same key. *)
BeingDeleted(g) == \E s \in Procs : g \in req[s].doomed

AssignInsert(r) ==
  LET g == [user |-> req[r].user, kind |-> req[r].kind] IN
  /\ req[r].pc = "assign"
  /\ ~BeingDeleted(g)
  /\ grants' = grants \cup {g}
  /\ late' = IF g \notin grants /\ BehindRemoval(r, g) THEN late \cup {g} ELSE late
  /\ Become(r, Idle)
  /\ UNCHANGED <<role, lock, tokens, staleClaim, crashes>>

(* remove_user_role, revoke_share; a removal from a group also revokes. *)
Unassign(r, g) ==
  /\ req[r].pc = "idle"
  /\ ~BeingDeleted(g)
  /\ g \in grants
  /\ grants' = grants \ {g}
  /\ late' = late \ {g}
  /\ Become(r, IF g.kind = "group" THEN [Idle EXCEPT !.pc = "revoke", !.user = g.user] ELSE Idle)
  /\ UNCHANGED <<role, lock, tokens, staleClaim, crashes>>

-----------------------------------------------------------------------------
(* issue_tokens and rotate_refresh_token: the role is read, copied into the
   claims, and the tokens are stored an await later. *)

Issue(r, u) ==
  /\ req[r].pc = "idle"
  /\ Member(u)
  /\ Become(r, [Idle EXCEPT !.pc = "issue", !.user = u, !.new = role[u]])
  /\ UNCHANGED <<role, lock, grants, tokens, late, staleClaim, crashes>>

IssueStore(r) ==
  LET t == [user |-> req[r].user, role |-> req[r].new] IN
  /\ req[r].pc = "issue"
  /\ tokens' = tokens \cup {t}
  /\ staleClaim' = IF req[r].behind THEN staleClaim \cup {t} ELSE staleClaim
  /\ Become(r, Idle)
  /\ UNCHANGED <<role, lock, grants, late, crashes>>

TokenExpires(t) ==
  /\ t \in tokens
  /\ tokens' = tokens \ {t}
  /\ staleClaim' = staleClaim \ {t}
  /\ UNCHANGED <<role, lock, grants, req, late, crashes>>

-----------------------------------------------------------------------------
(* Postgres aborts a transaction that waits for itself: D is a set of waiting
   requests that only each other's commits could release. *)
Blockers(r) ==
  IF req[r].pc = "lock" THEN {lock[req[r].user]} \ {None}
  ELSE IF req[r].pc = "count" /\ \A u \in req[r].todo : lock[u] \notin {None, r}
    THEN {lock[u] : u \in req[r].todo}
    ELSE {}

DeadlockVictim(r) ==
  /\ \E D \in SUBSET Procs :
       r \in D /\ \A s \in D : Blockers(s) # {} /\ Blockers(s) \subseteq D
  /\ Refuse(r)
  /\ UNCHANGED <<role, grants, tokens, late, staleClaim, crashes>>

(* The process or its connection dies: an open transaction rolls back; after
   the commit, the revocation is lost. *)
Crash(r) ==
  /\ crashes < MaxCrashes
  /\ req[r].pc # "idle"
  /\ crashes' = crashes + 1
  /\ Refuse(r)
  /\ staleClaim' = IF req[r].pc = "revoke"
                     THEN staleClaim \cup {t \in tokens : t.user = req[r].user}
                     ELSE staleClaim
  /\ UNCHANGED <<role, grants, tokens, late>>

RequestStep(r) ==
  \/ LockTarget(r) \/ CountOwner(r) \/ CountDone(r) \/ Purge(r) \/ Commit(r) \/ Revoke(r)
  \/ AssignInsert(r) \/ IssueStore(r)

Arrival(r) ==
  \/ /\ "members" \in Workload
     /\ \E u \in Users, actor \in {"owner", "other"} :
          RemoveMember(r, u, actor) \/ \E new \in Roles : ChangeRole(r, u, new, actor)
  \/ /\ "grants" \in Workload
     /\ \/ \E u \in Users, k \in Kinds : Assign(r, u, k)
        \/ \E g \in grants : Unassign(r, g)
  \/ /\ "tokens" \in Workload
     /\ \E u \in Users : Issue(r, u)

Next ==
  \/ \E r \in Procs : RequestStep(r) \/ Arrival(r) \/ DeadlockVictim(r) \/ Crash(r)
  \/ \E u \in Users, as \in Roles : Invite(u, as)
  \/ \E t \in tokens : TokenExpires(t)

Spec == Init /\ [][Next]_vars

(* Requests go on, Postgres queues those that wait for a row, and its deadlock
   detector breaks every cycle. *)
FairSpec ==
  /\ Spec
  /\ \A r \in Procs : /\ WF_vars(RequestStep(r)) /\ WF_vars(DeadlockVictim(r))
                      /\ SF_vars(LockTarget(r)) /\ SF_vars(CountOwner(r))

-----------------------------------------------------------------------------
(* PROPERTIES *)

(* However role changes, removals and leaves overlap, the workspace keeps an
   owner: _count_owners' row locks serialise those that give one up. *)
HasOwner == Owners # {}

(* A grant outlives no membership: remove_member purges all three tables in
   the transaction that deletes the row.  The one exception is a grant that
   was inserted behind a removal, its membership check older than the purge. *)
GrantsNeedMembership == \A g \in grants \ late : Member(g.user)

(* Unless a revocation is due, every live token claims its bearer's current
   role; the exceptions are a token whose issue straddled a change, and a
   request that died between its commit and its revocation. *)
RevocationDue(u) == \E r \in Procs : req[r].pc = "revoke" /\ req[r].user = u
ClaimsAreCurrent ==
  \A t \in tokens \ staleClaim : RevocationDue(t.user) \/ t.role = role[t.user]

(* No request waits for good on the row locks of the others. *)
EveryRequestEnds == \A r \in Procs : req[r].pc # "idle" ~> req[r].pc = "idle"
=============================================================================
