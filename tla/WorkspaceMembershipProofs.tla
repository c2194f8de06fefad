--------------------- MODULE WorkspaceMembershipProofs ---------------------
(***************************************************************************)
(* Theorems of WorkspaceMembership, for every set of users and requests,   *)
(* any number of crashes and every workload.                               *)
(***************************************************************************)
EXTENDS WorkspaceMembership, FiniteSetTheorems, TLAPS

(* What a request's locals hold at each program counter. *)
LocalsOK(q) ==
  /\ q.pc # "idle" => q.user \in Users
  /\ q.pc = "lock" => q.counted = {}
  /\ q.pc = "assign" => q.kind \in Kinds
  /\ q.pc = "issue" => q.new \in Roles

ReqInv == \A r \in Procs : LocalsOK(req[r])

(* What a request that is past its guards has secured by its row locks: its
   target's row, the owners it has counted, and, if it is about to take the
   last step away from an owner, another owner. *)
Leaving == {"commit"} \cup Purging
Holding == {"count"} \cup Leaving
Secured(r) ==
  LET q == req[r] IN
  /\ q.pc \in Holding => lock[q.user] = r /\ Member(q.user)
  /\ q.pc = "count" => \A u \in q.counted : lock[u] = r /\ role[u] = "owner"
  /\ q.pc \in Leaving /\ GivesUpOwner(q, role[q.user]) =>
       \E v \in Users : v # q.user /\ lock[v] = r /\ role[v] = "owner"

LockInv == \A r \in Procs : Secured(r)

IInv == TypeOK /\ ReqInv /\ LockInv /\ HasOwner

(* The part of TypeOK that is about neither roles nor requests. *)
RestTyped ==
  /\ lock \in [Users -> Procs \cup {None}]
  /\ grants \in SUBSET Grant
  /\ tokens \in SUBSET Token
  /\ late \in SUBSET Grant
  /\ staleClaim \in SUBSET Token
  /\ crashes \in 0 .. MaxCrashes

-----------------------------------------------------------------------------
(* A step of r that takes no row lock from another request and changes no
   role: it remains to see that r's new locals are in order. *)
LEMMA StepOK ==
  ASSUME IInv, NEW r \in Procs, NEW q \in Request, LocalsOK(q), Become(r, q),
         role' = role, RestTyped',
         \A u \in Users, s \in Procs : s # r /\ lock[u] = s => lock'[u] = s,
         Secured(r)'
  PROVE  IInv'
<1>1. TypeOK'
  BY DEF IInv, TypeOK, RestTyped, Become
<1>2. ReqInv'
  BY DEF IInv, TypeOK, ReqInv, Become
<1>3. ASSUME NEW s \in Procs PROVE Secured(s)'
  <2>1. CASE s = r
    BY <2>1
  <2>2. CASE s # r
    <3>1. req'[s] = req[s] /\ req[s] \in Request /\ LocalsOK(req[s]) /\ Secured(s)
      BY <2>2 DEF IInv, TypeOK, ReqInv, LockInv, Become
    <3>2. req[s].pc \in Holding => req[s].user \in Users /\ req[s].counted \in SUBSET Users
      BY <3>1 DEF LocalsOK, Holding, Leaving, Purging, Request
    <3> QED BY <2>2, <3>1, <3>2 DEF Secured, Holding, Leaving, Member, GivesUpOwner
  <2> QED BY <2>1, <2>2
<1>4. HasOwner'
  BY DEF IInv, HasOwner, Owners
<1> QED BY <1>1, <1>2, <1>3, <1>4 DEF IInv, LockInv

(* Steps that leave the locks alone and end outside the locked section. *)
LEMMA PlainStep ==
  ASSUME IInv, NEW r \in Procs, NEW q \in Request, LocalsOK(q), Become(r, q),
         role' = role, lock' = lock, RestTyped', q.pc \notin Holding
  PROVE  IInv'
<1>1. req'[r] = q
  BY DEF IInv, TypeOK, Become
<1>2. Secured(r)'
  BY <1>1 DEF Secured, Holding, Leaving
<1> QED BY <1>2, StepOK

LEMMA IdleOK == Idle \in Request /\ LocalsOK(Idle) /\ Idle.pc \notin Holding
  BY DEF Idle, Request, LocalsOK, Holding, Leaving, Purging

(* Refusing releases only the request's own locks. *)
LEMMA RefuseOK ==
  ASSUME IInv, NEW r \in Procs, Refuse(r), role' = role, grants' = grants,
         tokens' = tokens, late' = late, staleClaim' \in SUBSET Token,
         crashes' \in 0 .. MaxCrashes
  PROVE  IInv'
<1>1. Idle \in Request /\ LocalsOK(Idle) /\ Become(r, Idle) /\ req'[r] = Idle
  BY IdleOK DEF Refuse, IInv, TypeOK, Become
<1>2. RestTyped'
  BY DEF RestTyped, IInv, TypeOK, Refuse, Unlocked
<1>3. \A u \in Users, s \in Procs : s # r /\ lock[u] = s => lock'[u] = s
  BY DEF Refuse, Unlocked
<1>4. Secured(r)'
  BY <1>1, IdleOK DEF Secured, Holding, Leaving
<1> QED BY <1>1, <1>2, <1>3, <1>4, StepOK

LEMMA SameRest ==
  ASSUME IInv, UNCHANGED <<lock, grants, tokens, late, staleClaim, crashes>>
  PROVE  RestTyped'
  BY DEF RestTyped, IInv, TypeOK

LEMMA ReqTyped ==
  ASSUME IInv, NEW r \in Procs
  PROVE  req[r] \in Request /\ LocalsOK(req[r]) /\ Secured(r)
  BY DEF IInv, TypeOK, ReqInv, LockInv

-----------------------------------------------------------------------------
(* One lemma per group of actions. *)

LEMMA ArrivalOK ==
  ASSUME IInv, NEW r \in Procs, NEW u \in Users
  PROVE  /\ \A new \in Roles, actor \in {"owner", "other"} : ChangeRole(r, u, new, actor) => IInv'
         /\ \A actor \in {"owner", "other"} : RemoveMember(r, u, actor) => IInv'
         /\ \A k \in Kinds : Assign(r, u, k) => IInv'
         /\ Issue(r, u) => IInv'
<1>1. ASSUME NEW new \in Roles, NEW actor \in {"owner", "other"}, ChangeRole(r, u, new, actor)
      PROVE  IInv'
  <2> DEFINE q == [Idle EXCEPT !.pc = "lock", !.op = "change", !.user = u, !.new = new,
                               !.actor = actor]
  <2>1. q \in Request /\ LocalsOK(q) /\ q.pc \notin Holding
    BY DEF Idle, Request, LocalsOK, Holding, Leaving, Purging
  <2> QED BY <1>1, <2>1, PlainStep, SameRest DEF ChangeRole
<1>2. ASSUME NEW actor \in {"owner", "other"}, RemoveMember(r, u, actor)
      PROVE  IInv'
  <2> DEFINE q == [Idle EXCEPT !.pc = "lock", !.op = "remove", !.user = u, !.actor = actor]
  <2>1. q \in Request /\ LocalsOK(q) /\ q.pc \notin Holding
    BY DEF Idle, Request, LocalsOK, Holding, Leaving, Purging
  <2> QED BY <1>2, <2>1, PlainStep, SameRest DEF RemoveMember
<1>3. ASSUME NEW k \in Kinds, Assign(r, u, k) PROVE IInv'
  <2> DEFINE q == [Idle EXCEPT !.pc = "assign", !.user = u, !.kind = k]
  <2>1. q \in Request /\ LocalsOK(q) /\ q.pc \notin Holding
    BY DEF Idle, Request, LocalsOK, Holding, Leaving, Purging
  <2> QED BY <1>3, <2>1, PlainStep, SameRest DEF Assign
<1>4. ASSUME Issue(r, u) PROVE IInv'
  <2> DEFINE q == [Idle EXCEPT !.pc = "issue", !.user = u, !.new = role[u]]
  <2>1. role[u] \in Roles
    BY <1>4 DEF Issue, Member, IInv, TypeOK
  <2>2. q \in Request /\ LocalsOK(q) /\ q.pc \notin Holding
    BY <2>1 DEF Idle, Request, LocalsOK, Holding, Leaving, Purging
  <2> QED BY <1>4, <2>2, PlainStep, SameRest DEF Issue
<1> QED BY <1>1, <1>2, <1>3, <1>4

(* LockTarget takes only a free row, and the request that goes on without
   counting gives up no owner. *)
LEMMA LockTargetOK ==
  ASSUME IInv, NEW r \in Procs, LockTarget(r)
  PROVE  IInv'
<1> DEFINE u == req[r].user
<1>0. /\ req[r] \in Request /\ LocalsOK(req[r]) /\ u \in Users /\ lock[u] = None
      /\ req[r].counted = {}
  BY ReqTyped DEF LockTarget, LocalsOK
<1>1. CASE ~Member(u) \/ NotAllowed(req[r], role[u])
  BY <1>1, RefuseOK DEF LockTarget, IInv, TypeOK
<1>2. CASE Member(u) /\ ~NotAllowed(req[r], role[u])
  <2> DEFINE q == IF GivesUpOwner(req[r], role[u])
                    THEN [req[r] EXCEPT !.pc = "count", !.todo = Owners]
                    ELSE [req[r] EXCEPT !.pc = AfterGuards(req[r])]
  <2>1. lock' = [lock EXCEPT ![u] = r] /\ Become(r, q) /\ role' = role
    BY <1>2 DEF LockTarget
  <2>2. RestTyped'
    BY <2>1 DEF LockTarget, RestTyped, IInv, TypeOK
  <2>3. /\ q \in Request /\ q.user = u /\ q.new = req[r].new /\ q.counted = {}
        /\ q.pc = IF GivesUpOwner(req[r], role[u]) THEN "count" ELSE AfterGuards(req[r])
    <3>1. Owners \in SUBSET Users
      BY DEF Owners
    <3>2. CASE GivesUpOwner(req[r], role[u])
      BY <1>0, <3>1, <3>2 DEF Request
    <3>3. CASE ~GivesUpOwner(req[r], role[u])
      BY <1>0, <3>3 DEF Request, AfterGuards, Purging
    <3> QED BY <3>2, <3>3
  <2>4. LocalsOK(q)
    BY <1>0, <2>3 DEF LocalsOK, AfterGuards
  <2>5. lock'[u] = r /\ \A v \in Users, s \in Procs : s # r /\ lock[v] = s => lock'[v] = s
    BY <1>0, <2>1, MembershipAssumption DEF IInv, TypeOK
  <2>6. Secured(r)'
    <3>1. req'[r] = q
      BY <2>1 DEF Become, IInv, TypeOK
    <3>2. GivesUpOwner(req[r], role[u]) \/ ~GivesUpOwner(q, role[u])
      BY <2>3 DEF GivesUpOwner
    <3>3. q.pc \in Leaving => ~GivesUpOwner(q, role[u])
      BY <2>3, <3>2 DEF Leaving, Purging
    <3> HIDE DEF q
    <3> QED BY <1>2, <2>1, <2>3, <2>5, <3>1, <3>3 DEF Secured, Member
  <2> HIDE DEF q
  <2> QED BY <2>1, <2>2, <2>3, <2>4, <2>5, <2>6, StepOK
<1> QED BY <1>1, <1>2

(* An owner is counted only once its row is locked. *)
LEMMA CountOwnerOK ==
  ASSUME IInv, NEW r \in Procs, CountOwner(r)
  PROVE  IInv'
<1>0. req[r] \in Request /\ LocalsOK(req[r]) /\ Secured(r) /\ req[r].pc = "count"
  BY ReqTyped DEF CountOwner
<1>1. PICK u \in req[r].todo :
        /\ lock[u] \in {None, r}
        /\ lock' = IF Member(u) THEN [lock EXCEPT ![u] = r] ELSE lock
        /\ Become(r, [req[r] EXCEPT !.todo = @ \ {u},
                                    !.counted = IF role[u] = "owner" THEN @ \cup {u} ELSE @])
  BY DEF CountOwner
<1> DEFINE q == [req[r] EXCEPT !.todo = @ \ {u},
                               !.counted = IF role[u] = "owner" THEN @ \cup {u} ELSE @]
<1>2. u \in Users /\ req[r].user \in Users /\ req[r].counted \in SUBSET Users
  BY <1>0 DEF Request, LocalsOK
<1>3. /\ q \in Request /\ q.user = req[r].user /\ q.pc = "count"
      /\ q.counted = IF role[u] = "owner" THEN req[r].counted \cup {u} ELSE req[r].counted
  BY <1>0, <1>2 DEF Request
<1>4. LocalsOK(q)
  BY <1>0, <1>3 DEF LocalsOK
<1>5. role' = role /\ RestTyped'
  BY <1>1, <1>2 DEF CountOwner, RestTyped, IInv, TypeOK
<1>6. /\ \A v \in Users : lock[v] = r => lock'[v] = r
      /\ Member(u) => lock'[u] = r
      /\ \A v \in Users, s \in Procs : s # r /\ lock[v] = s => lock'[v] = s
  BY <1>1, <1>2, MembershipAssumption DEF IInv, TypeOK
<1>7. req'[r] = q
  BY <1>1 DEF Become, IInv, TypeOK
<1> HIDE DEF q
<1>8. role[u] = "owner" => Member(u)
  BY MembershipAssumption DEF Member
<1>9. Secured(r)'
  BY <1>0, <1>2, <1>3, <1>5, <1>6, <1>7, <1>8 DEF Secured, Holding, Leaving, Purging, Member
<1> QED BY <1>1, <1>3, <1>4, <1>5, <1>6, <1>9, StepOK DEF q

(* Of two counted owners, one is not the target. *)
LEMMA AnotherOwner ==
  ASSUME NEW S \in SUBSET Users, ~(Cardinality(S) <= 1), NEW u
  PROVE  \E v \in S : v # u
<1>1. SUFFICES ASSUME S \subseteq {u} PROVE FALSE
  OBVIOUS
<1>2. IsFiniteSet({u}) /\ Cardinality({u}) = 1
  BY FS_Singleton
<1> QED BY <1>1, <1>2, FS_Subset

LEMMA CountDoneOK ==
  ASSUME IInv, NEW r \in Procs, CountDone(r)
  PROVE  IInv'
<1>0. req[r] \in Request /\ LocalsOK(req[r]) /\ Secured(r) /\ req[r].pc = "count"
  BY ReqTyped DEF CountDone
<1>1. CASE Cardinality(req[r].counted) <= 1 \/ req[r].actor # "owner"
  BY <1>1, RefuseOK DEF CountDone, IInv, TypeOK
<1>2. CASE ~(Cardinality(req[r].counted) <= 1 \/ req[r].actor # "owner")
  <2> DEFINE q == [req[r] EXCEPT !.pc = AfterGuards(req[r])]
  <2>1. Become(r, q) /\ role' = role /\ lock' = lock
    BY <1>2 DEF CountDone
  <2>2. RestTyped'
    BY <1>2, SameRest DEF CountDone
  <2>3. q \in Request /\ q.user = req[r].user /\ q.new = req[r].new /\ q.pc \in Leaving
    BY <1>0 DEF Request, AfterGuards, Leaving, Purging
  <2>4. LocalsOK(q)
    BY <1>0, <2>3 DEF LocalsOK, Leaving, Purging
  <2>5. PICK v \in req[r].counted : v # req[r].user
    BY <1>0, <1>2, AnotherOwner DEF Request
  <2>6. v \in Users /\ lock[v] = r /\ role[v] = "owner"
    BY <1>0, <2>5 DEF Request, Secured
  <2>7. lock[req[r].user] = r /\ Member(req[r].user)
    BY <1>0 DEF Secured, Holding
  <2>8. req'[r] = q
    BY <2>1 DEF Become, IInv, TypeOK
  <2> HIDE DEF q
  <2>9. Secured(r)'
    BY <2>1, <2>3, <2>5, <2>6, <2>7, <2>8 DEF Secured, Leaving, Purging, Member
  <2> QED BY <2>1, <2>2, <2>3, <2>4, <2>9, StepOK
<1> QED BY <1>1, <1>2

LEMMA PurgeOK ==
  ASSUME IInv, NEW r \in Procs, Purge(r)
  PROVE  IInv'
<1>0. req[r] \in Request /\ LocalsOK(req[r]) /\ Secured(r) /\ req[r].pc \in Purging
  BY ReqTyped DEF Purge
<1> DEFINE mine == {g \in grants : g.user = req[r].user /\ g.kind = PurgedBy[req[r].pc]}
           q == [req[r] EXCEPT !.pc = AfterPurge[req[r].pc],
                               !.purged = @ \cup {PurgedBy[req[r].pc]},
                               !.doomed = @ \cup mine]
<1>1. Become(r, q) /\ role' = role /\ lock' = lock
  BY DEF Purge
<1>2. RestTyped'
  BY SameRest DEF Purge
<1>3. /\ AfterPurge[req[r].pc] \in Leaving
      /\ PurgedBy[req[r].pc] \in {"group", "role", "share"}
  BY <1>0 DEF Purging, Leaving, AfterPurge, PurgedBy
<1>4. mine \in SUBSET Grant
  BY DEF IInv, TypeOK
<1>5. q \in Request /\ q.user = req[r].user /\ q.new = req[r].new /\ q.pc \in Leaving
  <2> HIDE DEF mine
  <2> QED BY <1>0, <1>3, <1>4 DEF Request, Leaving
<1>6. req'[r] = q
  BY <1>1 DEF Become, IInv, TypeOK
<1> HIDE DEF q
<1>7. LocalsOK(q)
  BY <1>0, <1>5 DEF LocalsOK, Leaving, Purging
<1>8. Secured(r)'
  BY <1>0, <1>1, <1>5, <1>6 DEF Secured, Holding, Leaving, Purging, Member, GivesUpOwner
<1> QED BY <1>1, <1>2, <1>5, <1>7, <1>8, StepOK

(* The commit: the target's row is locked, so what the other requests have
   secured is about other rows; and the workspace keeps the owner that was
   counted, or one that was never the target. *)
LEMMA CommitOK ==
  ASSUME IInv, NEW r \in Procs, Commit(r)
  PROVE  IInv'
<1> DEFINE u == req[r].user
<1>0. /\ req[r] \in Request /\ LocalsOK(req[r]) /\ Secured(r) /\ req[r].pc = "commit"
      /\ u \in Users /\ lock[u] = r
  BY ReqTyped DEF Commit, LocalsOK, Secured, Holding, Leaving
<1>1. /\ role' = [role EXCEPT ![u] = req[r].new]
      /\ role \in [Users -> Roles \cup {None}] /\ role' \in [Users -> Roles \cup {None}]
  BY <1>0 DEF Commit, Request, IInv, TypeOK
<1> DEFINE after == IF role[u] = req[r].new THEN Idle
                                            ELSE [Idle EXCEPT !.pc = "revoke", !.user = u]
<1>2. after \in Request /\ LocalsOK(after) /\ after.pc \notin Holding
  <2>1. LET d == [Idle EXCEPT !.pc = "revoke", !.user = u]
        IN  d \in Request /\ LocalsOK(d) /\ d.pc \notin Holding
    BY <1>0 DEF Idle, Request, LocalsOK, Holding, Leaving, Purging
  <2> QED BY <2>1, IdleOK
<1>3. req'[r] = after
  BY DEF Commit
<1>4. ASSUME NEW s \in Procs, s # r
      PROVE  /\ req'[s] \in Request /\ LocalsOK(req'[s])
             /\ req'[s].pc = req[s].pc /\ req'[s].user = req[s].user
             /\ req'[s].new = req[s].new /\ req'[s].counted = req[s].counted
  <2> DEFINE b == req[s].behind \/ req[s].user = u
  <2>1. req[s] \in Request /\ LocalsOK(req[s])
    BY ReqTyped
  <2>2. req'[s] = [req[s] EXCEPT !.behind = b] /\ b \in BOOLEAN
    BY <1>4 DEF Commit
  <2> HIDE DEF b
  <2> QED BY <2>1, <2>2 DEF Request, LocalsOK
<1> HIDE DEF after
<1>5. TypeOK'
  <2>1. req' \in [Procs -> Request]
    <3>1. req' = [s \in Procs |-> req'[s]]
      BY DEF Commit
    <3> QED BY <1>2, <1>3, <1>4, <3>1
  <2>2. RestTyped'
    BY DEF Commit, RestTyped, IInv, TypeOK, Unlocked
  <2> QED BY <1>1, <2>1, <2>2 DEF TypeOK, RestTyped
<1>6. ReqInv'
  BY <1>2, <1>3, <1>4 DEF ReqInv
<1>7. ASSUME NEW s \in Procs PROVE Secured(s)'
  <2>1. CASE s = r
    BY <1>2, <1>3, <2>1 DEF Secured, Holding, Leaving
  <2>2. CASE s # r
    <3>1. req[s] \in Request /\ LocalsOK(req[s]) /\ Secured(s)
      BY ReqTyped
    <3>2. /\ req'[s].pc = req[s].pc /\ req'[s].user = req[s].user
          /\ req'[s].new = req[s].new /\ req'[s].counted = req[s].counted
      BY <1>4, <2>2
    <3>3. req[s].pc \in Holding => req[s].user \in Users /\ req[s].counted \in SUBSET Users
      BY <3>1 DEF LocalsOK, Holding, Leaving, Purging, Request
    <3>4. \A v \in Users : lock[v] = s => lock'[v] = s /\ role'[v] = role[v]
      BY <1>0, <1>1, <2>2 DEF Commit, Unlocked
    <3> QED BY <3>1, <3>2, <3>3, <3>4 DEF Secured, Holding, Leaving, Member, GivesUpOwner
  <2> QED BY <2>1, <2>2
<1>8. HasOwner'
  <2>1. CASE req[r].new = "owner"
    BY <1>0, <1>1, <2>1 DEF HasOwner, Owners
  <2>2. CASE req[r].new # "owner" /\ role[u] = "owner"
    <3>1. PICK v \in Users : v # u /\ role[v] = "owner"
      BY <1>0, <2>2 DEF Secured, Leaving, GivesUpOwner
    <3> QED BY <1>0, <1>1, <3>1 DEF HasOwner, Owners
  <2>3. CASE role[u] # "owner"
    <3>1. PICK v \in Users : role[v] = "owner"
      BY DEF IInv, HasOwner, Owners
    <3> QED BY <1>0, <1>1, <2>3, <3>1 DEF HasOwner, Owners
  <2> QED BY <2>1, <2>2, <2>3
<1> QED BY <1>5, <1>6, <1>7, <1>8 DEF IInv, LockInv

LEMMA LeftoversOK ==
  ASSUME IInv, NEW r \in Procs
  PROVE  /\ Revoke(r) => IInv'
         /\ AssignInsert(r) => IInv'
         /\ \A g \in grants : Unassign(r, g) => IInv'
         /\ IssueStore(r) => IInv'
<1>0. req[r] \in Request /\ LocalsOK(req[r])
  BY ReqTyped
<1>1. ASSUME Revoke(r) PROVE IInv'
  <2>1. RestTyped'
    BY <1>1 DEF Revoke, RestTyped, IInv, TypeOK
  <2> QED BY <1>1, <2>1, IdleOK, PlainStep DEF Revoke
<1>2. ASSUME AssignInsert(r) PROVE IInv'
  <2>1. [user |-> req[r].user, kind |-> req[r].kind] \in Grant
    BY <1>0, <1>2 DEF AssignInsert, LocalsOK, Grant
  <2>2. RestTyped'
    BY <1>2, <2>1 DEF AssignInsert, RestTyped, IInv, TypeOK
  <2> QED BY <1>2, <2>2, IdleOK, PlainStep DEF AssignInsert
<1>3. ASSUME NEW g \in grants, Unassign(r, g) PROVE IInv'
  <2> DEFINE d == [Idle EXCEPT !.pc = "revoke", !.user = g.user]
  <2>1. RestTyped'
    BY <1>3 DEF Unassign, RestTyped, IInv, TypeOK
  <2>2. g.user \in Users
    BY DEF IInv, TypeOK, Grant
  <2>3. d \in Request /\ LocalsOK(d) /\ d.pc \notin Holding
    BY <2>2 DEF Idle, Request, LocalsOK, Holding, Leaving, Purging
  <2>4. Become(r, d) \/ Become(r, Idle)
    BY <1>3 DEF Unassign
  <2>5. role' = role /\ lock' = lock
    BY <1>3 DEF Unassign
  <2> HIDE DEF d
  <2> QED BY <2>1, <2>3, <2>4, <2>5, IdleOK, PlainStep
<1>4. ASSUME IssueStore(r) PROVE IInv'
  <2>1. [user |-> req[r].user, role |-> req[r].new] \in Token
    BY <1>0, <1>4 DEF IssueStore, LocalsOK, Token
  <2>2. RestTyped'
    BY <1>4, <2>1 DEF IssueStore, RestTyped, IInv, TypeOK
  <2> QED BY <1>4, <2>2, IdleOK, PlainStep DEF IssueStore
<1> QED BY <1>1, <1>2, <1>3, <1>4

LEMMA FailureOK ==
  ASSUME IInv, NEW r \in Procs
  PROVE  DeadlockVictim(r) \/ Crash(r) => IInv'
<1>1. ASSUME DeadlockVictim(r) PROVE IInv'
  BY <1>1, RefuseOK DEF DeadlockVictim, IInv, TypeOK
<1>2. ASSUME Crash(r) PROVE IInv'
  <2>1. crashes' \in 0 .. MaxCrashes
    BY <1>2, MembershipAssumption DEF Crash, IInv, TypeOK
  <2>2. staleClaim' \in SUBSET Token
    BY <1>2 DEF Crash, IInv, TypeOK
  <2> QED BY <1>2, <2>1, <2>2, RefuseOK DEF Crash
<1> QED BY <1>1, <1>2

(* A user who joins had no row, so no request had secured it. *)
LEMMA InviteOK ==
  ASSUME IInv, NEW u \in Users, NEW as \in Roles, Invite(u, as)
  PROVE  IInv'
<1>1. role' \in [Users -> Roles \cup {None}] /\ role[u] = None
  BY DEF Invite, Member, IInv, TypeOK
<1>2. \A v \in Users : Member(v) => role'[v] = role[v]
  BY <1>1 DEF Invite, Member, IInv, TypeOK
<1>3. \A v \in Users : role[v] = "owner" => Member(v)
  BY MembershipAssumption DEF Member
<1>4. ASSUME NEW s \in Procs PROVE Secured(s)'
  <2>1. req'[s] = req[s] /\ lock' = lock /\ Secured(s) /\ req[s] \in Request /\ LocalsOK(req[s])
    BY ReqTyped DEF Invite
  <2>2. req[s].pc \in Holding => req[s].user \in Users /\ req[s].counted \in SUBSET Users
    BY <2>1 DEF LocalsOK, Holding, Leaving, Purging, Request
  <2> QED BY <1>2, <1>3, <2>1, <2>2 DEF Secured, Holding, Leaving, Member, GivesUpOwner
<1>5. TypeOK' /\ ReqInv'
  BY <1>1 DEF Invite, IInv, TypeOK, ReqInv
<1>6. HasOwner'
  BY <1>2, <1>3 DEF IInv, HasOwner, Owners
<1> QED BY <1>4, <1>5, <1>6 DEF IInv, LockInv

LEMMA TokenExpiresOK ==
  ASSUME IInv, NEW t \in tokens, TokenExpires(t)
  PROVE  IInv'
BY DEF TokenExpires, IInv, TypeOK, ReqInv, LockInv, Secured, Member, HasOwner, Owners

-----------------------------------------------------------------------------

LEMMA InitOK == Init => IInv
<1> SUFFICES ASSUME Init PROVE IInv
  OBVIOUS
<1>1. PICK creator \in Users : role = [u \in Users |-> IF u = creator THEN "owner" ELSE None]
  BY DEF Init
<1>2. TypeOK
  BY <1>1, IdleOK, MembershipAssumption DEF Init, TypeOK
<1>3. ReqInv
  BY IdleOK DEF Init, ReqInv
<1>4. LockInv
  BY IdleOK DEF Init, LockInv, Secured, Holding, Leaving, Idle
<1>5. HasOwner
  BY <1>1 DEF HasOwner, Owners
<1> QED BY <1>2, <1>3, <1>4, <1>5 DEF IInv

LEMMA NextOK == IInv /\ [Next]_vars => IInv'
<1> SUFFICES ASSUME IInv, [Next]_vars PROVE IInv'
  OBVIOUS
<1>1. CASE UNCHANGED vars
  BY <1>1 DEF vars, IInv, TypeOK, ReqInv, LockInv, Secured, Member, HasOwner, Owners
<1>2. ASSUME NEW r \in Procs, RequestStep(r) PROVE IInv'
  BY <1>2, LockTargetOK, CountOwnerOK, CountDoneOK, PurgeOK, CommitOK, LeftoversOK
     DEF RequestStep
<1>3. ASSUME NEW r \in Procs, Arrival(r) PROVE IInv'
  BY <1>3, ArrivalOK, LeftoversOK DEF Arrival
<1>4. ASSUME NEW r \in Procs, DeadlockVictim(r) \/ Crash(r) PROVE IInv'
  BY <1>4, FailureOK
<1>5. ASSUME NEW u \in Users, NEW as \in Roles, Invite(u, as) PROVE IInv'
  BY <1>5, InviteOK
<1>6. ASSUME NEW t \in tokens, TokenExpires(t) PROVE IInv'
  BY <1>6, TokenExpiresOK
<1> QED BY <1>1, <1>2, <1>3, <1>4, <1>5, <1>6 DEF Next

(* What every request has secured by its locks, in every reachable state. *)
THEOREM LocksSecure == Spec => []IInv
BY InitOK, NextOK, PTL DEF Spec

(* update_member_role and remove_member never leave a workspace without an
   owner, for any number of members and overlapping requests. *)
THEOREM WorkspaceHasOwner == Spec => []HasOwner
<1>1. IInv => HasOwner
  BY DEF IInv
<1> QED BY <1>1, LocksSecure, PTL

(* Roles, locks, grants and tokens keep to their types, and a request's locals
   to those of its program counter. *)
THEOREM TypeCorrect == Spec => [](TypeOK /\ ReqInv)
<1>1. IInv => TypeOK /\ ReqInv
  BY DEF IInv
<1> QED BY <1>1, LocksSecure, PTL

-----------------------------------------------------------------------------
(* What a removal or a change of role leaves behind: no grant without its
   membership and no token with an old role, but for those that straddled it. *)

(* The tables a request has purged, and that only a removal purges. *)
PurgedSoFar(q) ==
  CASE q.pc = "purge_role"  -> {"group"}
    [] q.pc = "purge_share" -> {"group", "role"}
    [] q.pc = "commit" /\ q.op = "remove" -> {"group", "role", "share"}
    [] OTHER -> {}
GrantLocals(q) ==
  /\ q.pc \in {"lock", "count"} \cup Leaving =>
       (q.op = "change" /\ q.new \in Roles) \/ (q.op = "remove" /\ q.new = None)
  /\ q.pc \in Purging => q.op = "remove"
  /\ q.purged = PurgedSoFar(q)

(* A grant in a table that r has purged of r's user was there to be taken, or
   came in behind r's back. *)
Taken(q) == \A g \in grants : g.user = q.user /\ g.kind \in q.purged => g \in q.doomed \cup late

(* A request that no commit overtook still knows the membership it read. *)
Current(q) == /\ q.pc = "assign" /\ ~q.behind => Member(q.user)
              /\ q.pc = "issue" /\ ~q.behind => q.new = role[q.user]

Straddle == \A r \in Procs : GrantLocals(req[r]) /\ Taken(req[r]) /\ Current(req[r])
HInv == IInv /\ Straddle /\ GrantsNeedMembership /\ ClaimsAreCurrent

-----------------------------------------------------------------------------
(* Only r's locals change; if it gives up a revocation, the tokens it owed one
   to count as stale. *)
LEMMA LocalStep ==
  ASSUME HInv, NEW r \in Procs, NEW q, Become(r, q), UNCHANGED <<role, grants, late, tokens>>,
         GrantLocals(q), Taken(q), Current(q), staleClaim \subseteq staleClaim',
         req[r].pc = "revoke" => \A t \in tokens : t.user = req[r].user => t \in staleClaim'
  PROVE  Straddle' /\ GrantsNeedMembership' /\ ClaimsAreCurrent'
<1>1. /\ req'[r] = q
      /\ \A s \in Procs : s # r => req'[s] = req[s]
  BY DEF Become, HInv, IInv, TypeOK
<1>2. Straddle'
  BY <1>1 DEF HInv, Straddle, Taken, Current, Member, GrantLocals, PurgedSoFar
<1>3. GrantsNeedMembership'
  BY DEF HInv, GrantsNeedMembership, Member
<1>4. ASSUME NEW t \in tokens', t \notin staleClaim' PROVE RevocationDue(t.user)' \/ t.role = role'[t.user]
  <2>1. CASE RevocationDue(t.user)
    <3>1. PICK s \in Procs : req[s].pc = "revoke" /\ req[s].user = t.user
      BY <2>1 DEF RevocationDue
    <3> QED BY <1>1, <1>4, <3>1 DEF RevocationDue
  <2>2. CASE t.role = role[t.user]
    BY <2>2
  <2> QED BY <1>4, <2>1, <2>2 DEF HInv, ClaimsAreCurrent
<1> QED BY <1>2, <1>3, <1>4 DEF ClaimsAreCurrent

LEMMA IdleTaken == GrantLocals(Idle) /\ Taken(Idle) /\ Current(Idle)
BY DEF GrantLocals, PurgedSoFar, Taken, Current, Idle, Leaving, Purging

LEMMA ArrivalLeaves ==
  ASSUME HInv, NEW r \in Procs, NEW u \in Users
  PROVE  /\ \A new \in Roles, actor \in {"owner", "other"} :
              ChangeRole(r, u, new, actor) => Straddle' /\ GrantsNeedMembership' /\ ClaimsAreCurrent'
         /\ \A actor \in {"owner", "other"} :
              RemoveMember(r, u, actor) => Straddle' /\ GrantsNeedMembership' /\ ClaimsAreCurrent'
         /\ \A k \in Kinds : Assign(r, u, k) => Straddle' /\ GrantsNeedMembership' /\ ClaimsAreCurrent'
         /\ Issue(r, u) => Straddle' /\ GrantsNeedMembership' /\ ClaimsAreCurrent'
<1>1. ASSUME NEW new \in Roles, NEW actor \in {"owner", "other"}, ChangeRole(r, u, new, actor)
      PROVE  Straddle' /\ GrantsNeedMembership' /\ ClaimsAreCurrent'
  <2> DEFINE q == [Idle EXCEPT !.pc = "lock", !.op = "change", !.user = u, !.new = new,
                               !.actor = actor]
  <2>1. GrantLocals(q) /\ Taken(q) /\ Current(q)
    BY DEF GrantLocals, PurgedSoFar, Taken, Current, Idle, Leaving, Purging
  <2> QED BY <1>1, <2>1, LocalStep DEF ChangeRole
<1>2. ASSUME NEW actor \in {"owner", "other"}, RemoveMember(r, u, actor)
      PROVE  Straddle' /\ GrantsNeedMembership' /\ ClaimsAreCurrent'
  <2> DEFINE q == [Idle EXCEPT !.pc = "lock", !.op = "remove", !.user = u, !.actor = actor]
  <2>1. GrantLocals(q) /\ Taken(q) /\ Current(q)
    BY DEF GrantLocals, PurgedSoFar, Taken, Current, Idle, Leaving, Purging
  <2> QED BY <1>2, <2>1, LocalStep DEF RemoveMember
<1>3. ASSUME NEW k \in Kinds, Assign(r, u, k)
      PROVE  Straddle' /\ GrantsNeedMembership' /\ ClaimsAreCurrent'
  <2> DEFINE q == [Idle EXCEPT !.pc = "assign", !.user = u, !.kind = k]
  <2>1. GrantLocals(q) /\ Taken(q) /\ Current(q)
    BY <1>3 DEF Assign, GrantLocals, PurgedSoFar, Taken, Current, Idle, Leaving, Purging
  <2> QED BY <1>3, <2>1, LocalStep DEF Assign
<1>4. ASSUME Issue(r, u) PROVE Straddle' /\ GrantsNeedMembership' /\ ClaimsAreCurrent'
  <2> DEFINE q == [Idle EXCEPT !.pc = "issue", !.user = u, !.new = role[u]]
  <2>1. GrantLocals(q) /\ Taken(q) /\ Current(q)
    BY DEF GrantLocals, PurgedSoFar, Taken, Current, Idle, Leaving, Purging
  <2> QED BY <1>4, <2>1, LocalStep DEF Issue
<1> QED BY <1>1, <1>2, <1>3, <1>4

(* Up to its commit a request only moves on, or gives up. *)
LEMMA LockedLeaves ==
  ASSUME HInv, NEW r \in Procs, LockTarget(r) \/ CountOwner(r) \/ CountDone(r) \/ DeadlockVictim(r)
  PROVE  Straddle' /\ GrantsNeedMembership' /\ ClaimsAreCurrent'
<1> DEFINE old == req[r]
<1>1. /\ UNCHANGED <<role, grants, late, tokens, staleClaim>>
      /\ GrantLocals(old) /\ old \in Request /\ Taken(old)
  BY ReqTyped DEF LockTarget, CountOwner, CountDone, DeadlockVictim, HInv, Straddle
<1>2. old.pc \in {"lock", "count"}
  BY DEF LockTarget, CountOwner, CountDone, DeadlockVictim, Blockers
<1>3. \/ Become(r, Idle)
      \/ \E todo, counted : Become(r, [old EXCEPT !.pc = "count", !.todo = todo, !.counted = counted])
      \/ Become(r, [old EXCEPT !.pc = AfterGuards(old)])
  <2>1. CASE DeadlockVictim(r)
    BY <2>1 DEF DeadlockVictim, Refuse
  <2>2. CASE CountOwner(r)
    <3>1. PICK u \in old.todo : Become(r, [old EXCEPT !.todo = @ \ {u},
                                   !.counted = IF role[u] = "owner" THEN @ \cup {u} ELSE @])
      BY <2>2 DEF CountOwner
    <3>2. old.pc = "count"
      BY <2>2 DEF CountOwner
    <3>3. [old EXCEPT !.todo = @ \ {u}, !.counted = IF role[u] = "owner" THEN @ \cup {u} ELSE @]
            = [old EXCEPT !.pc = "count", !.todo = old.todo \ {u},
                          !.counted = IF role[u] = "owner" THEN old.counted \cup {u} ELSE old.counted]
      BY <1>1, <3>2 DEF Request
    <3> QED BY <3>1, <3>3
  <2>3. CASE CountDone(r)
    BY <2>3 DEF CountDone, Refuse
  <2>4. CASE LockTarget(r)
    <3>1. CASE Become(r, [old EXCEPT !.pc = "count", !.todo = Owners])
      <4>1. [old EXCEPT !.pc = "count", !.todo = Owners]
              = [old EXCEPT !.pc = "count", !.todo = Owners, !.counted = old.counted]
        BY <1>1 DEF Request
      <4> QED BY <3>1, <4>1
    <3> QED BY <2>4, <3>1 DEF LockTarget, Refuse
  <2> QED BY <2>1, <2>2, <2>3, <2>4
<1>4. CASE Become(r, Idle)
  BY <1>1, <1>2, <1>4, IdleTaken, LocalStep
<1>5. ASSUME NEW todo, NEW counted,
             Become(r, [old EXCEPT !.pc = "count", !.todo = todo, !.counted = counted])
      PROVE  Straddle' /\ GrantsNeedMembership' /\ ClaimsAreCurrent'
  <2> DEFINE q == [old EXCEPT !.pc = "count", !.todo = todo, !.counted = counted]
  <2>1. GrantLocals(q) /\ Taken(q) /\ Current(q)
    BY <1>1, <1>2 DEF GrantLocals, PurgedSoFar, Taken, Current, Leaving, Purging, Request
  <2> QED BY <1>1, <1>2, <1>5, <2>1, LocalStep
<1>6. CASE Become(r, [old EXCEPT !.pc = AfterGuards(old)])
  <2> DEFINE q == [old EXCEPT !.pc = AfterGuards(old)]
  <2>1. GrantLocals(q) /\ Taken(q) /\ Current(q)
    BY <1>1, <1>2 DEF GrantLocals, PurgedSoFar, Taken, Current, Leaving, Purging, Request, AfterGuards
  <2> QED BY <1>1, <1>2, <1>6, <2>1, LocalStep
<1> QED BY <1>3, <1>4, <1>5, <1>6

LEMMA PurgeLeaves ==
  ASSUME HInv, NEW r \in Procs, Purge(r)
  PROVE  Straddle' /\ GrantsNeedMembership' /\ ClaimsAreCurrent'
<1> DEFINE old == req[r]
           q == [old EXCEPT !.pc = AfterPurge[old.pc], !.purged = @ \cup {PurgedBy[old.pc]},
                            !.doomed = @ \cup {g \in grants : g.user = old.user /\ g.kind = PurgedBy[old.pc]}]
<1>1. /\ UNCHANGED <<role, grants, late, tokens, staleClaim>> /\ Become(r, q)
      /\ GrantLocals(old) /\ old \in Request /\ Taken(old) /\ old.pc \in Purging
  BY ReqTyped DEF Purge, HInv, Straddle
<1>2. /\ q.pc = AfterPurge[old.pc] /\ q.purged = old.purged \cup {PurgedBy[old.pc]}
      /\ q.user = old.user /\ q.op = old.op /\ q.new = old.new
      /\ q.doomed = old.doomed \cup {g \in grants : g.user = old.user /\ g.kind = PurgedBy[old.pc]}
  BY <1>1 DEF Request
<1>3. GrantLocals(q)
  BY <1>1, <1>2 DEF GrantLocals, PurgedSoFar, Purging, Leaving, AfterPurge, PurgedBy
<1>4. Taken(q)
  BY <1>1, <1>2 DEF Taken
<1>5. Current(q)
  BY <1>1, <1>2 DEF Current, AfterPurge, Purging
<1> QED BY <1>1, <1>3, <1>4, <1>5, LocalStep DEF Purging

(* The commit: what is left of a removed user's grants is late, and whoever
   read the old role is behind. *)
LEMMA CommitLeaves ==
  ASSUME HInv, NEW r \in Procs, Commit(r)
  PROVE  Straddle' /\ GrantsNeedMembership' /\ ClaimsAreCurrent'
<1> DEFINE old == req[r]
           u == old.user
           after == IF role[u] = old.new THEN Idle ELSE [Idle EXCEPT !.pc = "revoke", !.user = u]
<1>1. /\ old.pc = "commit" /\ role' = [role EXCEPT ![u] = old.new]
      /\ grants' = grants \ old.doomed /\ late' = late \ old.doomed
      /\ UNCHANGED <<tokens, staleClaim>>
      /\ req'[r] = after
      /\ \A s \in Procs : s # r => req'[s] = [req[s] EXCEPT !.behind = @ \/ req[s].user = u]
  BY DEF Commit
<1>2. /\ old \in Request /\ GrantLocals(old) /\ Taken(old) /\ u \in Users
  BY <1>1, ReqTyped DEF HInv, Straddle, LocalsOK
<1>3. GrantLocals(after) /\ after.purged = {} /\ after.pc \notin {"assign", "issue"}
  BY DEF GrantLocals, PurgedSoFar, Idle, Leaving, Purging
<1>4. \A s \in Procs : s # r => 
        /\ req[s] \in Request
        /\ req'[s].pc = req[s].pc /\ req'[s].op = req[s].op /\ req'[s].new = req[s].new
        /\ req'[s].user = req[s].user /\ req'[s].purged = req[s].purged
        /\ req'[s].doomed = req[s].doomed
        /\ ~req'[s].behind => ~req[s].behind /\ req[s].user # u
  <2> SUFFICES ASSUME NEW s \in Procs, s # r
               PROVE  /\ req[s] \in Request
                      /\ req'[s].pc = req[s].pc /\ req'[s].op = req[s].op
                      /\ req'[s].new = req[s].new /\ req'[s].user = req[s].user
                      /\ req'[s].purged = req[s].purged /\ req'[s].doomed = req[s].doomed
                      /\ ~req'[s].behind => ~req[s].behind /\ req[s].user # u
    OBVIOUS
  <2> DEFINE mark == req[s].behind \/ req[s].user = u
  <2>1. req'[s] = [req[s] EXCEPT !.behind = mark] /\ req[s] \in Request
    BY <1>1, ReqTyped DEF HInv
  <2>2. ~mark => ~req[s].behind /\ req[s].user # u
    OBVIOUS
  <2> HIDE DEF mark
  <2>3. /\ req'[s].pc = req[s].pc /\ req'[s].op = req[s].op
        /\ req'[s].new = req[s].new /\ req'[s].user = req[s].user
        /\ req'[s].purged = req[s].purged /\ req'[s].doomed = req[s].doomed
        /\ req'[s].behind = mark
    BY <2>1 DEF Request
  <2> QED BY <2>1, <2>2, <2>3
<1>5. \A v \in Users : v # u => role'[v] = role[v]
  BY <1>1, <1>2 DEF HInv, IInv, TypeOK
<1>6. ASSUME NEW s \in Procs PROVE GrantLocals(req[s])' /\ Taken(req[s])' /\ Current(req[s])'
  <2>1. CASE s = r
    <3> HIDE DEF after
    <3> QED BY <1>1, <1>3, <2>1 DEF Taken, Current, GrantLocals, PurgedSoFar
  <2>2. CASE s # r
    <3>0. GrantLocals(req[s]) /\ Taken(req[s]) /\ Current(req[s]) /\ LocalsOK(req[s])
      BY ReqTyped DEF HInv, Straddle
    <3>1. GrantLocals(req[s])'
      BY <1>4, <2>2, <3>0 DEF GrantLocals, PurgedSoFar
    <3>2. Taken(req[s])'
      BY <1>1, <1>4, <2>2, <3>0 DEF Taken
    <3>3. Current(req[s])'
      BY <1>4, <1>5, <2>2, <3>0 DEF Current, Member, LocalsOK, Request
    <3> QED BY <3>1, <3>2, <3>3
  <2> QED BY <2>1, <2>2
<1>7. ASSUME NEW g \in grants', g \notin late' PROVE role'[g.user] # None
  <2>1. g \in grants /\ g \notin old.doomed /\ g \notin late /\ g \in Grant
    BY <1>1, <1>7 DEF HInv, IInv, TypeOK
  <2>2. CASE g.user # u
    BY <1>5, <2>1, <2>2 DEF HInv, GrantsNeedMembership, Member, Grant
  <2>3. CASE g.user = u
    <3>1. old.op = "remove" => g.kind \in old.purged
      BY <1>1, <1>2, <2>1, MembershipAssumption DEF GrantLocals, PurgedSoFar, Grant
    <3>2. old.op # "remove"
      BY <1>2, <2>1, <2>3, <3>1 DEF Taken
    <3>3. old.new \in Roles
      BY <1>1, <1>2, <3>2 DEF GrantLocals, Leaving
    <3> QED BY <1>1, <1>2, <2>3, <3>3, MembershipAssumption DEF HInv, IInv, TypeOK
  <2> QED BY <2>2, <2>3
<1>8. ASSUME NEW t \in tokens', t \notin staleClaim' PROVE RevocationDue(t.user)' \/ t.role = role'[t.user]
  <2>0. t \in tokens /\ t \notin staleClaim /\ t \in Token
    BY <1>1, <1>8 DEF HInv, IInv, TypeOK
  <2>1. CASE RevocationDue(t.user)
    <3>1. PICK s \in Procs : req[s].pc = "revoke" /\ req[s].user = t.user
      BY <2>1 DEF RevocationDue
    <3> QED BY <1>1, <1>4, <3>1 DEF RevocationDue
  <2>2. CASE t.role = role[t.user]
    <3>1. CASE t.user # u
      BY <1>5, <2>0, <2>2, <3>1 DEF Token
    <3>2. CASE t.user = u /\ role[u] = old.new
      BY <1>1, <1>2, <2>2, <3>2 DEF HInv, IInv, TypeOK
    <3>3. CASE t.user = u /\ role[u] # old.new
      <4>1. req'[r].pc = "revoke" /\ req'[r].user = u
        BY <1>1, <3>3 DEF Idle
      <4> QED BY <3>3, <4>1 DEF RevocationDue
    <3> QED BY <3>1, <3>2, <3>3
  <2> QED BY <2>0, <2>1, <2>2 DEF HInv, ClaimsAreCurrent
<1> QED BY <1>6, <1>7, <1>8 DEF Straddle, GrantsNeedMembership, ClaimsAreCurrent, Member

LEMMA RevokeLeaves ==
  ASSUME HInv, NEW r \in Procs, Revoke(r)
  PROVE  Straddle' /\ GrantsNeedMembership' /\ ClaimsAreCurrent'
<1>1. /\ req'[r] = Idle /\ UNCHANGED <<role, grants, late>>
      /\ \A s \in Procs : s # r => req'[s] = req[s]
      /\ tokens' = {t \in tokens : t.user # req[r].user} /\ staleClaim' = staleClaim \cap tokens'
  BY DEF Revoke, Become, HInv, IInv, TypeOK
<1>2. Straddle'
  BY <1>1, IdleTaken DEF HInv, Straddle, Taken, Current, Member, GrantLocals, PurgedSoFar
<1>3. GrantsNeedMembership'
  BY <1>1 DEF HInv, GrantsNeedMembership, Member
<1>4. ASSUME NEW t \in tokens', t \notin staleClaim' PROVE RevocationDue(t.user)' \/ t.role = role'[t.user]
  <2>1. t \in tokens \ staleClaim /\ t.user # req[r].user
    BY <1>1, <1>4
  <2>2. RevocationDue(t.user) => RevocationDue(t.user)'
    BY <1>1, <2>1 DEF RevocationDue
  <2> QED BY <1>1, <2>1, <2>2 DEF HInv, ClaimsAreCurrent
<1> QED BY <1>2, <1>3, <1>4 DEF ClaimsAreCurrent

(* An inserted grant has its membership, or came behind a removal. *)
LEMMA GrantLeaves ==
  ASSUME HInv, NEW r \in Procs
  PROVE  /\ AssignInsert(r) => Straddle' /\ GrantsNeedMembership' /\ ClaimsAreCurrent'
         /\ \A g \in grants : Unassign(r, g) => Straddle' /\ GrantsNeedMembership' /\ ClaimsAreCurrent'
<1>1. ASSUME AssignInsert(r) PROVE Straddle' /\ GrantsNeedMembership' /\ ClaimsAreCurrent'
  <2> DEFINE g == [user |-> req[r].user, kind |-> req[r].kind]
  <2>1. /\ req'[r] = Idle /\ UNCHANGED <<role, tokens, staleClaim>> /\ req[r].pc = "assign"
        /\ \A s \in Procs : s # r => req'[s] = req[s]
        /\ grants' = grants \cup {g} /\ late \subseteq late'
        /\ late' = IF g \notin grants /\ BehindRemoval(r, g) THEN late \cup {g} ELSE late
    BY <1>1 DEF AssignInsert, Become, HInv, IInv, TypeOK
  <2>2. ASSUME NEW s \in Procs PROVE GrantLocals(req[s])' /\ Taken(req[s])' /\ Current(req[s])'
    <3>1. CASE s = r
      BY <2>1, <3>1 DEF GrantLocals, PurgedSoFar, Taken, Current, Idle, Leaving, Purging
    <3>2. CASE s # r
      <4>1. GrantLocals(req[s]) /\ Taken(req[s]) /\ Current(req[s])
        BY DEF HInv, Straddle
      <4>2. g \notin grants /\ req[s].user = g.user /\ g.kind \in req[s].purged => g \in late'
        BY <2>1 DEF BehindRemoval
      <4> QED BY <2>1, <3>2, <4>1, <4>2 DEF GrantLocals, PurgedSoFar, Taken, Current, Member
    <3> QED BY <3>1, <3>2
  <2>3. ASSUME NEW x \in grants', x \notin late' PROVE role'[x.user] # None
    <3>1. CASE x \in grants
      BY <2>1, <2>3, <3>1 DEF HInv, GrantsNeedMembership, Member
    <3>2. CASE x \notin grants
      <4>1. x = g /\ ~BehindRemoval(r, g)
        BY <2>1, <2>3, <3>2
      <4>2. ~req[r].behind
        BY <4>1 DEF BehindRemoval
      <4> QED BY <2>1, <4>1, <4>2 DEF HInv, Straddle, Current, Member
    <3> QED BY <3>1, <3>2
  <2>4. ASSUME NEW t \in tokens PROVE RevocationDue(t.user) => RevocationDue(t.user)'
    BY <2>1 DEF RevocationDue
  <2> QED BY <2>1, <2>2, <2>3, <2>4 DEF HInv, Straddle, GrantsNeedMembership, ClaimsAreCurrent, Member
<1>2. ASSUME NEW g \in grants, Unassign(r, g)
      PROVE  Straddle' /\ GrantsNeedMembership' /\ ClaimsAreCurrent'
  <2> DEFINE q == IF g.kind = "group" THEN [Idle EXCEPT !.pc = "revoke", !.user = g.user] ELSE Idle
  <2>1. /\ req'[r] = q /\ UNCHANGED <<role, tokens, staleClaim>> /\ req[r].pc = "idle"
        /\ \A s \in Procs : s # r => req'[s] = req[s]
        /\ grants' = grants \ {g} /\ late' = late \ {g}
    BY <1>2 DEF Unassign, Become, HInv, IInv, TypeOK
  <2>2. GrantLocals(q) /\ q.purged = {} /\ q.pc \notin {"assign", "issue"}
    BY DEF GrantLocals, PurgedSoFar, Idle, Leaving, Purging
  <2>3. ASSUME NEW s \in Procs PROVE GrantLocals(req[s])' /\ Taken(req[s])' /\ Current(req[s])'
    <3>1. CASE s = r
      <4> HIDE DEF q
      <4> QED BY <2>1, <2>2, <3>1 DEF Taken, Current, GrantLocals, PurgedSoFar
    <3>2. CASE s # r
      BY <2>1, <3>2 DEF HInv, Straddle, Taken, Current, Member, GrantLocals, PurgedSoFar
    <3> QED BY <3>1, <3>2
  <2>4. GrantsNeedMembership'
    BY <2>1 DEF HInv, GrantsNeedMembership, Member
  <2>5. ASSUME NEW t \in tokens PROVE RevocationDue(t.user) => RevocationDue(t.user)'
    BY <2>1 DEF RevocationDue
  <2> QED BY <2>1, <2>3, <2>4, <2>5 DEF HInv, Straddle, ClaimsAreCurrent
<1> QED BY <1>1, <1>2

LEMMA TokenLeaves ==
  ASSUME HInv
  PROVE  /\ \A r \in Procs : IssueStore(r) => Straddle' /\ GrantsNeedMembership' /\ ClaimsAreCurrent'
         /\ \A t \in tokens : TokenExpires(t) => Straddle' /\ GrantsNeedMembership' /\ ClaimsAreCurrent'
<1>1. ASSUME NEW r \in Procs, IssueStore(r)
      PROVE  Straddle' /\ GrantsNeedMembership' /\ ClaimsAreCurrent'
  <2> DEFINE t == [user |-> req[r].user, role |-> req[r].new]
  <2>1. /\ req'[r] = Idle /\ UNCHANGED <<role, grants, late>> /\ req[r].pc = "issue"
        /\ \A s \in Procs : s # r => req'[s] = req[s]
        /\ tokens' = tokens \cup {t}
        /\ staleClaim' = IF req[r].behind THEN staleClaim \cup {t} ELSE staleClaim
    BY <1>1 DEF IssueStore, Become, HInv, IInv, TypeOK
  <2>2. Straddle'
    BY <2>1, IdleTaken DEF HInv, Straddle, Taken, Current, Member, GrantLocals, PurgedSoFar
  <2>3. GrantsNeedMembership'
    BY <2>1 DEF HInv, GrantsNeedMembership, Member
  <2>4. ASSUME NEW x \in tokens', x \notin staleClaim'
        PROVE  RevocationDue(x.user)' \/ x.role = role'[x.user]
    <3>1. CASE x \in tokens
      <4>1. RevocationDue(x.user) => RevocationDue(x.user)'
        BY <2>1 DEF RevocationDue
      <4> QED BY <2>1, <2>4, <3>1, <4>1 DEF HInv, ClaimsAreCurrent
    <3>2. CASE x \notin tokens
      <4>1. x = t /\ ~req[r].behind
        BY <2>1, <2>4, <3>2
      <4> QED BY <2>1, <4>1 DEF HInv, Straddle, Current
    <3> QED BY <3>1, <3>2
  <2> QED BY <2>2, <2>3, <2>4 DEF ClaimsAreCurrent
<1>2. ASSUME NEW t \in tokens, TokenExpires(t)
      PROVE  Straddle' /\ GrantsNeedMembership' /\ ClaimsAreCurrent'
  <2>1. UNCHANGED <<role, req, grants, late>> /\ tokens' = tokens \ {t} /\ staleClaim' = staleClaim \ {t}
    BY <1>2 DEF TokenExpires
  <2>2. Straddle' /\ GrantsNeedMembership'
    BY <2>1 DEF HInv, Straddle, Taken, Current, Member, GrantsNeedMembership
  <2>3. ClaimsAreCurrent'
    BY <2>1 DEF HInv, ClaimsAreCurrent, RevocationDue
  <2> QED BY <2>2, <2>3
<1> QED BY <1>1, <1>2

LEMMA CrashLeaves ==
  ASSUME HInv, NEW r \in Procs, Crash(r)
  PROVE  Straddle' /\ GrantsNeedMembership' /\ ClaimsAreCurrent'
<1>1. /\ Become(r, Idle) /\ UNCHANGED <<role, grants, late, tokens>> /\ staleClaim \subseteq staleClaim'
      /\ req[r].pc = "revoke" => \A t \in tokens : t.user = req[r].user => t \in staleClaim'
  BY DEF Crash, Refuse
<1> QED BY <1>1, IdleTaken, LocalStep

(* Who joins had neither grants nor current tokens. *)
LEMMA InviteLeaves ==
  ASSUME HInv, NEW u \in Users, NEW as \in Roles, Invite(u, as)
  PROVE  Straddle' /\ GrantsNeedMembership' /\ ClaimsAreCurrent'
<1>1. /\ role[u] = None /\ UNCHANGED <<req, grants, late, tokens, staleClaim>>
      /\ \A v \in Users : role[v] # None => role'[v] = role[v]
  BY DEF Invite, Member, HInv, IInv, TypeOK
<1>2. ASSUME NEW s \in Procs PROVE GrantLocals(req[s])' /\ Taken(req[s])' /\ Current(req[s])'
  <2>1. GrantLocals(req[s]) /\ Taken(req[s]) /\ Current(req[s]) /\ LocalsOK(req[s]) /\ req[s] \in Request
    BY ReqTyped DEF HInv, Straddle
  <2> QED BY <1>1, <2>1, MembershipAssumption
          DEF GrantLocals, PurgedSoFar, Taken, Current, Member, LocalsOK, Request
<1>3. GrantsNeedMembership'
  BY <1>1 DEF HInv, GrantsNeedMembership, Member, IInv, TypeOK, Grant
<1>4. ASSUME NEW t \in tokens', t \notin staleClaim' PROVE RevocationDue(t.user)' \/ t.role = role'[t.user]
  <2>1. t \in tokens /\ t \in Token
    BY <1>1, <1>4 DEF HInv, IInv, TypeOK
  <2>2. t.role = role[t.user] => t.role = role'[t.user]
    BY <1>1, <2>1, MembershipAssumption DEF Token
  <2> QED BY <1>1, <1>4, <2>1, <2>2 DEF HInv, ClaimsAreCurrent, RevocationDue
<1> QED BY <1>2, <1>3, <1>4 DEF Straddle, ClaimsAreCurrent

-----------------------------------------------------------------------------

LEMMA LeavesInit == Init => HInv
<1> SUFFICES ASSUME Init PROVE HInv
  OBVIOUS
<1>1. Straddle
  BY IdleTaken DEF Init, Straddle
<1> QED BY <1>1, InitOK DEF Init, HInv, GrantsNeedMembership, ClaimsAreCurrent

LEMMA LeavesNext == HInv /\ [Next]_vars => HInv'
<1> SUFFICES ASSUME HInv, [Next]_vars PROVE HInv'
  OBVIOUS
<1>1. IInv'
  BY NextOK DEF HInv
<1> SUFFICES Straddle' /\ GrantsNeedMembership' /\ ClaimsAreCurrent'
  BY <1>1 DEF HInv
<1>2. CASE UNCHANGED vars
  BY <1>2 DEF vars, HInv, Straddle, Taken, Current, Member, GrantsNeedMembership,
              ClaimsAreCurrent, RevocationDue
<1>3. ASSUME NEW r \in Procs, RequestStep(r) PROVE Straddle' /\ GrantsNeedMembership' /\ ClaimsAreCurrent'
  BY <1>3, LockedLeaves, PurgeLeaves, CommitLeaves, RevokeLeaves, GrantLeaves, TokenLeaves
     DEF RequestStep
<1>4. ASSUME NEW r \in Procs, Arrival(r) PROVE Straddle' /\ GrantsNeedMembership' /\ ClaimsAreCurrent'
  BY <1>4, ArrivalLeaves, GrantLeaves DEF Arrival
<1>5. ASSUME NEW r \in Procs, DeadlockVictim(r) \/ Crash(r)
      PROVE  Straddle' /\ GrantsNeedMembership' /\ ClaimsAreCurrent'
  BY <1>5, LockedLeaves, CrashLeaves
<1>6. ASSUME NEW u \in Users, NEW as \in Roles, Invite(u, as)
      PROVE  Straddle' /\ GrantsNeedMembership' /\ ClaimsAreCurrent'
  BY <1>6, InviteLeaves
<1>7. ASSUME NEW t \in tokens, TokenExpires(t)
      PROVE  Straddle' /\ GrantsNeedMembership' /\ ClaimsAreCurrent'
  BY <1>7, TokenLeaves
<1> QED BY <1>2, <1>3, <1>4, <1>5, <1>6, <1>7 DEF Next

(* remove_member leaves no group membership, role or share of the user it
   removes, whatever requests run at the same time, except those whose own
   membership check is older than the purge of their table. *)
THEOREM NoGrantOutlives == Spec => []GrantsNeedMembership
<1>1. HInv => GrantsNeedMembership
  BY DEF HInv
<1> QED BY <1>1, LeavesInit, LeavesNext, PTL DEF Spec

(* After a change of role or a removal and its revocation, no live token claims
   the old role, except one whose issue straddled the change and those of a
   user whose request died before it revoked. *)
THEOREM NoClaimOutlives == Spec => []ClaimsAreCurrent
<1>1. HInv => ClaimsAreCurrent
  BY DEF HInv
<1> QED BY <1>1, LeavesInit, LeavesNext, PTL DEF Spec

-----------------------------------------------------------------------------
(* Who waits for whom. *)

(* Only a request that is past its guards holds a row lock or has deleted rows,
   and it gives both up when it ends. *)
HeldBy == \A u \in Users : lock[u] # None => req[lock[u]].pc \in Holding
DoomedBy == \A r \in Procs : req[r].doomed # {} => req[r].pc \in Leaving

(* The guards of RequestStep's actions. *)
AssignedBy(r) == [user |-> req[r].user, kind |-> req[r].kind]
GoesOn(r) ==
  \/ req[r].pc = "lock" /\ lock[req[r].user] = None
  \/ req[r].pc = "count" /\ (req[r].todo = {} \/ \E u \in req[r].todo : lock[u] \in {None, r})
  \/ req[r].pc \in Leaving \cup {"revoke", "issue"}
  \/ req[r].pc = "assign" /\ ~BeingDeleted(AssignedBy(r))

(* A request waits for the holders of the rows it wants, and for the deletion
   of the key it inserts. *)
WaitsFor(r) ==
  Blockers(r) \cup (IF req[r].pc = "assign" THEN {s \in Procs : AssignedBy(r) \in req[s].doomed} ELSE {})

(* Among those that wait only for each other, one can go on, or some are a
   deadlock that Postgres will find: no request waits for one that is gone. *)
SomebodyGoesOn ==
  \A W \in SUBSET Procs :
    (\A r \in W : WaitsFor(r) \subseteq W) /\ (\E r \in W : req[r].pc # "idle")
      => \/ \E s \in W : GoesOn(s)
         \/ \E D \in (SUBSET W) \ {{}} : \A s \in D : Blockers(s) # {} /\ Blockers(s) \subseteq D

LEMMA WaitStep ==
  ASSUME IInv, HeldBy, DoomedBy, NEW r \in Procs, NEW q \in Request, Become(r, q),
         \A u \in Users : lock'[u] \in {lock[u], None} \/ (lock'[u] = r /\ q.pc \in Holding),
         q.pc \notin Holding => \A u \in Users : lock'[u] # r,
         q.doomed # {} => q.pc \in Leaving
  PROVE  HeldBy' /\ DoomedBy'
<1>1. /\ req'[r] = q /\ \A s \in Procs : s # r => req'[s] = req[s]
      /\ lock \in [Users -> Procs \cup {None}]
  BY DEF IInv, TypeOK, Become
<1>2. HeldBy'
  <2>1. ASSUME NEW u \in Users, lock'[u] # None PROVE req'[lock'[u]].pc \in Holding
    <3>1. CASE lock'[u] = r
      BY <1>1, <2>1, <3>1
    <3>2. CASE lock'[u] # r
      BY <1>1, <2>1, <3>2 DEF HeldBy
    <3> QED BY <3>1, <3>2
  <2> QED BY <2>1 DEF HeldBy, Holding, Leaving, Purging
<1>3. DoomedBy'
  BY <1>1 DEF DoomedBy, Leaving, Purging
<1> QED BY <1>2, <1>3

(* A request outside the locked section holds nothing. *)
LEMMA HoldsNothing ==
  ASSUME IInv, HeldBy, NEW r \in Procs, req[r].pc \notin Holding
  PROVE  \A u \in Users : lock[u] # r
BY MembershipAssumption DEF HeldBy

LEMMA RefuseWaits ==
  ASSUME IInv, HeldBy, DoomedBy, NEW r \in Procs, Refuse(r)
  PROVE  HeldBy' /\ DoomedBy'
<1>1. /\ Idle.doomed = {} /\ Idle \in Request /\ Idle.pc \notin Holding
  BY IdleOK DEF Idle
<1>2. \A u \in Users : lock'[u] \in {lock[u], None} /\ lock'[u] # r
  BY MembershipAssumption DEF Refuse, Unlocked
<1> QED BY <1>1, <1>2, WaitStep DEF Refuse

(* A request moves outside the locked section. *)
LEMMA OutsideWaits ==
  ASSUME IInv, HeldBy, DoomedBy, NEW r \in Procs, NEW q \in Request, Become(r, q), UNCHANGED lock,
         req[r].pc \notin Holding, q.doomed = {}
  PROVE  HeldBy' /\ DoomedBy'
BY HoldsNothing, WaitStep

LEMMA ArrivalWaits ==
  ASSUME IInv, HeldBy, DoomedBy, NEW r \in Procs, Arrival(r)
  PROVE  HeldBy' /\ DoomedBy'
<1>1. ASSUME NEW q \in Request, Become(r, q), q.doomed = {}, UNCHANGED lock, req[r].pc = "idle"
      PROVE  HeldBy' /\ DoomedBy'
  BY <1>1, OutsideWaits DEF Holding, Leaving, Purging
<1>2. ASSUME NEW u \in Users, NEW actor \in {"owner", "other"}, RemoveMember(r, u, actor)
      PROVE  HeldBy' /\ DoomedBy'
  <2> DEFINE q == [Idle EXCEPT !.pc = "lock", !.op = "remove", !.user = u, !.actor = actor]
  <2>1. q \in Request /\ q.doomed = {}
    BY DEF Idle, Request
  <2> QED BY <1>1, <1>2, <2>1 DEF RemoveMember
<1>3. ASSUME NEW u \in Users, NEW actor \in {"owner", "other"}, NEW new \in Roles,
             ChangeRole(r, u, new, actor)
      PROVE  HeldBy' /\ DoomedBy'
  <2> DEFINE q == [Idle EXCEPT !.pc = "lock", !.op = "change", !.user = u, !.new = new,
                               !.actor = actor]
  <2>1. q \in Request /\ q.doomed = {}
    BY DEF Idle, Request
  <2> QED BY <1>1, <1>3, <2>1 DEF ChangeRole
<1>4. ASSUME NEW u \in Users, NEW k \in Kinds, Assign(r, u, k)
      PROVE  HeldBy' /\ DoomedBy'
  <2> DEFINE q == [Idle EXCEPT !.pc = "assign", !.user = u, !.kind = k]
  <2>1. q \in Request /\ q.doomed = {}
    BY DEF Idle, Request
  <2> QED BY <1>1, <1>4, <2>1 DEF Assign
<1>5. ASSUME NEW g \in grants, Unassign(r, g)
      PROVE  HeldBy' /\ DoomedBy'
  <2>1. g.user \in Users
    BY <1>5 DEF IInv, TypeOK, Grant
  <2> DEFINE due == [Idle EXCEPT !.pc = "revoke", !.user = g.user]
             q == IF g.kind = "group" THEN due ELSE Idle
  <2>2. due \in Request /\ due.doomed = {}
    BY <2>1 DEF Idle, Request
  <2>3. q \in Request /\ q.doomed = {}
    BY <2>2, IdleOK DEF Idle
  <2> QED BY <1>1, <1>5, <2>3 DEF Unassign
<1>6. ASSUME NEW u \in Users, Issue(r, u)
      PROVE  HeldBy' /\ DoomedBy'
  <2>1. role[u] \in Roles
    BY <1>6 DEF Issue, Member, IInv, TypeOK
  <2> DEFINE q == [Idle EXCEPT !.pc = "issue", !.user = u, !.new = role[u]]
  <2>2. q \in Request /\ q.doomed = {}
    BY <2>1 DEF Idle, Request
  <2> QED BY <1>1, <1>6, <2>2 DEF Issue
<1> QED BY <1>2, <1>3, <1>4, <1>5, <1>6 DEF Arrival

LEMMA LockedWaits ==
  ASSUME IInv, HeldBy, DoomedBy, NEW r \in Procs,
         LockTarget(r) \/ CountOwner(r) \/ CountDone(r) \/ Purge(r)
  PROVE  HeldBy' /\ DoomedBy'
<1>1. CASE Refuse(r)
  BY <1>1, RefuseWaits
<1>2. CASE ~Refuse(r)
  <2>1. req[r] \in Request /\ IInv' /\ (req[r].doomed # {} => req[r].pc \in Leaving)
    BY NextOK DEF IInv, TypeOK, Next, RequestStep, DoomedBy
  <2>2. req[r].pc \in {"lock", "count"} => req[r].doomed = {}
    BY <2>1 DEF Leaving, Purging
  <2>3. req'[r] \in Request /\ Become(r, req'[r])
    BY <1>2, <2>1 DEF IInv, TypeOK, LockTarget, CountOwner, CountDone, Purge, Become
  <2>4. req'[r].pc \in Holding /\ (req'[r].doomed # {} => req'[r].pc \in Leaving)
    <3>1. CASE LockTarget(r)
      <4> DEFINE q == IF GivesUpOwner(req[r], role[req[r].user])
                        THEN [req[r] EXCEPT !.pc = "count", !.todo = Owners]
                        ELSE [req[r] EXCEPT !.pc = AfterGuards(req[r])]
      <4>1. req'[r] = q /\ req[r].pc = "lock"
        BY <1>2, <3>1 DEF LockTarget, Become, IInv, TypeOK
      <4>2. q.pc \in {"count", AfterGuards(req[r])} /\ q.doomed = req[r].doomed
        BY <2>1 DEF Request
      <4> HIDE DEF q
      <4> QED BY <2>2, <4>1, <4>2 DEF AfterGuards, Holding, Leaving, Purging
    <3>2. CASE CountOwner(r)
      <4>1. PICK u \in req[r].todo :
              Become(r, [req[r] EXCEPT !.todo = @ \ {u},
                                       !.counted = IF role[u] = "owner" THEN @ \cup {u} ELSE @])
        BY <3>2 DEF CountOwner
      <4> DEFINE q == [req[r] EXCEPT !.todo = @ \ {u},
                                     !.counted = IF role[u] = "owner" THEN @ \cup {u} ELSE @]
      <4>2. req'[r] = q /\ req[r].pc = "count"
        BY <3>2, <4>1 DEF CountOwner, Become, IInv, TypeOK
      <4>3. q.pc = req[r].pc /\ q.doomed = req[r].doomed
        BY <2>1 DEF Request
      <4> HIDE DEF q
      <4> QED BY <2>2, <4>2, <4>3 DEF Holding
    <3>3. CASE CountDone(r)
      BY <1>2, <2>1, <2>2, <3>3
         DEF CountDone, Become, AfterGuards, Holding, Leaving, Purging, IInv, TypeOK, Request
    <3>4. CASE Purge(r)
      <4> DEFINE q == [req[r] EXCEPT
                         !.pc = AfterPurge[req[r].pc], !.purged = @ \cup {PurgedBy[req[r].pc]},
                         !.doomed = @ \cup {g \in grants : g.user = req[r].user
                                                           /\ g.kind = PurgedBy[req[r].pc]}]
      <4>1. req'[r] = q /\ req[r].pc \in Purging
        BY <3>4 DEF Purge, Become, IInv, TypeOK
      <4>2. q.pc = AfterPurge[req[r].pc]
        BY <2>1 DEF Request
      <4> HIDE DEF q
      <4>3. AfterPurge[req[r].pc] \in Leaving
        BY <4>1 DEF AfterPurge, Leaving, Purging
      <4> QED BY <4>1, <4>2, <4>3 DEF Holding
    <3> QED BY <3>1, <3>2, <3>3, <3>4
  <2>5. \A u \in Users : lock'[u] \in {lock[u], None} \/ lock'[u] = r
    BY <1>2 DEF LockTarget, CountOwner, CountDone, Purge, IInv, TypeOK
  <2> QED BY <2>3, <2>4, <2>5, WaitStep
<1> QED BY <1>1, <1>2

LEMMA CommitWaits ==
  ASSUME IInv, HeldBy, DoomedBy, NEW r \in Procs, Commit(r)
  PROVE  HeldBy' /\ DoomedBy'
<1>1. /\ \A u \in Users : lock'[u] \in {lock[u], None} /\ lock'[u] # r
      /\ lock \in [Users -> Procs \cup {None}]
  BY MembershipAssumption DEF Commit, Unlocked, IInv, TypeOK
<1>2. req'[r].doomed = {}
  BY DEF Commit, Idle
<1>3. \A s \in Procs : s # r => req'[s].pc = req[s].pc /\ req'[s].doomed = req[s].doomed
  BY DEF Commit, IInv, TypeOK, Request
<1>4. HeldBy'
  BY <1>1, <1>3 DEF HeldBy, Holding, Leaving, Purging
<1>5. DoomedBy'
  BY <1>2, <1>3 DEF DoomedBy, Leaving, Purging
<1> QED BY <1>4, <1>5

LEMMA ServedWaits ==
  ASSUME IInv, HeldBy, DoomedBy, NEW r \in Procs, Revoke(r) \/ AssignInsert(r) \/ IssueStore(r)
  PROVE  HeldBy' /\ DoomedBy'
<1>1. Become(r, Idle) /\ UNCHANGED lock /\ req[r].pc \in {"revoke", "assign", "issue"}
  BY DEF Revoke, AssignInsert, IssueStore
<1>2. Idle \in Request /\ Idle.doomed = {}
  BY IdleOK DEF Idle
<1> QED BY <1>1, <1>2, OutsideWaits DEF Holding, Leaving, Purging

LEMMA WaitInit == Init => HeldBy /\ DoomedBy
BY DEF Init, HeldBy, DoomedBy, Idle

LEMMA WaitNext == IInv /\ HeldBy /\ DoomedBy /\ [Next]_vars => HeldBy' /\ DoomedBy'
<1> SUFFICES ASSUME IInv, HeldBy, DoomedBy, [Next]_vars PROVE HeldBy' /\ DoomedBy'
  OBVIOUS
<1>1. ASSUME NEW r \in Procs, RequestStep(r) PROVE HeldBy' /\ DoomedBy'
  BY <1>1, LockedWaits, CommitWaits, ServedWaits DEF RequestStep
<1>2. ASSUME NEW r \in Procs, Arrival(r) PROVE HeldBy' /\ DoomedBy'
  BY <1>2, ArrivalWaits
<1>3. ASSUME NEW r \in Procs, DeadlockVictim(r) \/ Crash(r) PROVE HeldBy' /\ DoomedBy'
  BY <1>3, RefuseWaits DEF DeadlockVictim, Crash
<1>4. CASE \/ \E u \in Users, as \in Roles : Invite(u, as)
           \/ \E t \in tokens : TokenExpires(t)
           \/ UNCHANGED vars
  <2>1. UNCHANGED <<lock, req>>
    BY <1>4 DEF Invite, TokenExpires, vars
  <2> QED BY <2>1 DEF HeldBy, DoomedBy, Holding, Leaving, Purging
<1> QED BY <1>1, <1>2, <1>3, <1>4 DEF Next

(* However requests queue for the rows of a workspace: as long as one is in
   flight, one of those it waits for can go on, or they wait in a circle, which
   Postgres breaks.  No lock and no deleted key is left behind by a request
   that ended or died.  (update_member_role, remove_member, _count_owners) *)
THEOREM SomebodyCanGoOn == Spec => []SomebodyGoesOn
<1>1. ASSUME IInv, HeldBy, DoomedBy PROVE SomebodyGoesOn
  <2> SUFFICES ASSUME NEW W \in SUBSET Procs, \A r \in W : WaitsFor(r) \subseteq W,
                      \E r \in W : req[r].pc # "idle", \A s \in W : ~GoesOn(s)
               PROVE  \E D \in (SUBSET W) \ {{}} :
                        \A s \in D : Blockers(s) # {} /\ Blockers(s) \subseteq D
    BY DEF SomebodyGoesOn
  <2> DEFINE D == {s \in W : req[s].pc # "idle"}
  <2>1. ASSUME NEW s \in D PROVE Blockers(s) # {} /\ Blockers(s) \subseteq D
    <3>1. /\ req[s] \in Request /\ LocalsOK(req[s]) /\ req[s].pc # "idle" /\ ~GoesOn(s)
          /\ Blockers(s) \subseteq W /\ s \in Procs
          /\ lock \in [Users -> Procs \cup {None}]
      BY <1>1, <2>1 DEF IInv, TypeOK, ReqInv, WaitsFor
    <3>2. req[s].user \in Users /\ req[s].todo \in SUBSET Users
      BY <3>1 DEF LocalsOK, Request
    <3>3. req[s].pc \in {"lock", "count"}
      <4>1. req[s].pc # "assign"
        <5> SUFFICES ASSUME req[s].pc = "assign" PROVE FALSE
          OBVIOUS
        <5>1. PICK t \in Procs : AssignedBy(s) \in req[t].doomed
          BY <3>1 DEF GoesOn, BeingDeleted
        <5>2. t \in W
          BY <2>1, <5>1 DEF WaitsFor
        <5>3. req[t].pc \in Leaving
          BY <1>1, <5>1 DEF DoomedBy
        <5> QED BY <5>2, <5>3 DEF GoesOn
      <4> QED BY <3>1, <4>1 DEF Request, GoesOn, Leaving
    <3>4. CASE req[s].pc = "lock"
      <4>1. Blockers(s) = {lock[req[s].user]} \ {None} /\ lock[req[s].user] # None
        BY <3>1, <3>4 DEF Blockers, GoesOn
      <4>2. req[lock[req[s].user]].pc \in Holding
        BY <1>1, <3>2, <4>1 DEF HeldBy
      <4> QED BY <3>1, <4>1, <4>2 DEF Holding, Leaving, Purging
    <3>5. CASE req[s].pc = "count"
      <4>1. req[s].todo # {} /\ \A u \in req[s].todo : lock[u] \notin {None, s}
        BY <3>1, <3>5 DEF GoesOn
      <4>2. Blockers(s) = {lock[u] : u \in req[s].todo}
        BY <3>5, <4>1 DEF Blockers
      <4>3. \A u \in req[s].todo : req[lock[u]].pc \in Holding
        BY <1>1, <3>2, <4>1 DEF HeldBy
      <4> QED BY <3>1, <4>1, <4>2, <4>3 DEF Holding, Leaving, Purging
    <3> QED BY <3>3, <3>4, <3>5
  <2>2. D \in SUBSET W /\ D # {}
    OBVIOUS
  <2> HIDE DEF D
  <2>3. D \in (SUBSET W) \ {{}}
    BY <2>2
  <2> QED BY <2>1, <2>3
<1>2. Init => IInv /\ HeldBy /\ DoomedBy
  BY InitOK, WaitInit
<1>3. IInv /\ HeldBy /\ DoomedBy /\ [Next]_vars => (IInv /\ HeldBy /\ DoomedBy)'
  BY NextOK, WaitNext
<1> QED BY <1>1, <1>2, <1>3, PTL DEF Spec
=============================================================================
