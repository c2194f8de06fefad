------------------------ MODULE TokenSessionsProofs ------------------------
(***************************************************************************)
(* Theorems of TokenSessions, for every set of users, client apps, pairs   *)
(* and handlers, any number of crashes and every workload.                 *)
(***************************************************************************)
EXTENDS TokenSessions, TLAPS

(* What a handler's locals hold at each program counter. *)
Changing == {"mark", "mark_tx", "clear", "clear_tx"}

LocalsOK(q) ==
  /\ q.pc \in Rotating \cup {"iss_ws", "iss_store", "commit_off", "commit_on"} => q.user \in Users
  /\ q.then \in Changing => q.user \in Users
  /\ q.then = "own_bl" => q.own \in Pairs
  /\ q.pc \in Changing \cup {"own_bl"} => q.then = q.pc
  /\ q.pc \in Rotating \cup Revoking => q.fam \in Pairs
  /\ q.pc \in {"all_read", "all_next", "all_del"} => q.key \in Keys

ReqInv == \A r \in Procs : LocalsOK(req[r])
TypeInv == TypeOK /\ ReqInv

(* A handler that takes well-formed locals leaves all handlers well formed. *)
LEMMA BecomeOK ==
  ASSUME TypeInv, NEW r \in Procs, NEW q \in Request, LocalsOK(q), Become(r, q)
  PROVE  req' \in [Procs -> Request] /\ ReqInv'
  BY DEF TypeInv, TypeOK, ReqInv, Become

LEMMA IdleOK == Idle \in Request /\ LocalsOK(Idle)
  BY DEF Idle, Request, Labels, LocalsOK, Changing, Rotating, Revoking, IndexWindow

LEMMA RevokeOK == \A f \in Pairs : Revoke(f) \in Request /\ LocalsOK(Revoke(f))
  BY DEF Revoke, Idle, Request, Labels, LocalsOK, Changing, Rotating, Revoking, IndexWindow

LEMMA GotoOK ==
  ASSUME NEW q \in Request, LocalsOK(q), NEW l \in Labels,
         LocalsOK([q EXCEPT !.pc = l])
  PROVE  [q EXCEPT !.pc = l] \in Request
  BY DEF Request

LEMMA FamilyDoneOK ==
  ASSUME NEW q \in Request, LocalsOK(q)
  PROVE  FamilyDone(q) \in Request /\ LocalsOK(FamilyDone(q))
<1>1. CASE q.key = None
  BY <1>1, IdleOK DEF FamilyDone
<1>2. CASE q.key # None
  BY <1>2, ConstAssumption DEF FamilyDone, Request, Labels, LocalsOK, Changing, Rotating, Revoking, IndexWindow
<1> QED BY <1>1, <1>2

LEMMA IndexDoneOK ==
  ASSUME NEW q \in Request, LocalsOK(q)
  PROVE  IndexDone(q) \in Request /\ LocalsOK(IndexDone(q))
<1>1. CASE q.then = "idle"
  BY <1>1, IdleOK DEF IndexDone
<1>2. CASE q.then # "idle"
  <2> DEFINE d == [q EXCEPT !.pc = q.then, !.key = None, !.todo = {}, !.cohort = {}]
  <2>0. q.then \in Labels
    BY DEF Request, Labels
  <2>1. d \in Request /\ d.pc = q.then /\ d.then = q.then /\ d.user = q.user /\ d.own = q.own
    BY <2>0 DEF Request
  <2>2. q.then \in Changing \cup {"own_bl"}
    BY <1>2 DEF Request, Changing
  <2>3. LocalsOK(d)
    BY <2>1, <2>2 DEF LocalsOK, Changing, Rotating, Revoking
  <2> QED BY <1>2, <2>1, <2>3 DEF IndexDone
<1> QED BY <1>1, <1>2

LEMMA RevokeIndexOK ==
  ASSUME TypeInv, NEW k \in Keys, NEW u \in Users \cup {None}, NEW own \in Pairs \cup {None},
         NEW then \in {"idle", "own_bl", "mark", "mark_tx"},
         then \in Changing => u \in Users,
         then = "own_bl" => own \in Pairs
  PROVE  /\ RevokeIndex(k, u, then, own) \in Request
         /\ LocalsOK(RevokeIndex(k, u, then, own))
<1> DEFINE q == RevokeIndex(k, u, then, own)
<1>1. rt \cap OfKey(k) \in SUBSET Pairs
  BY DEF TypeInv, TypeOK
<1>2. q \in Request
  BY <1>1 DEF RevokeIndex, Idle, Request, Labels
<1>3. q.pc = "all_read" /\ q.key = k /\ q.user = u /\ q.then = then /\ q.own = own
  BY DEF RevokeIndex, Idle
<1> HIDE DEF q
<1>4. LocalsOK(q)
  BY <1>3 DEF LocalsOK, Changing, Rotating, Revoking
<1> QED BY <1>2, <1>4 DEF q

LEMMA InitTypeInv == Init => TypeInv
  BY ConstAssumption, IdleOK DEF Init, TypeInv, TypeOK, ReqInv

(* Loading the state that a store or a revocation leaves into the type. *)
LEMMA StoreTypeOK ==
  ASSUME TypeOK, NEW q \in Pairs, NEW u \in Users, NEW a \in Apps \cup {None},
         NEW f \in Pairs, Store(q, u, a, f)
  PROVE  /\ jwt' \in [Pairs -> Jwt \cup {None}]
         /\ stage' \in [Pairs -> {"new", "access", "refresh", "dead"}]
         /\ rt' \in SUBSET Pairs /\ bl' \in SUBSET Pairs /\ escaped' \in SUBSET Pairs
         /\ rtf' \in [Pairs -> SUBSET Pairs] /\ rta' \in [Pairs -> SUBSET Pairs]
         /\ idx' \in [Keys -> SUBSET Pairs]
<1>1. [user |-> u, app |-> a, fam |-> f] \in Jwt
  BY DEF Jwt
<1> QED BY <1>1 DEF TypeOK, Store

(* The rest of the state: what TypeOK says besides the handlers. *)
StateOK ==
  /\ active \in [Users -> BOOLEAN] /\ standing \in [Users -> BOOLEAN]
  /\ deact \in SUBSET Users
  /\ jwt \in [Pairs -> Jwt \cup {None}]
  /\ stage \in [Pairs -> {"new", "access", "refresh", "dead"}]
  /\ rt \in SUBSET Pairs /\ bl \in SUBSET Pairs /\ escaped \in SUBSET Pairs
  /\ rtf \in [Pairs -> SUBSET Pairs] /\ rta \in [Pairs -> SUBSET Pairs]
  /\ idx \in [Keys -> SUBSET Pairs]
  /\ crashes \in 0 .. MaxCrashes

LEMMA TypeSplit == TypeOK <=> StateOK /\ req \in [Procs -> Request]
  BY DEF TypeOK, StateOK

(* The combination every handler step below uses. *)
LEMMA StepOK ==
  ASSUME TypeInv, NEW r \in Procs, NEW q \in Request, LocalsOK(q), Become(r, q), StateOK'
  PROVE  TypeInv'
<1>1. req' \in [Procs -> Request] /\ ReqInv'
  BY BecomeOK
<1> QED BY <1>1, TypeSplit DEF TypeInv, TypeOK, StateOK

LEMMA SameState ==
  ASSUME TypeInv, UNCHANGED <<db, deact, redis, crashes>>
  PROVE  StateOK'
  BY DEF TypeInv, TypeOK, StateOK, db, redis

(* The locals of a handler, with the fields each program counter promises. *)
LEMMA ReqTyped ==
  ASSUME TypeInv, NEW r \in Procs
  PROVE  req[r] \in Request /\ LocalsOK(req[r])
  BY DEF TypeInv, TypeOK, ReqInv

(* Moving the program counter to a label that promises no more than the
   current one keeps the locals well formed. *)
LEMMA GotoStep ==
  ASSUME TypeInv, NEW r \in Procs, NEW l \in Labels, Goto(r, l), StateOK',
         l \in Rotating \cup {"iss_store", "commit_off", "commit_on"} => req[r].user \in Users,
         l \in Rotating => req[r].fam \in Pairs,
         l = "all_del" => req[r].key \in Keys,
         l \in Rotating \cup {"iss_store", "commit_off", "commit_on", "all_del"}
  PROVE  TypeInv'
<1> DEFINE q == [req[r] EXCEPT !.pc = l]
<1>1. req[r] \in Request /\ LocalsOK(req[r])
  BY ReqTyped
<1>2. q \in Request
  BY <1>1 DEF Request
<1>3. q.pc = l /\ q.user = req[r].user /\ q.fam = req[r].fam /\ q.key = req[r].key
      /\ q.then = req[r].then /\ q.own = req[r].own
  BY <1>1 DEF Request
<1>4. Become(r, q)
  BY DEF Goto
<1> HIDE DEF q
<1>5. LocalsOK(q)
  BY <1>1, <1>3 DEF LocalsOK, Rotating, Revoking, Changing
<1> QED BY <1>2, <1>4, <1>5, StepOK

(* Inside a revocation only the program counter, the family, the index and
   the sets read so far change. *)
LEMMA RevokingLocals ==
  ASSUME NEW q \in Request, LocalsOK(q), NEW d \in Request,
         d.user = q.user, d.then = q.then, d.own = q.own,
         \/ d.pc \in Revoking /\ d.fam \in Pairs
         \/ d.pc = "all_next" /\ d.key \in Keys
  PROVE  LocalsOK(d)
  BY DEF LocalsOK, Revoking, Rotating, Changing

(* One step per action. *)
LEMMA LoginTypeInv ==
  ASSUME TypeInv, NEW r \in Procs
  PROVE  /\ \A u \in Users, a \in Apps \cup {None} : LoginUser(r, u, a) => TypeInv'
         /\ LoginStanding(r) => TypeInv'
         /\ LoginStore(r) => TypeInv'
         /\ LoginFails(r) => TypeInv'
<1>0. req[r] \in Request /\ LocalsOK(req[r])
  BY ReqTyped
<1>1. ASSUME NEW u \in Users, NEW a \in Apps \cup {None}, LoginUser(r, u, a) PROVE TypeInv'
  <2> DEFINE q == [Idle EXCEPT !.pc = "iss_ws", !.user = u, !.app = a]
  <2>1. q \in Request /\ LocalsOK(q)
    BY DEF Idle, Request, Labels, LocalsOK, Changing, Rotating, Revoking
  <2> QED BY <1>1, <2>1, StepOK, SameState DEF LoginUser
<1>2. ASSUME LoginStanding(r) PROVE TypeInv'
  BY <1>0, <1>2, GotoStep, SameState DEF LoginStanding, LocalsOK, Labels, Rotating
<1>3. ASSUME LoginStore(r) PROVE TypeInv'
  <2>1. PICK q \in Pairs : Store(q, req[r].user, req[r].app, q)
    BY <1>3 DEF LoginStore
  <2>2. req[r].user \in Users /\ req[r].app \in Apps \cup {None}
    BY <1>0, <1>3 DEF LoginStore, LocalsOK, Request
  <2>3. StateOK'
    BY <1>3, <2>1, <2>2, StoreTypeOK DEF LoginStore, StateOK, TypeInv, TypeOK, db
  <2> QED BY <1>3, <2>3, StepOK, IdleOK DEF LoginStore
<1>4. ASSUME LoginFails(r) PROVE TypeInv'
  BY <1>4, StepOK, SameState, IdleOK DEF LoginFails
<1> QED BY <1>1, <1>2, <1>3, <1>4

LEMMA RotateTypeInv ==
  ASSUME TypeInv, NEW r \in Procs
  PROVE  /\ \A p \in Pairs : Consume(r, p) \/ DetectReuse(r, p) => TypeInv'
         /\ RotateUser(r) \/ RotateStanding(r) => TypeInv'
         /\ RotateStore(r) => TypeInv'
         /\ RotateFails(r) => TypeInv'
<1>0. req[r] \in Request /\ LocalsOK(req[r])
  BY ReqTyped
<1>1. ASSUME NEW p \in Pairs, Consume(r, p) PROVE TypeInv'
  <2> DEFINE q == [Idle EXCEPT !.pc = "rot_user", !.user = jwt[p].user,
                               !.app = jwt[p].app, !.fam = Fam(p)]
  <2>1. jwt[p] \in Jwt
    BY <1>1 DEF Consume, Presented, Minted, TypeInv, TypeOK
  <2>2. q \in Request /\ LocalsOK(q)
    BY <2>1 DEF Jwt, Fam, Idle, Request, Labels, LocalsOK, Changing, Rotating, Revoking
  <2>3. StateOK'
    BY <1>1 DEF Consume, StateOK, TypeInv, TypeOK, db
  <2> QED BY <1>1, <2>2, <2>3, StepOK DEF Consume
<1>2. ASSUME NEW p \in Pairs, DetectReuse(r, p) PROVE TypeInv'
  <2>1. Fam(p) \in Pairs
    BY <1>2 DEF DetectReuse, Presented, Minted, Fam, Jwt, TypeInv, TypeOK
  <2> QED BY <1>2, <2>1, StepOK, SameState, RevokeOK DEF DetectReuse
<1>3. ASSUME RotateUser(r) PROVE TypeInv'
  BY <1>0, <1>3, GotoStep, SameState DEF RotateUser, LocalsOK, Labels, Rotating
<1>4. ASSUME RotateStanding(r) PROVE TypeInv'
  BY <1>0, <1>4, GotoStep, SameState DEF RotateStanding, LocalsOK, Labels, Rotating
<1>5. ASSUME RotateStore(r) PROVE TypeInv'
  <2>1. PICK q \in Pairs : Store(q, req[r].user, req[r].app, req[r].fam)
    BY <1>5 DEF RotateStore
  <2>2. req[r].user \in Users /\ req[r].app \in Apps \cup {None} /\ req[r].fam \in Pairs
    BY <1>0, <1>5 DEF RotateStore, LocalsOK, Request, Rotating
  <2>3. StateOK'
    BY <1>5, <2>1, <2>2, StoreTypeOK DEF RotateStore, StateOK, TypeInv, TypeOK, db
  <2> QED BY <1>5, <2>3, StepOK, IdleOK DEF RotateStore
<1>6. ASSUME RotateFails(r) PROVE TypeInv'
  <2>1. req[r].fam \in Pairs
    BY <1>0, <1>6 DEF RotateFails, LocalsOK
  <2> QED BY <1>6, <2>1, StepOK, SameState, RevokeOK DEF RotateFails
<1> QED BY <1>1, <1>2, <1>3, <1>4, <1>5, <1>6

LEMMA FamilyTypeInv ==
  ASSUME TypeInv, NEW r \in Procs
  PROVE  /\ ReadRtf(r) \/ ReadRta(r) => TypeInv'
         /\ DeleteFamily(r) \/ BlacklistNext(r) \/ FamilyRevoked(r) => TypeInv'
<1>0. req[r] \in Request /\ LocalsOK(req[r])
  BY ReqTyped
<1>1. ASSUME ReadRtf(r) PROVE TypeInv'
  <2> DEFINE q == [req[r] EXCEPT !.pc = "rvk_rta", !.jtis = rtf[req[r].fam]]
  <2>1. req[r].fam \in Pairs
    BY <1>0, <1>1 DEF ReadRtf, LocalsOK, Revoking
  <2>2. /\ q \in Request /\ q.pc \in Revoking /\ q.fam \in Pairs
        /\ q.user = req[r].user /\ q.then = req[r].then /\ q.own = req[r].own
    BY <1>0, <2>1 DEF TypeInv, TypeOK, Request, Labels, Revoking, IndexWindow
  <2>3. LocalsOK(q)
    BY <1>0, <2>2, RevokingLocals
  <2> QED BY <1>1, <2>2, <2>3, StepOK, SameState DEF ReadRtf
<1>2. ASSUME ReadRta(r) PROVE TypeInv'
  <2> DEFINE found == rta[req[r].fam]
             q == [req[r] EXCEPT !.pc = "rvk_del", !.ajtis = found]
  <2>1. req[r].fam \in Pairs
    BY <1>0, <1>2 DEF ReadRta, LocalsOK, Revoking
  <2>2. /\ q \in Request /\ q.pc \in Revoking /\ q.fam \in Pairs
        /\ q.user = req[r].user /\ q.then = req[r].then /\ q.own = req[r].own
    BY <1>0, <2>1 DEF TypeInv, TypeOK, Request, Labels, Revoking, IndexWindow
  <2>3. LocalsOK(q)
    BY <1>0, <2>2, RevokingLocals
  <2>4. Become(r, q) \/ Become(r, FamilyDone(req[r]))
    BY <1>2 DEF ReadRta
  <2> QED BY <1>0, <1>2, <2>2, <2>3, <2>4, StepOK, SameState, FamilyDoneOK DEF ReadRta
<1>3. ASSUME DeleteFamily(r) PROVE TypeInv'
  <2> DEFINE q == [req[r] EXCEPT !.pc = "rvk_bl", !.jtis = {}]
  <2>1. req[r].fam \in Pairs
    BY <1>0, <1>3 DEF DeleteFamily, LocalsOK, Revoking
  <2>2. /\ q \in Request /\ q.pc \in Revoking /\ q.fam \in Pairs
        /\ q.user = req[r].user /\ q.then = req[r].then /\ q.own = req[r].own
    BY <1>0, <2>1 DEF Request, Labels, Revoking, IndexWindow
  <2>3. LocalsOK(q)
    BY <1>0, <2>2, RevokingLocals
  <2>4. StateOK'
    BY <1>3 DEF DeleteFamily, StateOK, TypeInv, TypeOK, db
  <2> QED BY <1>3, <2>2, <2>3, <2>4, StepOK DEF DeleteFamily
<1>4. ASSUME BlacklistNext(r) PROVE TypeInv'
  <2>1. PICK p \in req[r].ajtis : /\ bl' = bl \cup {p}
                                  /\ Become(r, [req[r] EXCEPT !.ajtis = @ \ {p}])
    BY <1>4 DEF BlacklistNext
  <2> DEFINE q == [req[r] EXCEPT !.ajtis = @ \ {p}]
  <2>2. q \in Request /\ LocalsOK(q)
    BY <1>0 DEF Request, LocalsOK
  <2>3. StateOK'
    BY <1>0, <1>4, <2>1 DEF BlacklistNext, Request, StateOK, TypeInv, TypeOK, db
  <2> QED BY <2>1, <2>2, <2>3, StepOK
<1>5. ASSUME FamilyRevoked(r) PROVE TypeInv'
  BY <1>0, <1>5, StepOK, SameState, FamilyDoneOK DEF FamilyRevoked
<1> QED BY <1>1, <1>2, <1>3, <1>4, <1>5

LEMMA IndexTypeInv ==
  ASSUME TypeInv, NEW r \in Procs
  PROVE  /\ ReadIndex(r) \/ NextFamily(r) => TypeInv'
         /\ NoMoreFamilies(r) \/ DeleteIndex(r) => TypeInv'
<1>0. req[r] \in Request /\ LocalsOK(req[r])
  BY ReqTyped
<1>1. ASSUME ReadIndex(r) PROVE TypeInv'
  <2> DEFINE q == [req[r] EXCEPT !.pc = "all_next", !.todo = idx[req[r].key]]
  <2>1. req[r].key \in Keys
    BY <1>0, <1>1 DEF ReadIndex, LocalsOK
  <2>2. /\ q \in Request /\ q.pc = "all_next" /\ q.key \in Keys
        /\ q.user = req[r].user /\ q.then = req[r].then /\ q.own = req[r].own
    BY <1>0, <2>1 DEF TypeInv, TypeOK, Request, Labels, Revoking, IndexWindow
  <2>3. LocalsOK(q)
    BY <1>0, <2>2, RevokingLocals
  <2>4. Become(r, q) \/ Become(r, IndexDone(req[r]))
    BY <1>1 DEF ReadIndex
  <2> QED BY <1>0, <1>1, <2>2, <2>3, <2>4, StepOK, SameState, IndexDoneOK DEF ReadIndex
<1>2. ASSUME NextFamily(r) PROVE TypeInv'
  <2>1. PICK f \in req[r].todo :
          Become(r, [req[r] EXCEPT !.pc = "rvk_rtf", !.fam = f, !.todo = @ \ {f}])
    BY <1>2 DEF NextFamily
  <2> DEFINE q == [req[r] EXCEPT !.pc = "rvk_rtf", !.fam = f, !.todo = @ \ {f}]
  <2>2. /\ q \in Request /\ q.pc \in Revoking /\ q.fam \in Pairs
        /\ q.user = req[r].user /\ q.then = req[r].then /\ q.own = req[r].own
    BY <1>0 DEF Request, Labels, Revoking, IndexWindow
  <2>3. LocalsOK(q)
    BY <1>0, <2>2, RevokingLocals
  <2> QED BY <1>2, <2>1, <2>2, <2>3, StepOK, SameState DEF NextFamily
<1>3. ASSUME NoMoreFamilies(r) PROVE TypeInv'
  BY <1>0, <1>3, GotoStep, SameState DEF NoMoreFamilies, LocalsOK, Labels, IndexWindow, Rotating
<1>4. ASSUME DeleteIndex(r) PROVE TypeInv'
  <2>1. StateOK'
    BY <1>4 DEF DeleteIndex, StateOK, TypeInv, TypeOK, db
  <2> QED BY <1>0, <1>4, <2>1, StepOK, IndexDoneOK DEF DeleteIndex
<1> QED BY <1>1, <1>2, <1>3, <1>4

LEMMA RevokersTypeInv ==
  ASSUME TypeInv, NEW r \in Procs
  PROVE  /\ \A p \in Pairs : Logout(r, p) => TypeInv'
         /\ BlacklistOwn(r) => TypeInv'
         /\ \A k \in Keys : RevokeKey(r, k) => TypeInv'
         /\ \A u \in Users : RemoveMember(r, u) => TypeInv'
<1>0. req[r] \in Request /\ LocalsOK(req[r])
  BY ReqTyped
<1>1. ASSUME NEW p \in Pairs, Logout(r, p) PROVE TypeInv'
  <2> DEFINE q == RevokeIndex(jwt[p].user, jwt[p].user, "own_bl", p)
  <2>1. jwt[p].user \in Users
    BY <1>1 DEF Logout, Accepted, Minted, Jwt, TypeInv, TypeOK
  <2>2. q \in Request /\ LocalsOK(q)
    BY <2>1, RevokeIndexOK DEF Keys, Changing
  <2> QED BY <1>1, <2>2, StepOK, SameState DEF Logout
<1>2. ASSUME BlacklistOwn(r) PROVE TypeInv'
  <2>1. req[r].own \in Pairs
    BY <1>0, <1>2 DEF BlacklistOwn, LocalsOK
  <2>2. StateOK'
    BY <1>2, <2>1 DEF BlacklistOwn, StateOK, TypeInv, TypeOK, db
  <2> QED BY <1>2, <2>2, StepOK, IdleOK DEF BlacklistOwn
<1>3. ASSUME NEW k \in Keys, RevokeKey(r, k) PROVE TypeInv'
  <2> DEFINE q == RevokeIndex(k, None, "idle", None)
  <2>1. q \in Request /\ LocalsOK(q)
    BY RevokeIndexOK DEF Changing
  <2> QED BY <1>3, <2>1, StepOK, SameState DEF RevokeKey
<1>4. ASSUME NEW u \in Users, RemoveMember(r, u) PROVE TypeInv'
  <2> DEFINE q == RevokeIndex(u, None, "idle", None)
  <2>1. q \in Request /\ LocalsOK(q)
    BY RevokeIndexOK DEF Changing, Keys
  <2>2. StateOK'
    BY <1>4 DEF RemoveMember, StateOK, TypeInv, TypeOK, redis
  <2> QED BY <1>4, <2>1, <2>2, StepOK DEF RemoveMember
<1> QED BY <1>1, <1>2, <1>3, <1>4

LEMMA StatusTypeInv ==
  ASSUME TypeInv, NEW r \in Procs
  PROVE  /\ \A u \in Users : UpdateUserOff(r, u) \/ UpdateUserOn(r, u) => TypeInv'
         /\ \A u \in Users : BulkOff(r, u) \/ BulkOn(r, u) => TypeInv'
         /\ Mark(r) \/ Clear(r) \/ CommitStatus(r) => TypeInv'
<1>0. req[r] \in Request /\ LocalsOK(req[r])
  BY ReqTyped
<1>1. ASSUME NEW u \in Users, NEW then \in {"mark", "mark_tx"}
      PROVE  LET q == RevokeIndex(u, u, then, None) IN q \in Request /\ LocalsOK(q)
  BY RevokeIndexOK DEF Changing, Keys
<1>2. ASSUME NEW u \in Users, NEW l \in {"clear", "clear_tx"}
      PROVE  LET q == [Idle EXCEPT !.pc = l, !.user = u, !.then = l]
             IN  q \in Request /\ LocalsOK(q)
  BY <1>2 DEF Idle, Request, Labels, LocalsOK, Changing, Rotating, Revoking
<1>3. ASSUME NEW u \in Users, UpdateUserOff(r, u) PROVE TypeInv'
  BY <1>1, <1>3, StepOK, SameState DEF UpdateUserOff
<1>4. ASSUME NEW u \in Users, UpdateUserOn(r, u) PROVE TypeInv'
  BY <1>2, <1>4, StepOK, SameState DEF UpdateUserOn
<1>5. ASSUME NEW u \in Users, BulkOff(r, u) PROVE TypeInv'
  <2>1. StateOK'
    BY <1>5 DEF BulkOff, StateOK, TypeInv, TypeOK, redis
  <2> QED BY <1>1, <1>5, <2>1, StepOK DEF BulkOff
<1>6. ASSUME NEW u \in Users, BulkOn(r, u) PROVE TypeInv'
  <2>1. StateOK'
    BY <1>6 DEF BulkOn, StateOK, TypeInv, TypeOK, redis
  <2> QED BY <1>2, <1>6, <2>1, StepOK DEF BulkOn
<1>7. ASSUME Mark(r) \/ Clear(r) PROVE TypeInv'
  <2>1. req[r].user \in Users
    BY <1>0, <1>7 DEF Mark, Clear, LocalsOK, Changing
  <2>2. StateOK'
    BY <1>7, <2>1 DEF Mark, Clear, StateOK, TypeInv, TypeOK, redis, db
  <2>3. Become(r, Idle) \/ Goto(r, "commit_off") \/ Goto(r, "commit_on")
    BY <1>7 DEF Mark, Clear
  <2>4. ASSUME NEW l \in {"commit_off", "commit_on"}, Goto(r, l) PROVE TypeInv'
    BY <2>1, <2>2, <2>4, GotoStep DEF Labels, Rotating
  <2> QED BY <2>2, <2>3, <2>4, StepOK, IdleOK
<1>8. ASSUME CommitStatus(r) PROVE TypeInv'
  <2>1. StateOK'
    BY <1>8 DEF CommitStatus, StateOK, TypeInv, TypeOK, redis
  <2> QED BY <1>8, <2>1, StepOK, IdleOK DEF CommitStatus
<1> QED BY <1>3, <1>4, <1>5, <1>6, <1>7, <1>8

LEMMA EnvironmentTypeInv == TypeInv /\ Environment => TypeInv'
<1> SUFFICES ASSUME TypeInv, Environment PROVE TypeInv'
  OBVIOUS
<1>1. ASSUME NEW u \in Users, ChangeStanding(u) PROVE TypeInv'
  BY <1>1 DEF ChangeStanding, TypeInv, TypeOK, ReqInv, redis
<1>2. ASSUME NEW p \in Pairs, AccessExpires(p) PROVE TypeInv'
  BY <1>2 DEF AccessExpires, TypeInv, TypeOK, ReqInv, db
<1>3. ASSUME NEW p \in Pairs, RefreshExpires(p) PROVE TypeInv'
  BY <1>3 DEF RefreshExpires, TypeInv, TypeOK, ReqInv, db
<1>4. ASSUME NEW p \in Pairs, FamilyExpires(p) PROVE TypeInv'
  BY <1>4 DEF FamilyExpires, TypeInv, TypeOK, ReqInv, db
<1>5. ASSUME NEW k \in Keys, IndexExpires(k) PROVE TypeInv'
  BY <1>5 DEF IndexExpires, TypeInv, TypeOK, ReqInv, db
<1>6. ASSUME NEW r \in Procs, Crash(r) PROVE TypeInv'
  <2>1. escaped' \in SUBSET Pairs
    BY <1>6, ReqTyped DEF Crash, Request, TypeInv, TypeOK
  <2>2. crashes' \in 0 .. MaxCrashes
    BY <1>6, ConstAssumption DEF Crash, TypeInv, TypeOK
  <2>3. StateOK'
    BY <1>6, <2>1, <2>2 DEF Crash, StateOK, TypeInv, TypeOK, db
  <2> QED BY <1>6, <2>3, StepOK, IdleOK DEF Crash
<1> QED BY <1>1, <1>2, <1>3, <1>4, <1>5, <1>6 DEF Environment

LEMMA NextTypeInv == TypeInv /\ [Next]_vars => TypeInv'
<1> SUFFICES ASSUME TypeInv, [Next]_vars PROVE TypeInv'
  OBVIOUS
<1>1. ASSUME NEW r \in Procs, HandlerStep(r) PROVE TypeInv'
  BY <1>1, LoginTypeInv, RotateTypeInv, FamilyTypeInv, IndexTypeInv, RevokersTypeInv,
     StatusTypeInv DEF HandlerStep
<1>2. ASSUME NEW r \in Procs, Arrival(r) PROVE TypeInv'
  BY <1>2, LoginTypeInv, RotateTypeInv, RevokersTypeInv, StatusTypeInv DEF Arrival
<1>3. ASSUME Environment PROVE TypeInv'
  BY <1>3, EnvironmentTypeInv
<1>4. ASSUME UNCHANGED vars PROVE TypeInv'
  BY <1>4 DEF vars, TypeInv, TypeOK, ReqInv
<1> QED BY <1>1, <1>2, <1>3, <1>4 DEF Next

(* Every reachable state is well typed, and a handler's locals hold what its
   program counter says they hold. *)
THEOREM TypeCorrect == Spec => [](TypeOK /\ ReqInv)
<1>1. Init => TypeInv
  BY InitTypeInv
<1>2. TypeInv /\ [Next]_vars => TypeInv'
  BY NextTypeInv
<1> QED BY <1>1, <1>2, PTL DEF Spec, TypeInv

-----------------------------------------------------------------------------
(* A session has one bearer. *)

(* The strengthening: live tokens and rotations belong to families that exist,
   so that a login starts a family nobody is using. *)
Lineage ==
  /\ \A p \in rt : p \in Minted
  /\ \A p \in Minted : Fam(p) \in Minted
  /\ \A r \in Procs : req[r].pc \in Rotating => req[r].fam \in Minted

ForkInv == Lineage /\ RefreshNeverForks

LEMMA InitForkInv == Init => ForkInv
  BY DEF Init, ForkInv, Lineage, RefreshNeverForks, OneLivePerFamily, NoLiveWhileRotating,
     OneRotationPerFamily, Minted, Idle, Rotating

(* A step that mints nothing, revives nothing and starts no rotation. *)
Quiet ==
  /\ jwt' = jwt
  /\ rt' \subseteq rt
  /\ \A r \in Procs : req'[r].pc \in Rotating
                        => req[r].pc \in Rotating /\ req'[r].fam = req[r].fam

LEMMA QuietKeeps ==
  ASSUME ForkInv, Quiet
  PROVE  ForkInv'
  BY DEF ForkInv, Lineage, Quiet, RefreshNeverForks, OneLivePerFamily, NoLiveWhileRotating,
     OneRotationPerFamily, Minted, Fam

LEMMA QuietBecome ==
  ASSUME TypeInv, NEW r \in Procs, NEW q, q.pc \notin Rotating, Become(r, q),
         jwt' = jwt, rt' \subseteq rt
  PROVE  Quiet
  BY DEF Quiet, Become, TypeInv, TypeOK

LEMMA QuietGoto ==
  ASSUME TypeInv, NEW r \in Procs, NEW l \in Labels, Goto(r, l),
         l \in Rotating => req[r].pc \in Rotating,
         jwt' = jwt, rt' \subseteq rt
  PROVE  Quiet
<1>1. req[r] \in Request
  BY ReqTyped
<1>2. [req[r] EXCEPT !.pc = l].pc = l /\ [req[r] EXCEPT !.pc = l].fam = req[r].fam
  BY <1>1 DEF Request
<1> QED BY <1>2 DEF Quiet, Goto, Become, TypeInv, TypeOK

(* The locals that end a family or an index revocation start no rotation. *)
LEMMA DoneNotRotating ==
  ASSUME NEW q \in Request
  PROVE  FamilyDone(q).pc \notin Rotating /\ IndexDone(q).pc \notin Rotating
  BY DEF FamilyDone, IndexDone, Idle, Request, Rotating

LEMMA QuietHandler ==
  ASSUME TypeInv, NEW r \in Procs, HandlerStep(r), ~LoginStore(r), ~RotateStore(r)
  PROVE  Quiet
<1>0. req[r] \in Request /\ FamilyDone(req[r]).pc \notin Rotating
      /\ IndexDone(req[r]).pc \notin Rotating
  BY ReqTyped, DoneNotRotating
<1>1. Idle.pc \notin Rotating /\ \A f : Revoke(f).pc \notin Rotating
  BY DEF Idle, Revoke, Rotating
<1>2. CASE LoginStanding(r) \/ LoginFails(r)
  BY <1>1, <1>2, QuietGoto, QuietBecome
     DEF LoginStanding, LoginFails, redis, Labels, Rotating
<1>3. CASE RotateUser(r) \/ RotateStanding(r)
  BY <1>3, QuietGoto DEF RotateUser, RotateStanding, redis, Labels, Rotating
<1>4. CASE RotateFails(r)
  BY <1>1, <1>4, QuietBecome DEF RotateFails, redis
<1>5. CASE ReadRtf(r)
  <2>1. [req[r] EXCEPT !.pc = "rvk_rta", !.jtis = rtf[req[r].fam]].pc \notin Rotating
    BY <1>0 DEF Request, Rotating
  <2> QED BY <1>5, <2>1, QuietBecome DEF ReadRtf, redis
<1>6. CASE ReadRta(r)
  <2>1. [req[r] EXCEPT !.pc = "rvk_del", !.ajtis = rta[req[r].fam]].pc \notin Rotating
    BY <1>0 DEF Request, Rotating
  <2> QED BY <1>0, <1>6, <2>1, QuietBecome DEF ReadRta, redis
<1>7. CASE DeleteFamily(r)
  <2>1. [req[r] EXCEPT !.pc = "rvk_bl", !.jtis = {}].pc \notin Rotating
    BY <1>0 DEF Request, Rotating
  <2> QED BY <1>7, <2>1, QuietBecome DEF DeleteFamily
<1>8. CASE BlacklistNext(r)
  <2>1. PICK p \in req[r].ajtis : Become(r, [req[r] EXCEPT !.ajtis = @ \ {p}])
    BY <1>8 DEF BlacklistNext
  <2>2. [req[r] EXCEPT !.ajtis = @ \ {p}].pc \notin Rotating
    BY <1>0, <1>8 DEF BlacklistNext, Request, Rotating
  <2> QED BY <1>8, <2>1, <2>2, QuietBecome DEF BlacklistNext
<1>9. CASE FamilyRevoked(r)
  BY <1>0, <1>9, QuietBecome DEF FamilyRevoked, redis
<1>10. CASE ReadIndex(r)
  <2>1. [req[r] EXCEPT !.pc = "all_next", !.todo = idx[req[r].key]].pc \notin Rotating
    BY <1>0 DEF Request, Rotating
  <2> QED BY <1>0, <1>10, <2>1, QuietBecome DEF ReadIndex, redis
<1>11. CASE NextFamily(r)
  <2>1. PICK f \in req[r].todo :
          Become(r, [req[r] EXCEPT !.pc = "rvk_rtf", !.fam = f, !.todo = @ \ {f}])
    BY <1>11 DEF NextFamily
  <2>2. [req[r] EXCEPT !.pc = "rvk_rtf", !.fam = f, !.todo = @ \ {f}].pc \notin Rotating
    BY <1>0 DEF Request, Rotating
  <2> QED BY <1>11, <2>1, <2>2, QuietBecome DEF NextFamily, redis
<1>12. CASE NoMoreFamilies(r)
  BY <1>12, QuietGoto DEF NoMoreFamilies, redis, Labels, IndexWindow, Rotating
<1>13. CASE DeleteIndex(r)
  BY <1>0, <1>13, QuietBecome DEF DeleteIndex
<1>14. CASE BlacklistOwn(r)
  BY <1>1, <1>14, QuietBecome DEF BlacklistOwn
<1>15. CASE Mark(r) \/ Clear(r)
  BY <1>1, <1>15, QuietGoto, QuietBecome DEF Mark, Clear, redis, Labels, Rotating
<1>16. CASE CommitStatus(r)
  BY <1>1, <1>16, QuietBecome DEF CommitStatus, redis
<1> QED BY <1>2, <1>3, <1>4, <1>5, <1>6, <1>7, <1>8, <1>9, <1>10, <1>11, <1>12, <1>13,
           <1>14, <1>15, <1>16 DEF HandlerStep

LEMMA QuietArrival ==
  ASSUME TypeInv, NEW r \in Procs, Arrival(r), \A p \in Pairs : ~Consume(r, p)
  PROVE  Quiet
<1>1. \A f : Revoke(f).pc \notin Rotating
  BY DEF Idle, Revoke, Rotating
<1>2. \A k, u, then, own : RevokeIndex(k, u, then, own).pc \notin Rotating
  BY DEF Idle, RevokeIndex, Rotating
<1>3. ASSUME NEW u \in Users, NEW a \in Apps \cup {None}, LoginUser(r, u, a) PROVE Quiet
  <2>1. [Idle EXCEPT !.pc = "iss_ws", !.user = u, !.app = a].pc \notin Rotating
    BY DEF Idle, Rotating
  <2> QED BY <1>3, <2>1, QuietBecome DEF LoginUser, redis
<1>4. ASSUME NEW p \in Pairs, DetectReuse(r, p) \/ Logout(r, p) PROVE Quiet
  BY <1>1, <1>2, <1>4, QuietBecome DEF DetectReuse, Logout, redis
<1>5. ASSUME NEW k \in Keys, RevokeKey(r, k) PROVE Quiet
  BY <1>2, <1>5, QuietBecome DEF RevokeKey, redis
<1>6. ASSUME NEW u \in Users, RemoveMember(r, u) \/ UpdateUserOff(r, u) \/ BulkOff(r, u)
      PROVE Quiet
  BY <1>2, <1>6, QuietBecome DEF RemoveMember, UpdateUserOff, BulkOff, redis
<1>7. ASSUME NEW u \in Users, UpdateUserOn(r, u) \/ BulkOn(r, u) PROVE Quiet
  <2>1. \A l \in {"clear", "clear_tx"} :
          [Idle EXCEPT !.pc = l, !.user = u, !.then = l].pc \notin Rotating
    BY DEF Idle, Rotating
  <2> QED BY <1>7, <2>1, QuietBecome DEF UpdateUserOn, BulkOn, redis
<1> QED BY <1>3, <1>4, <1>5, <1>6, <1>7 DEF Arrival

LEMMA QuietEnvironment ==
  ASSUME TypeInv, Environment
  PROVE  Quiet
<1>1. Idle.pc \notin Rotating
  BY DEF Idle, Rotating
<1>2. ASSUME NEW r \in Procs, Crash(r) PROVE Quiet
  BY <1>1, <1>2, QuietBecome DEF Crash
<1> QED BY <1>2 DEF Environment, ChangeStanding, AccessExpires, RefreshExpires, FamilyExpires,
           IndexExpires, Quiet, redis

(* GETDEL: the token leaves rt: as its rotation begins. *)
LEMMA ConsumeKeeps ==
  ASSUME TypeInv, ForkInv, NEW r \in Procs, NEW p \in Pairs, Consume(r, p)
  PROVE  ForkInv'
<1> DEFINE q == [Idle EXCEPT !.pc = "rot_user", !.user = jwt[p].user,
                             !.app = jwt[p].app, !.fam = Fam(p)]
<1>1. q.pc = "rot_user" /\ q.fam = Fam(p)
  BY DEF Idle
<1>2. Become(r, q)
  BY DEF Consume
<1> HIDE DEF q
<1>3. /\ req'[r] = q
      /\ \A s \in Procs : s # r => req'[s] = req[s]
  BY <1>2 DEF Become, TypeInv, TypeOK
<1>4. p \in rt /\ rt' = rt \ {p} /\ jwt' = jwt /\ Fam(p) \in Minted
  BY DEF Consume, Presented, ForkInv, Lineage
<1>5. Lineage'
  BY <1>1, <1>3, <1>4 DEF ForkInv, Lineage, Minted, Fam
<1>6. OneLivePerFamily'
  BY <1>4 DEF ForkInv, RefreshNeverForks, OneLivePerFamily, Fam
<1>7. NoLiveWhileRotating'
  BY <1>1, <1>3, <1>4
     DEF ForkInv, RefreshNeverForks, OneLivePerFamily, NoLiveWhileRotating, Fam
<1>8. OneRotationPerFamily'
  BY <1>1, <1>3, <1>4
     DEF ForkInv, RefreshNeverForks, NoLiveWhileRotating, OneRotationPerFamily, Fam
<1> QED BY <1>5, <1>6, <1>7, <1>8 DEF ForkInv, RefreshNeverForks

(* What a store adds: one fresh token to rt:, in family f. *)
LEMMA StoreAdds ==
  ASSUME TypeInv, ForkInv, NEW q \in Pairs, NEW u \in Users,
         NEW a \in Apps \cup {None}, NEW f \in Pairs, Store(q, u, a, f)
  PROVE  /\ q \notin rt /\ q \notin Minted
         /\ rt' = rt \cup {q}
         /\ Minted' = Minted \cup {q}
         /\ Fam(q)' = f
         /\ \A p \in Minted : Fam(p)' = Fam(p)
<1>1. [user |-> u, app |-> a, fam |-> f] # None
  BY ConstAssumption DEF Jwt
<1> QED BY <1>1 DEF Store, Minted, Fam, TypeInv, TypeOK, ForkInv, Lineage

(* A login's family is named after the fresh token, so nothing else is in it. *)
LEMMA LoginStoreKeeps ==
  ASSUME TypeInv, ForkInv, NEW r \in Procs, LoginStore(r)
  PROVE  ForkInv'
<1>1. req[r] \in Request /\ LocalsOK(req[r])
  BY ReqTyped
<1>2. req[r].user \in Users /\ req[r].app \in Apps \cup {None}
  BY <1>1 DEF LoginStore, LocalsOK, Request
<1>3. PICK q \in Pairs : Store(q, req[r].user, req[r].app, q)
  BY DEF LoginStore
<1>4. /\ q \notin rt /\ q \notin Minted
      /\ rt' = rt \cup {q} /\ Minted' = Minted \cup {q}
      /\ Fam(q)' = q /\ \A p \in Minted : Fam(p)' = Fam(p)
  BY <1>2, <1>3, StoreAdds
<1>5. \A s \in Procs : req'[s].pc \in Rotating => s # r /\ req'[s] = req[s]
  BY DEF LoginStore, Become, Idle, Rotating, TypeInv, TypeOK
<1>6. Lineage'
  BY <1>4, <1>5 DEF ForkInv, Lineage
<1>7. OneLivePerFamily'
  BY <1>4 DEF ForkInv, Lineage, RefreshNeverForks, OneLivePerFamily
<1>8. NoLiveWhileRotating'
  BY <1>4, <1>5 DEF ForkInv, Lineage, RefreshNeverForks, NoLiveWhileRotating
<1>9. OneRotationPerFamily'
  BY <1>5 DEF ForkInv, RefreshNeverForks, OneRotationPerFamily
<1> QED BY <1>6, <1>7, <1>8, <1>9 DEF ForkInv, RefreshNeverForks

(* A rotation gives its place in the family to the token it stores. *)
LEMMA RotateStoreKeeps ==
  ASSUME TypeInv, ForkInv, NEW r \in Procs, RotateStore(r)
  PROVE  ForkInv'
<1>1. req[r] \in Request /\ LocalsOK(req[r]) /\ req[r].pc \in Rotating
  BY ReqTyped DEF RotateStore, Rotating
<1> DEFINE f == req[r].fam
<1>2. req[r].user \in Users /\ req[r].app \in Apps \cup {None} /\ f \in Pairs
  BY <1>1 DEF LocalsOK, Request
<1>3. PICK q \in Pairs : Store(q, req[r].user, req[r].app, f)
  BY DEF RotateStore
<1>4. /\ q \notin rt /\ q \notin Minted
      /\ rt' = rt \cup {q} /\ Minted' = Minted \cup {q}
      /\ Fam(q)' = f /\ \A p \in Minted : Fam(p)' = Fam(p)
  BY <1>2, <1>3, StoreAdds
<1>5. \A s \in Procs : req'[s].pc \in Rotating => s # r /\ req'[s] = req[s]
  BY DEF RotateStore, Become, Idle, Rotating, TypeInv, TypeOK
<1>6. f \in Minted /\ \A p \in rt : Fam(p) # f
  BY <1>1 DEF ForkInv, Lineage, RefreshNeverForks, NoLiveWhileRotating
<1>7. \A s \in Procs : s # r /\ req[s].pc \in Rotating => req[s].fam # f
  BY <1>1 DEF ForkInv, RefreshNeverForks, OneRotationPerFamily
<1>8. Lineage'
  BY <1>4, <1>5, <1>6 DEF ForkInv, Lineage
<1>9. OneLivePerFamily'
  BY <1>4, <1>6 DEF ForkInv, Lineage, RefreshNeverForks, OneLivePerFamily
<1>10. NoLiveWhileRotating'
  BY <1>4, <1>5, <1>7 DEF ForkInv, Lineage, RefreshNeverForks, NoLiveWhileRotating
<1>11. OneRotationPerFamily'
  BY <1>5 DEF ForkInv, RefreshNeverForks, OneRotationPerFamily
<1> QED BY <1>8, <1>9, <1>10, <1>11 DEF ForkInv, RefreshNeverForks

LEMMA NextForkInv == TypeInv /\ ForkInv /\ [Next]_vars => ForkInv'
<1> SUFFICES ASSUME TypeInv, ForkInv, [Next]_vars PROVE ForkInv'
  OBVIOUS
<1>1. ASSUME NEW r \in Procs, HandlerStep(r) PROVE ForkInv'
  BY <1>1, LoginStoreKeeps, RotateStoreKeeps, QuietHandler, QuietKeeps
<1>2. ASSUME NEW r \in Procs, Arrival(r) PROVE ForkInv'
  BY <1>2, ConsumeKeeps, QuietArrival, QuietKeeps
<1>3. ASSUME Environment PROVE ForkInv'
  BY <1>3, QuietEnvironment, QuietKeeps
<1>4. ASSUME UNCHANGED vars PROVE ForkInv'
  BY <1>4, QuietKeeps DEF vars, Quiet
<1> QED BY <1>1, <1>2, <1>3, <1>4 DEF Next

(* RefreshNeverForks for every instance: consume_refresh_token's GETDEL and the
   one store per consumption keep a session with a single bearer, whatever
   revocations, expiries and crashes run in between. *)
THEOREM SessionsNeverFork == Spec => []RefreshNeverForks
<1>1. Init => TypeInv /\ ForkInv
  BY InitTypeInv, InitForkInv
<1>2. TypeInv /\ ForkInv /\ [Next]_vars => (TypeInv /\ ForkInv)'
  BY NextTypeInv, NextForkInv
<1>3. ForkInv => RefreshNeverForks
  BY DEF ForkInv
<1> QED BY <1>1, <1>2, <1>3, PTL DEF Spec
-----------------------------------------------------------------------------
(* Rotation implements the abstract chain of one-time tokens. *)

(* What a family's set lists, and what a revocation has read of it, is of that
   family; and a rotation is of a family that has tokens. *)
OwnLocals(q) ==
  /\ q.pc \notin {"rvk_rta", "rvk_del"} => q.jtis = {}
  /\ \A p \in q.jtis : p \in Minted /\ Fam(p) = q.fam
  /\ q.pc \in Rotating => \E p \in Minted : Fam(p) = q.fam
OwnFamily ==
  /\ \A f \in Pairs : \A p \in rtf[f] : p \in Minted /\ Fam(p) = f
  /\ \A r \in Procs : OwnLocals(req[r])
ChainInv == TypeInv /\ ForkInv /\ OwnFamily

LEMMA OwnBecome ==
  ASSUME TypeInv, OwnFamily, NEW r \in Procs, NEW q, Become(r, q), OwnLocals(q),
         jwt' = jwt, \A f \in Pairs : rtf'[f] \subseteq rtf[f]
  PROVE  OwnFamily'
<1>1. req'[r] = q /\ \A s \in Procs : s # r => req'[s] = req[s]
  BY DEF Become, TypeInv, TypeOK
<1>2. Minted' = Minted /\ \A p : Fam(p)' = Fam(p)
  BY DEF Minted, Fam
<1>3. \A s \in Procs : OwnLocals(req[s])'
  BY <1>1, <1>2 DEF OwnFamily, OwnLocals
<1>4. \A f \in Pairs : \A p \in rtf'[f] : p \in Minted' /\ Fam(p)' = f
  BY <1>2 DEF OwnFamily
<1> QED BY <1>3, <1>4 DEF OwnFamily

(* A step of r that neither reads nor deletes a family's set, and begins no
   rotation. *)
LEMMA OwnGoto ==
  ASSUME TypeInv, OwnFamily, NEW r \in Procs, NEW l \in Labels, Goto(r, l),
         l \in Rotating => req[r].pc \in Rotating,
         req[r].pc \notin {"rvk_rta", "rvk_del"},
         jwt' = jwt, rtf' = rtf
  PROVE  OwnFamily'
<1> DEFINE q == [req[r] EXCEPT !.pc = l]
<1>1. req[r] \in Request
  BY ReqTyped
<1>2. q.pc = l /\ q.fam = req[r].fam /\ q.jtis = req[r].jtis
  BY <1>1 DEF Request
<1>3. Become(r, q)
  BY DEF Goto
<1> HIDE DEF q
<1>4. OwnLocals(q)
  BY <1>2 DEF OwnFamily, OwnLocals
<1> QED BY <1>3, <1>4, OwnBecome

LEMMA NothingRead ==
  ASSUME NEW q, q.jtis = {}, q.pc \notin Rotating
  PROVE  OwnLocals(q)
  BY DEF OwnLocals

LEMMA DoneReadsNothing ==
  ASSUME NEW q \in Request, q.jtis = {}
  PROVE  OwnLocals(FamilyDone(q)) /\ OwnLocals(IndexDone(q))
<1>1. FamilyDone(q).pc \notin Rotating /\ IndexDone(q).pc \notin Rotating
  BY DoneNotRotating
<1>2. FamilyDone(q).jtis = {} /\ IndexDone(q).jtis = {}
  BY DEF FamilyDone, IndexDone, Idle, Request
<1> QED BY <1>1, <1>2, NothingRead

LEMMA OwnHandler ==
  ASSUME TypeInv, OwnFamily, NEW r \in Procs, HandlerStep(r), ~LoginStore(r), ~RotateStore(r)
  PROVE  OwnFamily'
<1>0. /\ req[r] \in Request /\ LocalsOK(req[r]) /\ OwnLocals(req[r])
      /\ \A f \in Pairs : rtf[f] \subseteq Pairs
  BY ReqTyped DEF OwnFamily, TypeInv, TypeOK
<1>1. OwnLocals(Idle) /\ \A f : OwnLocals(Revoke(f))
  BY NothingRead DEF Idle, Revoke, Rotating
<1>2. CASE LoginStanding(r) \/ LoginFails(r)
  BY <1>1, <1>2, OwnGoto, OwnBecome DEF LoginStanding, LoginFails, redis, Labels, Rotating
<1>3. CASE RotateUser(r) \/ RotateStanding(r)
  BY <1>3, OwnGoto DEF RotateUser, RotateStanding, redis, Labels, Rotating
<1>4. CASE RotateFails(r)
  BY <1>1, <1>4, OwnBecome DEF RotateFails, redis
<1>5. CASE ReadRtf(r)
  <2> DEFINE q == [req[r] EXCEPT !.pc = "rvk_rta", !.jtis = rtf[req[r].fam]]
  <2>1. q.pc = "rvk_rta" /\ q.jtis = rtf[req[r].fam] /\ q.fam = req[r].fam
    BY <1>0 DEF Request
  <2>2. req[r].fam \in Pairs
    BY <1>0, <1>5 DEF ReadRtf, LocalsOK, Revoking
  <2>3. Become(r, q)
    BY <1>5 DEF ReadRtf
  <2> HIDE DEF q
  <2>4. OwnLocals(q)
    BY <2>1, <2>2 DEF OwnFamily, OwnLocals, Rotating
  <2> QED BY <1>5, <2>3, <2>4, OwnBecome DEF ReadRtf, redis
<1>6. CASE ReadRta(r)
  <2> DEFINE q == [req[r] EXCEPT !.pc = "rvk_del", !.ajtis = rta[req[r].fam]]
  <2>1. q.pc = "rvk_del" /\ q.jtis = req[r].jtis /\ q.fam = req[r].fam
    BY <1>0 DEF Request
  <2>2. OwnLocals(q)
    BY <1>0, <1>6, <2>1 DEF OwnLocals, Rotating
  <2>3. req[r].jtis = {} => OwnLocals(FamilyDone(req[r]))
    BY <1>0, DoneReadsNothing
  <2>4. (req[r].jtis = {} /\ Become(r, FamilyDone(req[r]))) \/ Become(r, q)
    BY <1>6 DEF ReadRta
  <2> HIDE DEF q
  <2> QED BY <1>6, <2>2, <2>3, <2>4, OwnBecome DEF ReadRta, redis
<1>7. CASE DeleteFamily(r)
  <2> DEFINE q == [req[r] EXCEPT !.pc = "rvk_bl", !.jtis = {}]
  <2>1. q.pc = "rvk_bl" /\ q.jtis = {}
    BY <1>0 DEF Request
  <2>2. Become(r, q)
    BY <1>7 DEF DeleteFamily
  <2> HIDE DEF q
  <2>3. \A f \in Pairs : rtf'[f] \subseteq rtf[f]
    BY <1>7 DEF DeleteFamily, TypeInv, TypeOK
  <2> QED BY <1>7, <2>1, <2>2, <2>3, NothingRead, OwnBecome DEF DeleteFamily, Rotating
<1>8. CASE BlacklistNext(r)
  <2>1. PICK p \in req[r].ajtis : Become(r, [req[r] EXCEPT !.ajtis = @ \ {p}])
    BY <1>8 DEF BlacklistNext
  <2> DEFINE q == [req[r] EXCEPT !.ajtis = @ \ {p}]
  <2>2. q.pc = "rvk_bl" /\ q.jtis = {}
    BY <1>0, <1>8 DEF BlacklistNext, Request, OwnLocals
  <2> HIDE DEF q
  <2>3. OwnLocals(q)
    BY <2>2, NothingRead DEF Rotating
  <2> QED BY <1>8, <2>1, <2>3, OwnBecome DEF BlacklistNext, q
<1>9. CASE FamilyRevoked(r)
  <2>1. req[r].jtis = {}
    BY <1>0, <1>9 DEF FamilyRevoked, OwnLocals
  <2> QED BY <1>0, <1>9, <2>1, DoneReadsNothing, OwnBecome DEF FamilyRevoked, redis
<1>10. CASE ReadIndex(r)
  <2>1. req[r].jtis = {}
    BY <1>0, <1>10 DEF ReadIndex, OwnLocals
  <2> DEFINE q == [req[r] EXCEPT !.pc = "all_next", !.todo = idx[req[r].key]]
  <2>2. q.pc = "all_next" /\ q.jtis = {}
    BY <1>0, <2>1 DEF Request
  <2>3. Become(r, IndexDone(req[r])) \/ Become(r, q)
    BY <1>10 DEF ReadIndex
  <2> HIDE DEF q
  <2>4. OwnLocals(q)
    BY <2>2, NothingRead DEF Rotating
  <2> QED BY <1>0, <1>10, <2>1, <2>3, <2>4, DoneReadsNothing, OwnBecome DEF ReadIndex, redis
<1>11. CASE NextFamily(r)
  <2>1. PICK f \in req[r].todo :
          Become(r, [req[r] EXCEPT !.pc = "rvk_rtf", !.fam = f, !.todo = @ \ {f}])
    BY <1>11 DEF NextFamily
  <2> DEFINE q == [req[r] EXCEPT !.pc = "rvk_rtf", !.fam = f, !.todo = @ \ {f}]
  <2>2. q.pc = "rvk_rtf" /\ q.jtis = {}
    BY <1>0, <1>11 DEF NextFamily, Request, OwnLocals
  <2> HIDE DEF q
  <2>3. OwnLocals(q)
    BY <2>2, NothingRead DEF Rotating
  <2> QED BY <1>11, <2>1, <2>3, OwnBecome DEF NextFamily, redis, q
<1>12. CASE NoMoreFamilies(r)
  BY <1>12, OwnGoto DEF NoMoreFamilies, redis, Labels, IndexWindow, Rotating
<1>13. CASE DeleteIndex(r)
  <2>1. req[r].jtis = {}
    BY <1>0, <1>13 DEF DeleteIndex, OwnLocals
  <2> QED BY <1>0, <1>13, <2>1, DoneReadsNothing, OwnBecome DEF DeleteIndex
<1>14. CASE BlacklistOwn(r)
  BY <1>1, <1>14, OwnBecome DEF BlacklistOwn
<1>15. CASE Mark(r) \/ Clear(r)
  BY <1>1, <1>15, OwnGoto, OwnBecome DEF Mark, Clear, redis, Labels, Rotating
<1>16. CASE CommitStatus(r)
  BY <1>1, <1>16, OwnBecome DEF CommitStatus, redis
<1> QED BY <1>2, <1>3, <1>4, <1>5, <1>6, <1>7, <1>8, <1>9, <1>10, <1>11, <1>12, <1>13,
           <1>14, <1>15, <1>16 DEF HandlerStep

LEMMA OwnStores ==
  ASSUME ChainInv, NEW r \in Procs, LoginStore(r) \/ RotateStore(r)
  PROVE  OwnFamily'
<1>1. req[r] \in Request /\ LocalsOK(req[r])
  BY ReqTyped DEF ChainInv
<1>2. /\ req[r].user \in Users /\ req[r].app \in Apps \cup {None}
      /\ RotateStore(r) => req[r].fam \in Pairs
  BY <1>1 DEF LoginStore, RotateStore, LocalsOK, Request, Rotating
<1>3. PICK q \in Pairs, f \in Pairs : Store(q, req[r].user, req[r].app, f)
  BY <1>2 DEF LoginStore, RotateStore
<1>4. /\ Minted' = Minted \cup {q} /\ Fam(q)' = f
      /\ \A p \in Minted : Fam(p)' = Fam(p)
  BY <1>2, <1>3, StoreAdds DEF ChainInv
<1>5. \A g \in Pairs : rtf'[g] = IF g = f THEN rtf[g] \cup {q} ELSE rtf[g]
  BY <1>3 DEF Store, ChainInv, TypeInv, TypeOK
<1>6. req'[r] = Idle /\ \A s \in Procs : s # r => req'[s] = req[s]
  BY DEF LoginStore, RotateStore, Become, ChainInv, TypeInv, TypeOK
<1>7. \A s \in Procs : OwnLocals(req[s])'
  BY <1>4, <1>6 DEF ChainInv, OwnFamily, OwnLocals, Idle, Rotating
<1>8. \A g \in Pairs : \A p \in rtf'[g] : p \in Minted' /\ Fam(p)' = g
  BY <1>4, <1>5 DEF ChainInv, OwnFamily
<1> QED BY <1>7, <1>8 DEF OwnFamily

LEMMA OwnArrival ==
  ASSUME TypeInv, OwnFamily, NEW r \in Procs, Arrival(r)
  PROVE  OwnFamily'
<1>1. \A f : OwnLocals(Revoke(f))
  BY NothingRead DEF Idle, Revoke, Rotating
<1>2. \A k, u, then, own : OwnLocals(RevokeIndex(k, u, then, own))
  <2> SUFFICES ASSUME NEW k, NEW u, NEW then, NEW own PROVE OwnLocals(RevokeIndex(k, u, then, own))
    OBVIOUS
  <2> QED BY NothingRead DEF Idle, RevokeIndex, Rotating
<1>3. ASSUME NEW u \in Users, NEW a \in Apps \cup {None}, LoginUser(r, u, a) PROVE OwnFamily'
  <2>1. OwnLocals([Idle EXCEPT !.pc = "iss_ws", !.user = u, !.app = a])
    BY NothingRead DEF Idle, Rotating
  <2> QED BY <1>3, <2>1, OwnBecome DEF LoginUser, redis
<1>4. ASSUME NEW p \in Pairs, DetectReuse(r, p) \/ Logout(r, p) PROVE OwnFamily'
  BY <1>1, <1>2, <1>4, OwnBecome DEF DetectReuse, Logout, redis
<1>5. ASSUME NEW k \in Keys, RevokeKey(r, k) PROVE OwnFamily'
  BY <1>2, <1>5, OwnBecome DEF RevokeKey, redis
<1>6. ASSUME NEW u \in Users, RemoveMember(r, u) \/ UpdateUserOff(r, u) \/ BulkOff(r, u)
      PROVE OwnFamily'
  BY <1>2, <1>6, OwnBecome DEF RemoveMember, UpdateUserOff, BulkOff, redis
<1>7. ASSUME NEW u \in Users, UpdateUserOn(r, u) \/ BulkOn(r, u) PROVE OwnFamily'
  <2>1. \A l \in {"clear", "clear_tx"} :
          OwnLocals([Idle EXCEPT !.pc = l, !.user = u, !.then = l])
    BY NothingRead DEF Idle, Rotating
  <2> QED BY <1>7, <2>1, OwnBecome DEF UpdateUserOn, BulkOn, redis
<1>8. ASSUME NEW p \in Pairs, Consume(r, p) PROVE OwnFamily'
  <2> DEFINE q == [Idle EXCEPT !.pc = "rot_user", !.user = jwt[p].user,
                               !.app = jwt[p].app, !.fam = Fam(p)]
  <2>1. q.pc = "rot_user" /\ q.fam = Fam(p) /\ q.jtis = {} /\ p \in Minted
    BY <1>8 DEF Idle, Consume, Presented
  <2>2. Become(r, q)
    BY <1>8 DEF Consume
  <2> HIDE DEF q
  <2>3. OwnLocals(q)
    BY <2>1 DEF OwnLocals
  <2> QED BY <1>8, <2>2, <2>3, OwnBecome DEF Consume
<1> QED BY <1>3, <1>4, <1>5, <1>6, <1>7, <1>8 DEF Arrival

LEMMA OwnEnvironment ==
  ASSUME TypeInv, OwnFamily, Environment
  PROVE  OwnFamily'
<1>1. OwnLocals(Idle)
  BY NothingRead DEF Idle, Rotating
<1>2. ASSUME NEW r \in Procs, Crash(r) PROVE OwnFamily'
  BY <1>1, <1>2, OwnBecome DEF Crash
<1>3. ASSUME jwt' = jwt, req' = req, \A f \in Pairs : rtf'[f] \subseteq rtf[f] PROVE OwnFamily'
  BY <1>3 DEF OwnFamily, OwnLocals, Minted, Fam
<1>4. ASSUME NEW f \in Pairs, FamilyExpires(f) PROVE OwnFamily'
  BY <1>3, <1>4 DEF FamilyExpires, TypeInv, TypeOK
<1> QED BY <1>2, <1>3, <1>4 DEF Environment, ChangeStanding, AccessExpires, RefreshExpires,
           IndexExpires, redis

LEMMA NextOwnFamily == ChainInv /\ [Next]_vars => OwnFamily'
<1> SUFFICES ASSUME ChainInv, [Next]_vars PROVE OwnFamily'
  OBVIOUS
<1>1. ASSUME UNCHANGED vars PROVE OwnFamily'
  BY <1>1 DEF ChainInv, OwnFamily, OwnLocals, Minted, Fam, vars
<1> QED BY <1>1, OwnHandler, OwnStores, OwnArrival, OwnEnvironment DEF ChainInv, Next

-----------------------------------------------------------------------------

(* A step that changes neither what a family honours nor whether it rotates. *)
Same(f) == /\ LiveOf(f)' = LiveOf(f)
           /\ RotationInFlight(f)' <=> RotationInFlight(f)

LEMMA SamePhase ==
  ASSUME Minted' = Minted, \A p : Fam(p)' = Fam(p), NEW f, Same(f)
  PROVE  FamilyPhase(f)' = FamilyPhase(f)
  BY DEF FamilyPhase, Same

LEMMA AllSame ==
  ASSUME jwt' = jwt, \A f \in Pairs : Same(f)
  PROVE  UNCHANGED Chain!cvars
<1>1. Minted' = Minted /\ \A p : Fam(p)' = Fam(p)
  BY DEF Minted, Fam
<1>2. \A f \in Pairs : FamilyPhase(f)' = FamilyPhase(f) /\ LiveOf(f)' = LiveOf(f)
  BY <1>1, SamePhase DEF Same
<1> QED BY <1>1, <1>2 DEF Chain!cvars

(* A quiet step that touches one family at most leaves it as it was, or ends
   it: a family has one token that is honoured, or one rotation. *)
LEMMA QuietEnds ==
  ASSUME ChainInv, Quiet, NEW f,
         \A p \in rt \ rt' : Fam(p) = f,
         \A r \in Procs : req[r].pc \in Rotating => req'[r].pc \in Rotating \/ req[r].fam = f
  PROVE  [Chain!ChainNext]_(Chain!cvars)
<1>1. jwt' = jwt /\ Minted' = Minted /\ \A p : Fam(p)' = Fam(p)
  BY DEF Quiet, Minted, Fam
<1>2. rt \subseteq Minted /\ \A p \in Minted : Fam(p) \in Pairs
  BY DEF ChainInv, ForkInv, Lineage, Minted
<1>3. \A g \in Pairs : g # f => Same(g)
  <2> SUFFICES ASSUME NEW g \in Pairs, g # f PROVE Same(g)
    OBVIOUS
  <2>1. LiveOf(g)' = LiveOf(g)
    BY <1>1 DEF Quiet, LiveOf
  <2>2. RotationInFlight(g)' <=> RotationInFlight(g)
    BY DEF Quiet, RotationInFlight
  <2> QED BY <2>1, <2>2 DEF Same
<1>4. CASE f \notin Pairs \/ Same(f)
  BY <1>1, <1>3, <1>4, AllSame
<1>5. CASE f \in Pairs /\ ~Same(f)
  <2>1. LiveOf(f)' \subseteq LiveOf(f) /\ (RotationInFlight(f)' => RotationInFlight(f))
    BY <1>1 DEF Quiet, LiveOf, RotationInFlight
  <2>2. \A p, q \in LiveOf(f) : p = q
    BY DEF ChainInv, ForkInv, RefreshNeverForks, OneLivePerFamily, LiveOf
  <2>3. LiveOf(f) # {} => ~RotationInFlight(f)
    BY DEF ChainInv, ForkInv, RefreshNeverForks, NoLiveWhileRotating, LiveOf, RotationInFlight
  <2>4. LiveOf(f)' = {} /\ ~RotationInFlight(f)'
    <3>1. CASE LiveOf(f)' # LiveOf(f)
      BY <2>1, <2>2, <2>3, <3>1
    <3>2. CASE RotationInFlight(f) /\ ~RotationInFlight(f)'
      BY <2>1, <2>3, <3>2
    <3> QED BY <1>5, <2>1, <3>1, <3>2 DEF Same
  <2>5. LiveOf(f) # {} \/ RotationInFlight(f)
    BY <1>5, <2>1, <2>4 DEF Same
  <2>6. \E p \in Minted : Fam(p) = f
    BY <1>2, <2>5 DEF LiveOf, RotationInFlight, ChainInv, OwnFamily, OwnLocals
  <2>7. FamilyPhase(f) \in {"open", "rotating"} /\ FamilyPhase(f)' = "ended"
    BY <1>1, <2>4, <2>5, <2>6 DEF FamilyPhase
  <2>8. \A g \in Pairs : g # f => FamilyPhase(g)' = FamilyPhase(g) /\ LiveOf(g)' = LiveOf(g)
    BY <1>1, <1>3, SamePhase DEF Same
  <2>9. Chain!End(f)
    BY <1>1, <1>5, <2>4, <2>7, <2>8 DEF Chain!End
  <2> QED BY <1>5, <2>9 DEF Chain!ChainNext
<1> QED BY <1>4, <1>5

(* Handlers other than r stay where they are. *)
LEMMA HandlerAlone ==
  ASSUME TypeInv, NEW r \in Procs, HandlerStep(r)
  PROVE  \A s \in Procs : s # r => req'[s] = req[s]
<1>1. \E q : Become(r, q)
  BY DEF HandlerStep, LoginStanding, LoginStore, LoginFails, RotateUser, RotateStanding, RotateStore,
         RotateFails, ReadRtf, ReadRta, DeleteFamily, BlacklistNext, FamilyRevoked, ReadIndex,
         NextFamily, NoMoreFamilies, DeleteIndex, BlacklistOwn, Mark, Clear, CommitStatus, Goto
<1> QED BY <1>1 DEF Become, TypeInv, TypeOK

LEMMA HandlerChain ==
  ASSUME ChainInv, NEW r \in Procs, HandlerStep(r), ~LoginStore(r), ~RotateStore(r)
  PROVE  [Chain!ChainNext]_(Chain!cvars)
<1>1. Quiet
  BY QuietHandler DEF ChainInv
<1>2. \A s \in Procs : s # r => req'[s] = req[s]
  BY HandlerAlone DEF ChainInv
<1>3. \A p \in rt \ rt' : Fam(p) = req[r].fam
  BY DEF HandlerStep, LoginStanding, LoginFails, RotateUser, RotateStanding, RotateFails, ReadRtf,
         ReadRta, DeleteFamily, BlacklistNext, FamilyRevoked, ReadIndex, NextFamily, NoMoreFamilies,
         DeleteIndex, BlacklistOwn, Mark, Clear, CommitStatus, redis, ChainInv, OwnFamily, OwnLocals
<1> QED BY <1>1, <1>2, <1>3, QuietEnds

LEMMA EnvironmentChain ==
  ASSUME ChainInv, Environment
  PROVE  [Chain!ChainNext]_(Chain!cvars)
<1>1. Quiet
  BY QuietEnvironment DEF ChainInv
<1>2. ASSUME NEW p \in Pairs, RefreshExpires(p) PROVE [Chain!ChainNext]_(Chain!cvars)
  <2>1. \A x \in rt \ rt' : Fam(x) = Fam(p)
    BY <1>2 DEF RefreshExpires
  <2>2. req' = req
    BY <1>2 DEF RefreshExpires
  <2> QED BY <1>1, <2>1, <2>2, QuietEnds
<1>3. ASSUME NEW r \in Procs, Crash(r) PROVE [Chain!ChainNext]_(Chain!cvars)
  <2>1. rt' = rt /\ \A s \in Procs : s # r => req'[s] = req[s]
    BY <1>3 DEF Crash, Become, ChainInv, TypeInv, TypeOK
  <2> QED BY <1>1, <2>1, QuietEnds
<1>4. ASSUME rt' = rt, req' = req PROVE [Chain!ChainNext]_(Chain!cvars)
  BY <1>1, <1>4, QuietEnds
<1> QED BY <1>2, <1>3, <1>4 DEF Environment, ChangeStanding, AccessExpires, FamilyExpires,
           IndexExpires, redis

(* GETDEL takes the family's one token. *)
LEMMA ConsumeTakes ==
  ASSUME ChainInv, NEW r \in Procs, NEW p \in Pairs, Consume(r, p)
  PROVE  \E f \in Pairs : Chain!Take(f)
<1>0. PICK f \in Pairs : f = Fam(p)
  BY DEF Consume, Presented, ChainInv, ForkInv, Lineage, Minted
<1> DEFINE q == [Idle EXCEPT !.pc = "rot_user", !.user = jwt[p].user,
                             !.app = jwt[p].app, !.fam = Fam(p)]
<1>1. q.pc = "rot_user" /\ q.fam = f
  BY <1>0 DEF Idle
<1>2. Become(r, q)
  BY DEF Consume
<1> HIDE DEF q
<1>3. /\ req'[r] = q /\ req[r].pc = "idle"
      /\ \A s \in Procs : s # r => req'[s] = req[s]
  BY <1>2 DEF Become, ChainInv, TypeInv, TypeOK, Consume, Presented
<1>4. /\ p \in rt /\ rt' = rt \ {p} /\ p \in Minted
      /\ Minted' = Minted /\ \A x : Fam(x)' = Fam(x)
  BY DEF Consume, Presented, Minted, Fam
<1>5. LiveOf(f) = {p} /\ LiveOf(f)' = {} /\ ~RotationInFlight(f) /\ RotationInFlight(f)'
  <2>1. LiveOf(f) = {p}
    BY <1>0, <1>4 DEF ChainInv, ForkInv, RefreshNeverForks, OneLivePerFamily, LiveOf
  <2>2. LiveOf(f)' = {}
    BY <1>4, <2>1 DEF LiveOf
  <2>3. ~RotationInFlight(f)
    BY <1>0, <1>4 DEF ChainInv, ForkInv, RefreshNeverForks, NoLiveWhileRotating, RotationInFlight
  <2>4. RotationInFlight(f)'
    BY <1>1, <1>3 DEF RotationInFlight, Rotating
  <2> QED BY <2>1, <2>2, <2>3, <2>4
<1>6. \A g \in Pairs : g # f => Same(g)
  <2> SUFFICES ASSUME NEW g \in Pairs, g # f PROVE Same(g)
    OBVIOUS
  <2>1. LiveOf(g)' = LiveOf(g)
    BY <1>0, <1>4 DEF LiveOf
  <2>2. RotationInFlight(g)' <=> RotationInFlight(g)
    BY <1>1, <1>3 DEF RotationInFlight, Rotating
  <2> QED BY <2>1, <2>2 DEF Same
<1>7. FamilyPhase(f) = "open" /\ FamilyPhase(f)' = "rotating"
  BY <1>5 DEF FamilyPhase
<1>8. \A g \in Pairs : g # f => FamilyPhase(g)' = FamilyPhase(g) /\ LiveOf(g)' = LiveOf(g)
  BY <1>4, <1>6, SamePhase DEF Same
<1>9. Chain!Take(f)
  BY <1>4, <1>5, <1>7, <1>8 DEF Chain!Take
<1> QED BY <1>9

(* What a store does to the families: the fresh token is all that family f
   honours, and r's rotation of it, if it was one, is over. *)
LEMMA StorePhases ==
  ASSUME ChainInv, NEW r \in Procs, NEW q \in Pairs, NEW u \in Users,
         NEW a \in Apps \cup {None}, NEW f \in Pairs, Store(q, u, a, f), Become(r, Idle),
         LiveOf(f) = {}, req[r].pc \in Rotating => req[r].fam = f
  PROVE  /\ LiveOf(f)' = {q} /\ FamilyPhase(f)' = "open"
         /\ q \notin Minted /\ Minted' = Minted \cup {q}
         /\ \A g \in Pairs : g # f => FamilyPhase(g)' = FamilyPhase(g) /\ LiveOf(g)' = LiveOf(g)
<1>1. /\ q \notin rt /\ q \notin Minted
      /\ rt' = rt \cup {q} /\ Minted' = Minted \cup {q}
      /\ Fam(q)' = f /\ \A p \in Minted : Fam(p)' = Fam(p)
  BY StoreAdds DEF ChainInv
<1>2. rt \subseteq Minted
  BY DEF ChainInv, ForkInv, Lineage
<1>3. req'[r].pc = "idle" /\ \A s \in Procs : s # r => req'[s] = req[s]
  BY DEF Become, Idle, ChainInv, TypeInv, TypeOK
<1>4. LiveOf(f)' = {q}
  BY <1>1, <1>2 DEF LiveOf
<1>5. FamilyPhase(f)' = "open"
  BY <1>4 DEF FamilyPhase
<1>6. ASSUME NEW g \in Pairs, g # f
      PROVE  FamilyPhase(g)' = FamilyPhase(g) /\ LiveOf(g)' = LiveOf(g)
  <2>1. LiveOf(g)' = LiveOf(g)
    BY <1>1, <1>2, <1>6 DEF LiveOf
  <2>2. RotationInFlight(g)' <=> RotationInFlight(g)
    BY <1>3, <1>6 DEF RotationInFlight, Rotating
  <2>3. (\E p \in Minted : Fam(p) = g)' <=> \E p \in Minted : Fam(p) = g
    BY <1>1, <1>6
  <2> QED BY <2>1, <2>2, <2>3 DEF FamilyPhase
<1> QED BY <1>1, <1>4, <1>5, <1>6

LEMMA LoginOpens ==
  ASSUME ChainInv, NEW r \in Procs, LoginStore(r)
  PROVE  \E f \in Pairs : Chain!Open(f)
<1>1. req[r] \in Request /\ LocalsOK(req[r]) /\ req[r].pc \notin Rotating
  BY ReqTyped DEF ChainInv, LoginStore, Rotating
<1>2. req[r].user \in Users /\ req[r].app \in Apps \cup {None} /\ Become(r, Idle)
  BY <1>1 DEF LoginStore, LocalsOK, Request
<1>3. PICK f \in Pairs : Store(f, req[r].user, req[r].app, f)
  BY DEF LoginStore
<1>4. f \notin Minted
  BY <1>3 DEF Store
<1>5. LiveOf(f) = {} /\ ~RotationInFlight(f) /\ \A p \in Minted : Fam(p) # f
  BY <1>4 DEF LiveOf, RotationInFlight, ChainInv, ForkInv, Lineage
<1>6. FamilyPhase(f) = "unborn"
  BY <1>5 DEF FamilyPhase
<1>7. /\ LiveOf(f)' = {f} /\ FamilyPhase(f)' = "open" /\ Minted' = Minted \cup {f}
      /\ \A g \in Pairs : g # f => FamilyPhase(g)' = FamilyPhase(g) /\ LiveOf(g)' = LiveOf(g)
  BY <1>1, <1>2, <1>3, <1>5, StorePhases
<1> QED BY <1>4, <1>6, <1>7 DEF Chain!Open

LEMMA RotationGives ==
  ASSUME ChainInv, NEW r \in Procs, RotateStore(r)
  PROVE  \E f, t \in Pairs : Chain!Give(f, t)
<1>1. req[r] \in Request /\ LocalsOK(req[r]) /\ req[r].pc \in Rotating
  BY ReqTyped DEF ChainInv, RotateStore, Rotating
<1>2. req[r].user \in Users /\ req[r].app \in Apps \cup {None} /\ req[r].fam \in Pairs
      /\ Become(r, Idle)
  BY <1>1 DEF LocalsOK, Request, RotateStore
<1> PICK f \in Pairs : f = req[r].fam
  BY <1>2
<1>3. PICK t \in Pairs : Store(t, req[r].user, req[r].app, f)
  BY DEF RotateStore
<1>4. LiveOf(f) = {} /\ RotationInFlight(f)
  BY <1>1 DEF LiveOf, RotationInFlight, ChainInv, ForkInv, RefreshNeverForks, NoLiveWhileRotating
<1>5. FamilyPhase(f) = "rotating"
  BY <1>4 DEF FamilyPhase
<1>6. /\ LiveOf(f)' = {t} /\ FamilyPhase(f)' = "open"
      /\ t \notin Minted /\ Minted' = Minted \cup {t}
      /\ \A g \in Pairs : g # f => FamilyPhase(g)' = FamilyPhase(g) /\ LiveOf(g)' = LiveOf(g)
  BY <1>1, <1>2, <1>3, <1>4, StorePhases
<1>7. Chain!Give(f, t)
  BY <1>5, <1>6 DEF Chain!Give
<1> QED BY <1>7

LEMMA NextImplements ==
  ASSUME ChainInv, [Next]_vars
  PROVE  [Chain!ChainNext]_(Chain!cvars)
<1>1. ASSUME NEW r \in Procs, HandlerStep(r) PROVE [Chain!ChainNext]_(Chain!cvars)
  BY <1>1, HandlerChain, LoginOpens, RotationGives DEF Chain!ChainNext
<1>2. ASSUME NEW r \in Procs, Arrival(r), \A p \in Pairs : ~Consume(r, p)
      PROVE  [Chain!ChainNext]_(Chain!cvars)
  <2>1. Quiet
    BY <1>2, QuietArrival DEF ChainInv
  <2>2. rt' = rt /\ req[r].pc = "idle" /\ \A s \in Procs : s # r => req'[s] = req[s]
    BY <1>2 DEF Arrival, LoginUser, DetectReuse, Presented, Logout, RevokeKey, RemoveMember,
       UpdateUserOff, UpdateUserOn, BulkOff, BulkOn, MayChangeStatus, redis, Become, ChainInv,
       TypeInv, TypeOK
  <2> QED BY <2>1, <2>2, QuietEnds DEF Rotating
<1>3. ASSUME NEW r \in Procs, NEW p \in Pairs, Consume(r, p)
      PROVE  [Chain!ChainNext]_(Chain!cvars)
  BY <1>3, ConsumeTakes DEF Chain!ChainNext
<1>4. ASSUME UNCHANGED vars PROVE [Chain!ChainNext]_(Chain!cvars)
  <2>1. \A f \in Pairs : Same(f)
    BY <1>4 DEF vars, Same, LiveOf, RotationInFlight, Fam
  <2> QED BY <1>4, <2>1, AllSame DEF vars
<1> QED BY <1>1, <1>2, <1>3, <1>4, EnvironmentChain DEF Next

LEMMA InitImplements == Init => Chain!ChainInit
<1> SUFFICES ASSUME Init PROVE Chain!ChainInit
  OBVIOUS
<1>1. Minted = {} /\ rt = {} /\ \A r \in Procs : req[r].pc \notin Rotating
  BY DEF Init, Minted, Idle, Rotating
<1>2. \A f \in Pairs : LiveOf(f) = {} /\ FamilyPhase(f) = "unborn"
  BY <1>1 DEF LiveOf, RotationInFlight, FamilyPhase
<1> QED BY <1>1, <1>2 DEF Chain!ChainInit

(* ImplementsChain for every instance: seen from outside, the refresh tokens of
   a session are a chain of one-time tokens.  Each is honoured once, its holder
   gets one successor or nothing, and a session that has ended stays ended.
   (consume_refresh_token, rotate_refresh_token, revoke_token_family) *)
THEOREM RotationIsAChain == Spec => ImplementsChain
<1>1. Init => ChainInv
  <2>1. Init => OwnFamily
    BY DEF Init, OwnFamily, OwnLocals, Idle, Rotating
  <2> QED BY <2>1, InitTypeInv, InitForkInv DEF ChainInv
<1>2. ChainInv /\ [Next]_vars => ChainInv'
  BY NextTypeInv, NextForkInv, NextOwnFamily DEF ChainInv
<1>3. ChainInv /\ [Next]_vars => [Chain!ChainNext]_(Chain!cvars)
  BY NextImplements
<1> QED BY <1>1, <1>2, <1>3, InitImplements, PTL DEF Spec, ImplementsChain, Chain!ChainSpec
-----------------------------------------------------------------------------
(* The deactivation flag follows the database. *)

StatusLocals(q) ==
  /\ q.pc \in Rotating \cup {"idle", "iss_ws", "iss_store", "own_bl"} => q.then \notin Changing
  /\ q.pc \in Revoking /\ q.then \in Changing => q.key # None
  /\ q.pc = "commit_off" => q.then = "mark_tx"
  /\ q.pc = "commit_on" => q.then = "clear_tx"

(* What a status change relies on: a bulk change has committed before it
   touches the flag, update_user has touched the flag before it commits. *)
StatusHolds(q, activeNow, flagged) ==
  /\ q.then = "mark" => ~activeNow[q.user]
  /\ q.then = "clear" => activeNow[q.user]
  /\ q.pc = "commit_off" => q.user \in flagged
  /\ q.pc = "commit_on" => q.user \notin flagged

OneChange ==
  \A r, s \in Procs : /\ req[r].then \in Changing
                      /\ req[s].then \in Changing
                      /\ req[r].user = req[s].user
                      => r = s
StatusInv ==
  /\ \A r \in Procs : StatusLocals(req[r]) /\ StatusHolds(req[r], active, deact)
  /\ OneChange
  /\ FlagAgrees

LEMMA InitStatusInv == Init => StatusInv
<1> SUFFICES ASSUME Init PROVE StatusInv
  OBVIOUS
<1>1. \A r \in Procs : req[r] = Idle
  BY DEF Init
<1>2. deact = {} /\ \A u \in Users : active[u]
  BY DEF Init
<1> QED BY <1>1, <1>2 DEF StatusInv, StatusLocals, StatusHolds, OneChange, FlagAgrees, Idle,
           Changing, Rotating, Revoking

(* A step of r that leaves both flags alone, and stays in the status change it
   is in, if any. *)
LEMMA StatusStays ==
  ASSUME TypeInv, StatusInv, NEW r \in Procs, NEW q, Become(r, q), StatusLocals(q),
         active' = active, deact' = deact,
         \/ q.then \notin Changing /\ req[r].then \notin Changing
         \/ /\ q.then = req[r].then /\ q.user = req[r].user
            /\ q.pc \notin {"commit_off", "commit_on"}
  PROVE  StatusInv'
<1>1. req'[r] = q /\ \A s \in Procs : s # r => req'[s] = req[s]
  BY DEF Become, TypeInv, TypeOK
<1>2. StatusLocals(req[r]) /\ StatusHolds(req[r], active, deact)
  BY DEF StatusInv
<1>3. StatusHolds(q, active', deact')
  BY <1>2 DEF StatusHolds, StatusLocals, Changing
<1>4. \A s \in Procs : StatusLocals(req[s])' /\ StatusHolds(req[s], active, deact)'
  BY <1>1, <1>3 DEF StatusInv, StatusLocals, StatusHolds
<1>5. \A s \in Procs : /\ req'[s].then \in Changing <=> req[s].then \in Changing
                       /\ req[s].then \in Changing => req'[s].user = req[s].user
  BY <1>1
<1>6. OneChange'
  BY <1>5 DEF StatusInv, OneChange
<1>7. FlagAgrees'
  BY <1>5 DEF StatusInv, FlagAgrees, StatusRequest, Changing
<1> QED BY <1>4, <1>6, <1>7 DEF StatusInv

(* A step of r that begins, carries on or ends the one status change of u. *)
LEMMA StatusMoves ==
  ASSUME TypeInv, StatusInv, NEW r \in Procs, NEW q, Become(r, q), NEW u \in Users,
         \A s \in Procs : s # r /\ req[s].then \in Changing => req[s].user # u,
         \A v \in Users : v # u => active'[v] = active[v] /\ (v \in deact' <=> v \in deact),
         StatusLocals(q), StatusHolds(q, active', deact'),
         q.then \in Changing => q.user = u,
         req[r].then \in Changing => req[r].user = u,
         q.then \notin Changing => (u \in deact' <=> ~active'[u])
  PROVE  StatusInv'
<1>1. req'[r] = q /\ \A s \in Procs : s # r => req'[s] = req[s]
  BY DEF Become, TypeInv, TypeOK
<1>2. ASSUME NEW s \in Procs, s # r PROVE StatusHolds(req[s], active', deact')
  <2>1. StatusLocals(req[s]) /\ StatusHolds(req[s], active, deact)
    BY DEF StatusInv
  <2>2. LocalsOK(req[s])
    BY ReqTyped
  <2>3. CASE req[s].then \notin Changing
    BY <2>1, <2>3 DEF StatusHolds, StatusLocals, Changing
  <2>4. CASE req[s].then \in Changing
    <3>1. req[s].user \in Users /\ req[s].user # u
      BY <1>2, <2>2, <2>4 DEF LocalsOK
    <3> QED BY <2>1, <3>1 DEF StatusHolds
  <2> QED BY <2>3, <2>4
<1>3. \A s \in Procs : StatusLocals(req[s])' /\ StatusHolds(req[s], active, deact)'
  BY <1>1, <1>2 DEF StatusInv, StatusLocals, StatusHolds
<1>4. OneChange'
  BY <1>1 DEF StatusInv, OneChange
<1>5. ASSUME NEW v \in Users, \A s \in Procs : ~StatusRequest(s, v)' PROVE v \in deact' <=> ~active'[v]
  <2>1. CASE v = u
    BY <1>1, <1>5, <2>1 DEF StatusRequest, Changing
  <2>2. CASE v # u
    <3>1. \A s \in Procs : ~StatusRequest(s, v)
      BY <1>1, <1>5, <2>2 DEF StatusRequest, Changing
    <3> QED BY <2>2, <3>1 DEF StatusInv, FlagAgrees
  <2> QED BY <2>1, <2>2
<1>6. FlagAgrees'
  BY <1>5 DEF FlagAgrees
<1> QED BY <1>3, <1>4, <1>6 DEF StatusInv

LEMMA NotChanging ==
  ASSUME NEW q, q.pc \in Labels \ {"commit_off", "commit_on"}, q.then \notin Changing
  PROVE  StatusLocals(q)
  BY DEF StatusLocals

(* Inside a revocation the status change, if there is one, waits in `then'. *)
LEMMA StatusWaits ==
  ASSUME TypeInv, StatusInv, NEW r \in Procs, NEW q, Become(r, q),
         active' = active, deact' = deact,
         q.then = req[r].then, q.user = req[r].user,
         \/ /\ req[r].pc \in Revoking /\ q.key = req[r].key
            /\ q.pc \in Revoking \cup {"all_next"}
         \/ req[r].pc \in {"all_read", "all_next"} /\ q.pc \in {"all_next", "all_del"}
         \/ /\ req[r].pc = "all_next" /\ q.pc = "rvk_rtf" /\ q.key = req[r].key
  PROVE  StatusInv'
<1>1. StatusLocals(req[r]) /\ LocalsOK(req[r])
  BY ReqTyped DEF StatusInv
<1>2. StatusLocals(q)
  BY <1>1, ConstAssumption DEF StatusLocals, LocalsOK, Revoking, Rotating, Keys
<1> QED BY <1>2, StatusStays DEF Revoking

LEMMA StatusFamilyDone ==
  ASSUME TypeInv, StatusInv, NEW r \in Procs, req[r].pc \in Revoking,
         Become(r, FamilyDone(req[r])), active' = active, deact' = deact
  PROVE  StatusInv'
<1>0. req[r] \in Request /\ StatusLocals(req[r])
  BY ReqTyped DEF StatusInv
<1>1. CASE req[r].key = None
  <2>1. req[r].then \notin Changing
    BY <1>0, <1>1 DEF StatusLocals
  <2>2. FamilyDone(req[r]) = Idle /\ Idle.then \notin Changing /\ StatusLocals(Idle)
    BY <1>1 DEF FamilyDone, Idle, Changing, StatusLocals, Rotating, Revoking
  <2> QED BY <2>1, <2>2, StatusStays
<1>2. CASE req[r].key # None
  <2> DEFINE q == FamilyDone(req[r])
  <2>1. q.pc = "all_next" /\ q.then = req[r].then /\ q.user = req[r].user /\ q.key = req[r].key
    BY <1>0, <1>2 DEF FamilyDone, Request
  <2> HIDE DEF q
  <2>2. Become(r, q)
    BY DEF q
  <2> QED BY <2>1, <2>2, StatusWaits
<1> QED BY <1>1, <1>2

LEMMA StatusIndexDone ==
  ASSUME TypeInv, StatusInv, NEW r \in Procs, req[r].pc \in {"all_read", "all_del"},
         Become(r, IndexDone(req[r])), active' = active, deact' = deact
  PROVE  StatusInv'
<1>0. req[r] \in Request
  BY ReqTyped
<1>1. CASE req[r].then = "idle"
  BY <1>1, StatusStays DEF IndexDone, Idle, Changing, StatusLocals, Rotating, Revoking
<1>2. CASE req[r].then # "idle"
  <2> DEFINE q == IndexDone(req[r])
  <2>1. q.pc = req[r].then /\ q.then = req[r].then /\ q.user = req[r].user
    BY <1>0, <1>2 DEF IndexDone, Request
  <2>2. req[r].then \in Changing \cup {"own_bl"}
    BY <1>0, <1>2 DEF Request, Changing
  <2> HIDE DEF q
  <2>3. StatusLocals(q) /\ q.pc \notin {"commit_off", "commit_on"}
    BY <2>1, <2>2 DEF StatusLocals, Changing, Rotating, Revoking
  <2>4. Become(r, q)
    BY DEF q
  <2> QED BY <2>1, <2>3, <2>4, StatusStays
<1> QED BY <1>1, <1>2

(* The steps that set, clear or commit. *)
LEMMA StatusEnds ==
  ASSUME TypeInv, StatusInv, NEW r \in Procs, Mark(r) \/ Clear(r) \/ CommitStatus(r)
  PROVE  StatusInv'
<1>0. /\ req[r] \in Request /\ LocalsOK(req[r])
      /\ StatusLocals(req[r]) /\ StatusHolds(req[r], active, deact)
  BY ReqTyped DEF StatusInv
<1>1. /\ req[r].then \in Changing /\ req[r].user \in Users
      /\ req[r].pc \in Changing => req[r].then = req[r].pc
      /\ req[r].pc = "commit_off" => req[r].then = "mark_tx"
      /\ req[r].pc = "commit_on" => req[r].then = "clear_tx"
  BY <1>0 DEF Mark, Clear, CommitStatus, LocalsOK, StatusLocals, Changing
<1>2. PICK u \in Users : u = req[r].user
  BY <1>1
<1>3. \A s \in Procs : s # r /\ req[s].then \in Changing => req[s].user # u
  BY <1>1, <1>2 DEF StatusInv, OneChange
<1>4. /\ Idle.then \notin Changing /\ StatusLocals(Idle)
      /\ \A act, flags : StatusHolds(Idle, act, flags)
  BY DEF Idle, Changing, StatusLocals, StatusHolds, Rotating, Revoking
<1>5. active \in [Users -> BOOLEAN]
  BY DEF TypeInv, TypeOK
<1>6. CASE req[r].pc \in {"mark", "clear"}
  <2>1. Become(r, Idle) /\ active' = active
    BY <1>6 DEF Mark, Clear, CommitStatus, db
  <2>2. deact' = IF req[r].pc = "mark" THEN deact \cup {u} ELSE deact \ {u}
    BY <1>2, <1>6 DEF Mark, Clear, CommitStatus
  <2>3. u \in deact' <=> ~active'[u]
    BY <1>0, <1>1, <1>2, <1>6, <2>1, <2>2 DEF StatusHolds, Changing
  <2> QED BY <1>2, <1>3, <1>4, <2>1, <2>2, <2>3, StatusMoves
<1>7. CASE req[r].pc \in {"mark_tx", "clear_tx"}
  <2> DEFINE l == IF req[r].pc = "mark_tx" THEN "commit_off" ELSE "commit_on"
             q == [req[r] EXCEPT !.pc = l]
  <2>1. Become(r, q) /\ active' = active
    BY <1>7 DEF Mark, Clear, CommitStatus, db, Goto
  <2>2. deact' = IF req[r].pc = "mark_tx" THEN deact \cup {u} ELSE deact \ {u}
    BY <1>2, <1>7 DEF Mark, Clear, CommitStatus
  <2>3. q.pc = l /\ q.then = req[r].pc /\ q.user = u
    BY <1>0, <1>1, <1>2, <1>7 DEF Request, Changing
  <2>4. StatusLocals(q) /\ q.then \in Changing
    BY <1>7, <2>3 DEF StatusLocals, Changing, Rotating, Revoking
  <2>5. StatusHolds(q, active', deact')
    BY <1>7, <2>2, <2>3 DEF StatusHolds
  <2> HIDE DEF q
  <2> QED BY <1>2, <1>3, <2>1, <2>2, <2>3, <2>4, <2>5, StatusMoves
<1>8. CASE req[r].pc \in {"commit_off", "commit_on"}
  <2>1. Become(r, Idle) /\ deact' = deact
    BY <1>8 DEF Mark, Clear, CommitStatus
  <2>2. active' = [active EXCEPT ![u] = (req[r].pc = "commit_on")]
    BY <1>2, <1>8 DEF Mark, Clear, CommitStatus
  <2>3. active'[u] <=> req[r].pc = "commit_on"
    BY <1>5, <2>2
  <2>4. \A v \in Users : v # u => active'[v] = active[v]
    BY <1>5, <2>2
  <2>5. u \in deact' <=> ~active'[u]
    BY <1>0, <1>2, <1>8, <2>1, <2>3 DEF StatusHolds
  <2> QED BY <1>2, <1>3, <1>4, <2>1, <2>4, <2>5, StatusMoves
<1> QED BY <1>6, <1>7, <1>8 DEF Mark, Clear, CommitStatus

LEMMA StatusHandler ==
  ASSUME TypeInv, StatusInv, NEW r \in Procs, HandlerStep(r)
  PROVE  StatusInv'
<1>0. req[r] \in Request /\ LocalsOK(req[r]) /\ StatusLocals(req[r])
  BY ReqTyped DEF StatusInv
<1>1. /\ Idle.then \notin Changing /\ StatusLocals(Idle)
      /\ \A f : Revoke(f).then \notin Changing /\ StatusLocals(Revoke(f))
  BY DEF Idle, Revoke, Changing, StatusLocals, Rotating, Revoking
<1>2. CASE LoginStanding(r) \/ RotateUser(r) \/ RotateStanding(r)
  <2>1. PICK l \in Rotating \cup {"iss_store"} : Goto(r, l)
    BY <1>2 DEF LoginStanding, RotateUser, RotateStanding, Rotating
  <2> DEFINE q == [req[r] EXCEPT !.pc = l]
  <2>2. req[r].then \notin Changing
    BY <1>0, <1>2 DEF LoginStanding, RotateUser, RotateStanding, StatusLocals, Rotating
  <2>3. q.pc = l /\ q.then = req[r].then
    BY <1>0 DEF Request
  <2>4. Become(r, q)
    BY <2>1 DEF Goto
  <2> HIDE DEF q
  <2>5. StatusLocals(q)
    BY <2>2, <2>3 DEF StatusLocals, Rotating, Revoking
  <2> QED BY <1>2, <2>2, <2>3, <2>4, <2>5, StatusStays DEF LoginStanding, RotateUser, RotateStanding, db
<1>3. CASE LoginFails(r) \/ LoginStore(r) \/ RotateStore(r) \/ RotateFails(r) \/ BlacklistOwn(r)
  <2>1. req[r].then \notin Changing
    BY <1>0, <1>3 DEF LoginFails, LoginStore, RotateStore, RotateFails, BlacklistOwn, StatusLocals,
                      Rotating
  <2>2. active' = active /\ deact' = deact
    BY <1>3 DEF LoginFails, LoginStore, RotateStore, RotateFails, BlacklistOwn, db
  <2>3. Become(r, Idle) \/ \E f : Become(r, Revoke(f))
    BY <1>3 DEF LoginFails, LoginStore, RotateStore, RotateFails, BlacklistOwn
  <2> QED BY <1>1, <2>1, <2>2, <2>3, StatusStays
<1>4. CASE ReadRtf(r) \/ DeleteFamily(r) \/ BlacklistNext(r)
  <2>0. PICK l \in Revoking : \E J, A : Become(r, [req[r] EXCEPT !.pc = l, !.jtis = J, !.ajtis = A])
    <3>1. req[r] = [req[r] EXCEPT !.ajtis = req[r].ajtis]
      BY <1>0 DEF Request
    <3>2. CASE ReadRtf(r)
      <4>1. Become(r, [req[r] EXCEPT !.pc = "rvk_rta", !.jtis = rtf[req[r].fam],
                                     !.ajtis = req[r].ajtis])
        BY <1>0, <3>2 DEF ReadRtf, Request
      <4> QED BY <4>1 DEF Revoking
    <3>3. CASE DeleteFamily(r)
      <4>1. Become(r, [req[r] EXCEPT !.pc = "rvk_bl", !.jtis = {}, !.ajtis = req[r].ajtis])
        BY <1>0, <3>3 DEF DeleteFamily, Request
      <4> QED BY <4>1 DEF Revoking
    <3>4. CASE BlacklistNext(r)
      <4>1. PICK p \in req[r].ajtis : Become(r, [req[r] EXCEPT !.ajtis = @ \ {p}])
        BY <3>4 DEF BlacklistNext
      <4>2. Become(r, [req[r] EXCEPT !.pc = "rvk_bl", !.jtis = req[r].jtis,
                                     !.ajtis = req[r].ajtis \ {p}])
        BY <1>0, <3>4, <4>1 DEF BlacklistNext, Request
      <4> QED BY <4>2 DEF Revoking
    <3> QED BY <1>4, <3>2, <3>3, <3>4
  <2>1. PICK J, A : Become(r, [req[r] EXCEPT !.pc = l, !.jtis = J, !.ajtis = A])
    BY <2>0
  <2> DEFINE q == [req[r] EXCEPT !.pc = l, !.jtis = J, !.ajtis = A]
  <2>2. q.pc = l /\ q.then = req[r].then /\ q.user = req[r].user /\ q.key = req[r].key
    BY <1>0 DEF Request
  <2> HIDE DEF q
  <2>3. Become(r, q)
    BY <2>1 DEF q
  <2>4. req[r].pc \in Revoking /\ active' = active /\ deact' = deact
    BY <1>4 DEF ReadRtf, DeleteFamily, BlacklistNext, Revoking, db
  <2> QED BY <2>2, <2>3, <2>4, StatusWaits
<1>5. CASE ReadRta(r)
  <2> DEFINE q == [req[r] EXCEPT !.pc = "rvk_del", !.ajtis = rta[req[r].fam]]
  <2>1. /\ q.pc = "rvk_del" /\ q.then = req[r].then /\ q.user = req[r].user
        /\ q.key = req[r].key
    BY <1>0 DEF Request
  <2>2. Become(r, FamilyDone(req[r])) \/ Become(r, q)
    BY <1>5 DEF ReadRta
  <2> HIDE DEF q
  <2>3. req[r].pc \in Revoking /\ active' = active /\ deact' = deact
    BY <1>5 DEF ReadRta, Revoking, db
  <2>4. q.pc \in Revoking
    BY <2>1 DEF Revoking
  <2> QED BY <2>1, <2>2, <2>3, <2>4, StatusFamilyDone, StatusWaits
<1>6. CASE FamilyRevoked(r)
  BY <1>6, StatusFamilyDone DEF FamilyRevoked, Revoking, db
<1>7. CASE ReadIndex(r)
  <2> DEFINE q == [req[r] EXCEPT !.pc = "all_next", !.todo = idx[req[r].key]]
  <2>1. q.pc = "all_next" /\ q.then = req[r].then /\ q.user = req[r].user
    BY <1>0 DEF Request
  <2>2. Become(r, IndexDone(req[r])) \/ Become(r, q)
    BY <1>7 DEF ReadIndex
  <2> HIDE DEF q
  <2> QED BY <1>7, <2>1, <2>2, StatusIndexDone, StatusWaits DEF ReadIndex, db
<1>8. CASE NextFamily(r)
  <2>1. PICK f \in req[r].todo :
          Become(r, [req[r] EXCEPT !.pc = "rvk_rtf", !.fam = f, !.todo = @ \ {f}])
    BY <1>8 DEF NextFamily
  <2> DEFINE q == [req[r] EXCEPT !.pc = "rvk_rtf", !.fam = f, !.todo = @ \ {f}]
  <2>2. /\ q.pc = "rvk_rtf" /\ q.then = req[r].then /\ q.user = req[r].user
        /\ q.key = req[r].key
    BY <1>0 DEF Request
  <2> HIDE DEF q
  <2>3. Become(r, q)
    BY <2>1 DEF q
  <2> QED BY <1>8, <2>2, <2>3, StatusWaits DEF NextFamily, db
<1>9. CASE NoMoreFamilies(r)
  <2> DEFINE q == [req[r] EXCEPT !.pc = "all_del"]
  <2>1. q.pc = "all_del" /\ q.then = req[r].then /\ q.user = req[r].user
    BY <1>0 DEF Request
  <2> HIDE DEF q
  <2>2. Become(r, q)
    BY <1>9 DEF NoMoreFamilies, Goto, q
  <2> QED BY <1>9, <2>1, <2>2, StatusWaits DEF NoMoreFamilies, db
<1>10. CASE DeleteIndex(r)
  BY <1>10, StatusIndexDone DEF DeleteIndex, db
<1> QED BY <1>2, <1>3, <1>4, <1>5, <1>6, <1>7, <1>8, <1>9, <1>10, StatusEnds DEF HandlerStep

LEMMA StatusArrival ==
  ASSUME TypeInv, StatusInv, SerialAdmins, NEW r \in Procs, Arrival(r)
  PROVE  StatusInv'
<1>0. req[r].pc = "idle" => req[r].then \notin Changing
  BY DEF StatusInv, StatusLocals
<1>1. active \in [Users -> BOOLEAN]
  BY DEF TypeInv, TypeOK
<1>2. ASSUME NEW q, Become(r, q), req[r].pc = "idle", q.then \notin Changing,
             q.pc \in {"iss_ws", "rot_user", "rvk_rtf", "all_read"}, active' = active, deact' = deact
      PROVE  StatusInv'
  <2>1. StatusLocals(q)
    BY <1>2 DEF StatusLocals
  <2> QED BY <1>0, <1>2, <2>1, StatusStays
<1>3. ASSUME NEW u \in Users, NEW a \in Apps \cup {None}, LoginUser(r, u, a) PROVE StatusInv'
  <2> DEFINE q == [Idle EXCEPT !.pc = "iss_ws", !.user = u, !.app = a]
  <2>1. q.pc = "iss_ws" /\ q.then \notin Changing
    BY DEF Idle, Changing
  <2> QED BY <1>2, <1>3, <2>1 DEF LoginUser, db
<1>4. ASSUME NEW p \in Pairs, Consume(r, p) PROVE StatusInv'
  <2> DEFINE q == [Idle EXCEPT !.pc = "rot_user", !.user = jwt[p].user,
                               !.app = jwt[p].app, !.fam = Fam(p)]
  <2>1. q.pc = "rot_user" /\ q.then \notin Changing
    BY DEF Idle, Changing
  <2> HIDE DEF q
  <2>2. Become(r, q)
    BY <1>4 DEF Consume, q
  <2> QED BY <1>2, <1>4, <2>1, <2>2 DEF Consume, Presented, db
<1>5. ASSUME NEW p \in Pairs, DetectReuse(r, p) PROVE StatusInv'
  <2>1. Revoke(Fam(p)).pc = "rvk_rtf" /\ Revoke(Fam(p)).then \notin Changing
    BY DEF Revoke, Idle, Changing
  <2> QED BY <1>2, <1>5, <2>1 DEF DetectReuse, Presented, db
<1>6. \A k, u, then, own : LET q == RevokeIndex(k, u, then, own) IN
        q.pc = "all_read" /\ q.then = then /\ q.user = u
  BY DEF RevokeIndex, Idle
<1>7. ASSUME NEW p \in Pairs, Logout(r, p) PROVE StatusInv'
  BY <1>2, <1>6, <1>7 DEF Logout, Changing, db
<1>8. ASSUME NEW k \in Keys, RevokeKey(r, k) PROVE StatusInv'
  BY <1>2, <1>6, <1>8 DEF RevokeKey, Changing, db
<1>9. ASSUME NEW u \in Users, RemoveMember(r, u) PROVE StatusInv'
  BY <1>2, <1>6, <1>9 DEF RemoveMember, Changing
<1>10. ASSUME NEW u \in Users, MayChangeStatus(r, u), NEW q, Become(r, q), q.user = u,
              q.then \in Changing, q.pc \in {"all_read", "clear", "clear_tx"},
              deact' = deact, \A v \in Users : v # u => active'[v] = active[v],
              q.then = "mark" => ~active'[u], q.then = "clear" => active'[u]
       PROVE  StatusInv'
  <2>1. \A s \in Procs : req[s].then \in Changing => req[s].user # u
    BY <1>10 DEF MayChangeStatus, StatusRequest, Changing
  <2>2. StatusLocals(q) /\ StatusHolds(q, active', deact')
    BY <1>10 DEF StatusLocals, StatusHolds, Rotating, Revoking
  <2>3. req[r].then \notin Changing
    BY <1>0, <1>10 DEF MayChangeStatus
  <2> QED BY <1>10, <2>1, <2>2, <2>3, StatusMoves
<1>11. ASSUME NEW u \in Users, UpdateUserOff(r, u) PROVE StatusInv'
  BY <1>6, <1>10, <1>11 DEF UpdateUserOff, Changing, db
<1>12. ASSUME NEW u \in Users, BulkOff(r, u) PROVE StatusInv'
  <2>1. ~active'[u] /\ \A v \in Users : v # u => active'[v] = active[v]
    BY <1>1, <1>12 DEF BulkOff
  <2> DEFINE q == RevokeIndex(u, u, "mark", None)
  <2>2. q.pc = "all_read" /\ q.then = "mark" /\ q.user = u
    BY <1>6
  <2> HIDE DEF q
  <2>3. Become(r, q)
    BY <1>12 DEF BulkOff, q
  <2> QED BY <1>10, <1>12, <2>1, <2>2, <2>3 DEF BulkOff, Changing
<1>13. ASSUME NEW u \in Users, UpdateUserOn(r, u) \/ BulkOn(r, u) PROVE StatusInv'
  <2>1. \A l \in {"clear", "clear_tx"} : LET q == [Idle EXCEPT !.pc = l, !.user = u, !.then = l] IN
          q.pc = l /\ q.then = l /\ q.user = u /\ l \in Changing
    BY DEF Idle, Changing
  <2>2. CASE UpdateUserOn(r, u)
    BY <1>10, <2>1, <2>2 DEF UpdateUserOn, db
  <2>3. CASE BulkOn(r, u)
    <3>1. active'[u] /\ \A v \in Users : v # u => active'[v] = active[v]
      BY <1>1, <2>3 DEF BulkOn
    <3> QED BY <1>10, <2>1, <2>3, <3>1 DEF BulkOn
  <2> QED BY <1>13, <2>2, <2>3
<1> QED BY <1>3, <1>4, <1>5, <1>7, <1>8, <1>9, <1>11, <1>12, <1>13 DEF Arrival

LEMMA NextStatusInv ==
  ASSUME TypeInv, SerialAdmins, crashes = 0 => StatusInv, [Next]_vars, crashes' = 0
  PROVE  StatusInv'
<1>1. crashes \in Nat
  BY ConstAssumption DEF TypeInv, TypeOK
<1>2. ASSUME NEW r \in Procs, Crash(r) PROVE FALSE
  BY <1>1, <1>2 DEF Crash
<1>3. crashes = 0
  BY <1>2 DEF Next, HandlerStep, Arrival, Environment, LoginUser, LoginStanding, LoginStore, LoginFails,
     Consume, DetectReuse, RotateUser, RotateStanding, RotateStore, RotateFails, ReadRtf, ReadRta,
     DeleteFamily, BlacklistNext, FamilyRevoked, ReadIndex, NextFamily, NoMoreFamilies, DeleteIndex,
     Logout, BlacklistOwn, RevokeKey, RemoveMember, ChangeStanding, UpdateUserOff, UpdateUserOn,
     BulkOff, BulkOn, Mark, Clear, CommitStatus, AccessExpires, RefreshExpires, FamilyExpires,
     IndexExpires, vars
<1>4. ASSUME active' = active, deact' = deact, req' = req PROVE StatusInv'
  BY <1>3, <1>4 DEF StatusInv, StatusLocals, StatusHolds, OneChange, FlagAgrees, StatusRequest
<1>5. CASE Environment
  BY <1>2, <1>4, <1>5 DEF Environment, ChangeStanding, AccessExpires, RefreshExpires, FamilyExpires,
     IndexExpires, db
<1> QED BY <1>3, <1>4, <1>5, StatusHandler, StatusArrival DEF Next, vars

(* FlagAgrees for every instance in which the status changes of one user do not
   overlap, for as long as no handler has died: once nobody is changing a
   user's status, the flag that the token guards read is the database's
   is_active.  Either hypothesis is needed: overlapping admins break it, as
   sessions_admin_race shows, and so does a death between the flag and the
   commit.  (update_user, bulk_update_users, mark_user_deactivated) *)
THEOREM FlagFollowsStatus ==
  ASSUME SerialAdmins
  PROVE  Spec => [](crashes = 0 => FlagAgrees)
<1> DEFINE Inv == TypeInv /\ (crashes = 0 => StatusInv)
<1>1. Init => Inv
  BY InitTypeInv, InitStatusInv
<1>2. Inv /\ [Next]_vars => Inv'
  BY NextTypeInv, NextStatusInv
<1>3. Inv => (crashes = 0 => FlagAgrees)
  BY DEF StatusInv
<1> QED BY <1>1, <1>2, <1>3, PTL DEF Spec
-----------------------------------------------------------------------------
(* REACH: whatever is live is within reach of every revocation that is meant to
   find it. *)

Denied(p) == p \in bl \/ \E s \in Procs : req[s].pc = "rvk_bl" /\ p \in req[s].ajtis

(* What a revocation with locals q has read so far covers everything live that
   it is after; what was stored behind its back has escaped. *)
CoversRefresh(q) ==
  q.pc \in {"rvk_rta", "rvk_del"} =>
    \A p \in rt \ escaped : Fam(p) = q.fam => p \in q.jtis
CoversAccess(q) ==
  q.pc = "rvk_del" =>
    \A p \in Minted \ escaped :
      stage[p] = "access" /\ Fam(p) = q.fam => p \in q.ajtis \/ Denied(p)
CoversIndex(q) ==
  q.pc \in IndexWindow /\ q.key # None =>
    /\ \A p \in rt \ escaped :
         q.key \in {jwt[p].user, jwt[p].app} =>
           \/ Fam(p) \in q.todo
           \/ q.pc \in {"rvk_rtf", "rvk_rta", "rvk_del"} /\ Fam(p) = q.fam
    /\ q.pc = "all_del" => q.todo = {}
Covers(q) == CoversRefresh(q) /\ CoversAccess(q) /\ CoversIndex(q)

LiveStage == \A p \in rt : stage[p] \in {"access", "refresh"}
RInv == LiveStage /\ WithinReach /\ \A r \in Procs : Covers(req[r])

-----------------------------------------------------------------------------
(* A handler that touches no set: it may consume or denylist tokens, and what
   it was about to denylist is denylisted, kept or escapes. *)
LEMMA ReadStep ==
  ASSUME TypeInv, ForkInv, RInv, NEW r \in Procs, NEW q, Become(r, q), Covers(q),
         UNCHANGED <<jwt, stage, rtf, rta, idx>>,
         rt' \subseteq rt, bl \subseteq bl', escaped \subseteq escaped',
         req[r].pc = "rvk_bl" => \A p \in req[r].ajtis :
           p \in bl' \/ p \in escaped' \/ (q.pc = "rvk_bl" /\ p \in q.ajtis)
  PROVE  RInv'
<1>1. /\ req'[r] = q
      /\ \A s \in Procs : s # r => req'[s] = req[s]
  BY DEF Become, TypeInv, TypeOK
<1>2. Minted' = Minted /\ \A p \in Pairs : Fam(p)' = Fam(p)
  BY DEF Minted, Fam
<1>3. \A p : Denied(p) /\ p \notin escaped' => Denied(p)'
  <2> SUFFICES ASSUME NEW p, Denied(p), p \notin escaped' PROVE Denied(p)'
    OBVIOUS
  <2>1. CASE p \in bl
    BY <2>1 DEF Denied
  <2>2. ASSUME NEW s \in Procs, req[s].pc = "rvk_bl", p \in req[s].ajtis PROVE Denied(p)'
    <3>1. CASE s = r
      BY <1>1, <2>2, <3>1 DEF Denied
    <3>2. CASE s # r
      BY <1>1, <2>2, <3>2 DEF Denied
    <3> QED BY <3>1, <3>2
  <2> QED BY <2>1, <2>2 DEF Denied
<1>4. LiveStage'
  BY DEF RInv, LiveStage
<1>5. WithinReach'
  <2>1. RefreshReachable' /\ IndexReachable'
    BY <1>2 DEF RInv, WithinReach, RefreshReachable, IndexReachable, Fam
  <2>2. AccessReachable'
    <3> SUFFICES ASSUME NEW p \in Minted, p \notin escaped', stage[p] = "access"
                 PROVE  p \in rta[Fam(p)] \/ Denied(p)'
      BY <1>2 DEF AccessReachable, Denied, Fam
    <3>1. p \in rta[Fam(p)] \/ Denied(p)
      BY DEF RInv, WithinReach, AccessReachable, Denied
    <3> QED BY <1>3, <3>1
  <2> QED BY <2>1, <2>2 DEF WithinReach
<1>6. ASSUME NEW x, Covers(x) PROVE CoversRefresh(x)' /\ CoversAccess(x)' /\ CoversIndex(x)'
  <2>1. CoversRefresh(x)'
    BY <1>6 DEF Covers, CoversRefresh, Fam
  <2>2. CoversAccess(x)'
    <3> SUFFICES ASSUME x.pc = "rvk_del", NEW p \in Minted, p \notin escaped',
                        stage[p] = "access", Fam(p) = x.fam
                 PROVE  p \in x.ajtis \/ Denied(p)'
      BY <1>2 DEF CoversAccess, Fam
    <3>1. p \in x.ajtis \/ Denied(p)
      BY <1>6 DEF Covers, CoversAccess
    <3> QED BY <1>3, <3>1
  <2>3. CoversIndex(x)'
    BY <1>6 DEF Covers, CoversIndex, Fam
  <2> QED BY <2>1, <2>2, <2>3
<1>7. ASSUME NEW s \in Procs PROVE Covers(req[s])'
  <2>1. CASE s = r
    <3>1. CoversRefresh(q)' /\ CoversAccess(q)' /\ CoversIndex(q)'
      BY <1>6
    <3> QED BY <1>1, <2>1, <3>1 DEF Covers, CoversRefresh, CoversAccess, CoversIndex
  <2>2. CASE s # r
    <3>1. Covers(req[s])
      BY DEF RInv
    <3> DEFINE x == req[s]
    <3>2. CoversRefresh(x) /\ CoversAccess(x) /\ CoversIndex(x)
      BY <3>1 DEF Covers
    <3>3. CoversRefresh(req[s])'
      BY <1>1, <2>2, <3>2 DEF CoversRefresh, Fam
    <3>4. CoversAccess(req[s])'
      <4> SUFFICES ASSUME x.pc = "rvk_del", NEW p \in Minted, p \notin escaped',
                          stage[p] = "access", Fam(p) = x.fam
                   PROVE  p \in x.ajtis \/ Denied(p)'
        BY <1>1, <1>2, <2>2 DEF CoversAccess, Fam
      <4>1. p \in x.ajtis \/ Denied(p)
        BY <3>2 DEF CoversAccess
      <4> QED BY <1>3, <4>1
    <3>5. CoversIndex(req[s])'
      BY <1>1, <2>2, <3>2 DEF CoversIndex, Fam
    <3> QED BY <3>3, <3>4, <3>5 DEF Covers
  <2> QED BY <2>1, <2>2
<1> QED BY <1>4, <1>5, <1>7 DEF RInv

(* Outside a revocation there is nothing to cover. *)
LEMMA NothingToCover ==
  /\ \A q : q.pc \notin IndexWindow => Covers(q)
  /\ \A f : Covers(Revoke(f)) /\ Revoke(f).pc # "rvk_bl"
BY DEF Covers, CoversRefresh, CoversAccess, CoversIndex, IndexWindow, Revoking, Revoke, Idle

LEMMA OutsideStep ==
  ASSUME TypeInv, ForkInv, RInv, NEW r \in Procs, NEW q, Become(r, q),
         q.pc \notin IndexWindow, req[r].pc # "rvk_bl",
         UNCHANGED <<jwt, stage, rtf, rta, idx, escaped>>, rt' \subseteq rt, bl \subseteq bl'
  PROVE  RInv'
<1>1. Covers(q)
  BY NothingToCover
<1> QED BY <1>1, ReadStep

(* A change of the program counter alone, outside a revocation. *)
LEMMA OutsideGoto ==
  ASSUME TypeInv, ForkInv, RInv, NEW r \in Procs, NEW l \in Labels, Goto(r, l),
         l \notin IndexWindow, req[r].pc # "rvk_bl",
         UNCHANGED <<jwt, stage, rtf, rta, idx, escaped>>, rt' \subseteq rt, bl \subseteq bl'
  PROVE  RInv'
<1>1. [req[r] EXCEPT !.pc = l].pc = l
  BY ReqTyped DEF Request
<1> QED BY <1>1, OutsideStep DEF Goto

-----------------------------------------------------------------------------
(* One step per action. *)

LEMMA FamilyCovers ==
  ASSUME TypeInv, ForkInv, RInv, NEW r \in Procs,
         ReadRtf(r) \/ ReadRta(r) \/ BlacklistNext(r) \/ FamilyRevoked(r)
  PROVE  RInv'
<1> DEFINE old == req[r]
<1>0. old \in Request /\ LocalsOK(old) /\ Covers(old)
  BY ReqTyped DEF RInv
<1>1. CASE ReadRtf(r)
  <2> DEFINE q == [old EXCEPT !.pc = "rvk_rta", !.jtis = rtf[old.fam]]
  <2>1. /\ q.pc = "rvk_rta" /\ q.jtis = rtf[old.fam] /\ q.fam = old.fam /\ q.key = old.key
        /\ q.todo = old.todo /\ old.pc = "rvk_rtf"
    BY <1>0, <1>1 DEF ReadRtf, Request
  <2>2. Become(r, q) /\ UNCHANGED redis
    BY <1>1 DEF ReadRtf
  <2> HIDE DEF q
  <2>3. CoversRefresh(q) /\ CoversAccess(q)
    BY <2>1 DEF RInv, WithinReach, RefreshReachable, CoversRefresh, CoversAccess
  <2>4. CoversIndex(q)
    BY <1>0, <2>1 DEF Covers, CoversIndex, IndexWindow, Revoking
  <2>5. Covers(q)
    BY <2>3, <2>4 DEF Covers
  <2> QED BY <2>1, <2>2, <2>5, ReadStep DEF redis
<1>2. CASE ReadRta(r) /\ ~(old.jtis = {} /\ rta[old.fam] = {})
  <2> DEFINE q == [old EXCEPT !.pc = "rvk_del", !.ajtis = rta[old.fam]]
  <2>1. /\ q.pc = "rvk_del" /\ q.ajtis = rta[old.fam] /\ q.fam = old.fam /\ q.key = old.key
        /\ q.todo = old.todo /\ q.jtis = old.jtis /\ old.pc = "rvk_rta"
    BY <1>0, <1>2 DEF ReadRta, Request
  <2>2. Become(r, q) /\ UNCHANGED redis
    BY <1>2 DEF ReadRta
  <2> HIDE DEF q
  <2>3. CoversRefresh(q) /\ CoversIndex(q)
    BY <1>0, <2>1 DEF Covers, CoversRefresh, CoversIndex, IndexWindow, Revoking
  <2>4. CoversAccess(q)
    BY <2>1 DEF RInv, WithinReach, AccessReachable, CoversAccess, Denied
  <2>5. Covers(q)
    BY <2>3, <2>4 DEF Covers
  <2> QED BY <2>1, <2>2, <2>5, ReadStep DEF redis
<1>3. CASE BlacklistNext(r)
  <2>1. PICK d \in old.ajtis : /\ bl' = bl \cup {d}
                               /\ Become(r, [old EXCEPT !.ajtis = @ \ {d}])
    BY <1>3 DEF BlacklistNext
  <2> DEFINE q == [old EXCEPT !.ajtis = @ \ {d}]
  <2>2. /\ q.pc = "rvk_bl" /\ q.ajtis = old.ajtis \ {d} /\ q.fam = old.fam /\ q.key = old.key
        /\ q.todo = old.todo /\ old.pc = "rvk_bl"
    BY <1>0, <1>3 DEF BlacklistNext, Request
  <2>3. UNCHANGED <<jwt, stage, rt, rtf, rta, idx, escaped>> /\ Become(r, q)
    BY <1>3, <2>1 DEF BlacklistNext
  <2> HIDE DEF q
  <2>4. Covers(q)
    BY <1>0, <2>2 DEF Covers, CoversRefresh, CoversAccess, CoversIndex, IndexWindow, Revoking
  <2> QED BY <2>1, <2>2, <2>3, <2>4, ReadStep
<1>4. CASE FamilyRevoked(r) \/ (ReadRta(r) /\ old.jtis = {} /\ rta[old.fam] = {})
  <2> DEFINE q == FamilyDone(old)
  <2>1. Become(r, q) /\ UNCHANGED redis /\ old.pc \in {"rvk_rta", "rvk_bl"}
    BY <1>4 DEF FamilyRevoked, ReadRta
  <2>2. old.pc = "rvk_bl" => old.ajtis = {}
    BY <1>4 DEF FamilyRevoked, ReadRta
  <2>3. old.pc = "rvk_rta" => \A p \in rt \ escaped : Fam(p) # old.fam
    BY <1>0, <1>4 DEF FamilyRevoked, Covers, CoversRefresh
  <2>4. \/ q = Idle
        \/ /\ q.pc = "all_next" /\ q.key = old.key /\ old.key # None /\ q.todo = old.todo
    BY <1>0 DEF FamilyDone, Request
  <2> HIDE DEF q
  <2>5. CASE q = Idle
    <3>1. q.pc \notin IndexWindow
      BY <2>5 DEF Idle, IndexWindow, Revoking
    <3>2. Covers(q)
      BY <3>1, NothingToCover
    <3> QED BY <2>1, <2>2, <3>2, ReadStep DEF redis
  <2>6. CASE q.pc = "all_next" /\ q.key = old.key /\ old.key # None /\ q.todo = old.todo
    <3>1. Covers(q)
      BY <1>0, <2>1, <2>3, <2>6
         DEF Covers, CoversRefresh, CoversAccess, CoversIndex, IndexWindow, Revoking
    <3> QED BY <2>1, <2>2, <3>1, ReadStep DEF redis
  <2> QED BY <2>4, <2>5, <2>6
<1> QED BY <1>1, <1>2, <1>3, <1>4

(* rtf: and rta: are gone, and with them every live token of the family that
   has not escaped. *)
LEMMA DeleteFamilyCovers ==
  ASSUME TypeInv, ForkInv, RInv, NEW r \in Procs, DeleteFamily(r)
  PROVE  RInv'
<1> DEFINE old == req[r]
           q == [old EXCEPT !.pc = "rvk_bl", !.jtis = {}]
<1>0. old \in Request /\ LocalsOK(old) /\ Covers(old) /\ old.pc = "rvk_del" /\ old.fam \in Pairs
  BY ReqTyped DEF RInv, DeleteFamily, LocalsOK, Revoking
<1>1. /\ q.pc = "rvk_bl" /\ q.fam = old.fam /\ q.key = old.key /\ q.todo = old.todo
      /\ q.ajtis = old.ajtis
  BY <1>0 DEF Request
<1>2. /\ req'[r] = q
      /\ \A s \in Procs : s # r => req'[s] = req[s]
      /\ rt' = rt \ old.jtis /\ UNCHANGED <<jwt, stage, bl, idx, escaped>>
      /\ rtf' = [rtf EXCEPT ![old.fam] = {}] /\ rta' = [rta EXCEPT ![old.fam] = {}]
  BY DEF DeleteFamily, Become, TypeInv, TypeOK
<1> HIDE DEF q
<1>3. \A p \in rt' \ escaped : p \in rt /\ Fam(p) # old.fam
  BY <1>0, <1>2 DEF Covers, CoversRefresh
<1>4. Minted' = Minted /\ (\A p \in Pairs : Fam(p)' = Fam(p)) /\ rt \subseteq Minted /\ Minted \subseteq Pairs
      /\ \A p \in Minted : Fam(p) \in Pairs
  BY <1>2 DEF Minted, Fam, ForkInv, Lineage
<1>5. \A p : Denied(p) => Denied(p)'
  BY <1>0, <1>2 DEF Denied
<1>6. \A p \in old.ajtis : Denied(p)'
  BY <1>1, <1>2 DEF Denied
<1>7. LiveStage'
  BY <1>2 DEF RInv, LiveStage
<1>8. RefreshReachable' /\ IndexReachable'
  BY <1>2, <1>3, <1>4 DEF RInv, WithinReach, RefreshReachable, IndexReachable, TypeInv, TypeOK, Fam
<1>9. AccessReachable'
  <2> SUFFICES ASSUME NEW p \in Minted, p \notin escaped, stage[p] = "access"
               PROVE  p \in rta'[Fam(p)] \/ Denied(p)'
    BY <1>2, <1>4 DEF AccessReachable, Denied, Fam
  <2>1. p \in rta[Fam(p)] \/ Denied(p)
    BY DEF RInv, WithinReach, AccessReachable, Denied
  <2>2. CASE Fam(p) = old.fam
    BY <1>0, <1>5, <1>6, <2>2 DEF Covers, CoversAccess
  <2>3. CASE Fam(p) # old.fam
    BY <1>2, <1>4, <1>5, <2>1, <2>3 DEF TypeInv, TypeOK
  <2> QED BY <2>2, <2>3
<1>10. ASSUME NEW s \in Procs PROVE Covers(req[s])'
  <2>1. CASE s = r
    <3>1. CoversRefresh(req[s])' /\ CoversAccess(req[s])'
      BY <1>1, <1>2, <2>1 DEF CoversRefresh, CoversAccess
    <3>2. CoversIndex(req[s])'
      BY <1>0, <1>1, <1>2, <1>3, <2>1 DEF Covers, CoversIndex, IndexWindow, Revoking, Fam
    <3> QED BY <3>1, <3>2 DEF Covers
  <2>2. CASE s # r
    <3>1. Covers(req[s]) /\ req'[s] = req[s]
      BY <1>2, <2>2 DEF RInv
    <3>2. CoversRefresh(req[s])' /\ CoversIndex(req[s])'
      BY <1>2, <3>1 DEF Covers, CoversRefresh, CoversIndex, Fam
    <3>3. CoversAccess(req[s])'
      BY <1>2, <1>4, <1>5, <3>1 DEF Covers, CoversAccess, Fam
    <3> QED BY <3>2, <3>3 DEF Covers
  <2> QED BY <2>1, <2>2
<1> QED BY <1>7, <1>8, <1>9, <1>10 DEF RInv, WithinReach

LEMMA IndexCovers ==
  ASSUME TypeInv, ForkInv, RInv, NEW r \in Procs, ReadIndex(r) \/ NextFamily(r) \/ NoMoreFamilies(r)
  PROVE  RInv'
<1> DEFINE old == req[r]
<1>0. old \in Request /\ LocalsOK(old) /\ Covers(old)
  BY ReqTyped DEF RInv
<1>1. CASE ReadIndex(r) /\ idx[old.key] # {}
  <2> DEFINE q == [old EXCEPT !.pc = "all_next", !.todo = idx[old.key]]
  <2>1. /\ q.pc = "all_next" /\ q.todo = idx[old.key] /\ q.key = old.key /\ old.pc = "all_read"
    BY <1>0, <1>1 DEF ReadIndex, Request
  <2>2. Become(r, q) /\ UNCHANGED redis
    BY <1>1 DEF ReadIndex
  <2> HIDE DEF q
  <2>3. Covers(q)
    BY <2>1 DEF RInv, WithinReach, IndexReachable, Covers, CoversRefresh, CoversAccess, CoversIndex
  <2> QED BY <2>1, <2>2, <2>3, ReadStep DEF redis
<1>2. CASE ReadIndex(r) /\ idx[old.key] = {}
  <2>1. Become(r, IndexDone(old)) /\ UNCHANGED redis /\ old.pc = "all_read"
    BY <1>2 DEF ReadIndex
  <2>2. IndexDone(old).pc \notin IndexWindow
    BY <1>0 DEF IndexDone, Idle, Request, IndexWindow, Revoking
  <2> QED BY <2>1, <2>2, OutsideStep DEF redis
<1>3. CASE NextFamily(r)
  <2>1. PICK f \in old.todo : Become(r, [old EXCEPT !.pc = "rvk_rtf", !.fam = f, !.todo = @ \ {f}])
    BY <1>3 DEF NextFamily
  <2> DEFINE q == [old EXCEPT !.pc = "rvk_rtf", !.fam = f, !.todo = @ \ {f}]
  <2>2. /\ q.pc = "rvk_rtf" /\ q.fam = f /\ q.todo = old.todo \ {f} /\ q.key = old.key
        /\ old.pc = "all_next"
    BY <1>0, <1>3 DEF NextFamily, Request
  <2>3. Become(r, q) /\ UNCHANGED redis
    BY <1>3, <2>1 DEF NextFamily
  <2> HIDE DEF q
  <2>4. Covers(q)
    BY <1>0, <2>2 DEF Covers, CoversRefresh, CoversAccess, CoversIndex, IndexWindow
  <2> QED BY <2>2, <2>3, <2>4, ReadStep DEF redis
<1>4. CASE NoMoreFamilies(r)
  <2> DEFINE q == [old EXCEPT !.pc = "all_del"]
  <2>1. /\ q.pc = "all_del" /\ q.todo = {} /\ q.key = old.key /\ old.todo = {}
        /\ old.pc = "all_next"
    BY <1>0, <1>4 DEF NoMoreFamilies, Request
  <2>2. Become(r, q) /\ UNCHANGED redis
    BY <1>4 DEF NoMoreFamilies, Goto
  <2> HIDE DEF q
  <2>3. Covers(q)
    BY <1>0, <2>1 DEF Covers, CoversRefresh, CoversAccess, CoversIndex, IndexWindow
  <2> QED BY <2>1, <2>2, <2>3, ReadStep DEF redis
<1> QED BY <1>1, <1>2, <1>3, <1>4

(* The index is deleted: no live token under it has not escaped. *)
LEMMA DeleteIndexCovers ==
  ASSUME TypeInv, ForkInv, RInv, NEW r \in Procs, DeleteIndex(r)
  PROVE  RInv'
<1> DEFINE old == req[r]
           q == IndexDone(old)
<1>0. /\ old \in Request /\ LocalsOK(old) /\ Covers(old) /\ old.pc = "all_del"
      /\ old.key \in Keys /\ old.key # None
  BY ReqTyped, ConstAssumption DEF RInv, DeleteIndex, LocalsOK, Keys
<1>1. q.pc \notin IndexWindow
  BY <1>0 DEF IndexDone, Idle, Request, IndexWindow, Revoking
<1>2. /\ req'[r] = q
      /\ \A s \in Procs : s # r => req'[s] = req[s]
      /\ UNCHANGED <<jwt, stage, rt, rtf, rta, bl, escaped>>
      /\ idx' = [idx EXCEPT ![old.key] = {}]
  BY DEF DeleteIndex, Become, TypeInv, TypeOK
<1> HIDE DEF q
<1>3. \A p \in rt \ escaped : old.key \notin {jwt[p].user, jwt[p].app}
  BY <1>0 DEF Covers, CoversIndex, IndexWindow
<1>4. \A p : Denied(p) => Denied(p)'
  BY <1>0, <1>2 DEF Denied
<1>5. LiveStage' /\ RefreshReachable'
  BY <1>2 DEF RInv, LiveStage, WithinReach, RefreshReachable, Fam
<1>6. AccessReachable'
  <2> SUFFICES ASSUME NEW p \in Minted, p \notin escaped, stage[p] = "access"
               PROVE  p \in rta[Fam(p)] \/ Denied(p)'
    BY <1>2 DEF AccessReachable, Denied, Fam, Minted
  <2> QED BY <1>4 DEF RInv, WithinReach, AccessReachable, Denied
<1>7. IndexReachable'
  <2> SUFFICES ASSUME NEW p \in rt, p \notin escaped, NEW k \in {jwt[p].user, jwt[p].app} \ {None}
               PROVE  Fam(p) \in idx'[k]
    BY <1>2 DEF IndexReachable, Fam
  <2>1. k # old.key /\ Fam(p) \in idx[k]
    BY <1>3 DEF RInv, WithinReach, IndexReachable
  <2>2. idx'[k] = idx[k]
    BY <1>2, <2>1 DEF TypeInv, TypeOK
  <2> QED BY <2>1, <2>2
<1>8. ASSUME NEW s \in Procs PROVE Covers(req[s])'
  <2>1. CASE s = r
    BY <1>1, <1>2, <2>1 DEF Covers, CoversRefresh, CoversAccess, CoversIndex, IndexWindow, Revoking
  <2>2. CASE s # r
    <3>1. Covers(req[s]) /\ req'[s] = req[s]
      BY <1>2, <2>2 DEF RInv
    <3>2. CoversRefresh(req[s])' /\ CoversIndex(req[s])'
      BY <1>2, <3>1 DEF Covers, CoversRefresh, CoversIndex, Fam
    <3>3. CoversAccess(req[s])'
      BY <1>2, <1>4, <3>1 DEF Covers, CoversAccess, Fam, Minted
    <3> QED BY <3>2, <3>3 DEF Covers
  <2> QED BY <2>1, <2>2
<1> QED BY <1>5, <1>6, <1>7, <1>8 DEF RInv, WithinReach

(* A stored pair is in every set, and no revocation that has read one of them
   is after it, unless it escapes. *)
LEMMA StoreCovers ==
  ASSUME TypeInv, ForkInv, RInv, NEW r \in Procs, NEW n \in Pairs, NEW u \in Users,
         NEW a \in Apps \cup {None}, NEW f \in Pairs, Store(n, u, a, f), Become(r, Idle),
         req[r].pc \notin IndexWindow
  PROVE  RInv'
<1>1. /\ req'[r] = Idle
      /\ \A s \in Procs : s # r => req'[s] = req[s]
  BY DEF Become, TypeInv, TypeOK
<1>2. /\ n \notin rt /\ n \notin Minted /\ rt' = rt \cup {n} /\ Minted' = Minted \cup {n}
      /\ Fam(n)' = f /\ \A p \in Minted : Fam(p)' = Fam(p)
  BY StoreAdds
<1>3. /\ jwt'[n].user = u /\ jwt'[n].app = a /\ \A p \in Minted : jwt'[p] = jwt[p]
      /\ stage'[n] = "access" /\ \A p \in Minted : stage'[p] = stage[p]
      /\ bl' = bl /\ escaped \subseteq escaped'
  BY <1>2 DEF Store, Minted, TypeInv, TypeOK
<1>4. /\ rtf' = [rtf EXCEPT ![f] = @ \cup {n}] /\ rta' = [rta EXCEPT ![f] = @ \cup {n}]
      /\ \A x \in Pairs : rtf[x] \subseteq rtf'[x] /\ rta[x] \subseteq rta'[x]
      /\ n \in rtf'[f] /\ n \in rta'[f]
      /\ \A k \in Keys : idx[k] \subseteq idx'[k]
      /\ \A k \in {u, a} \ {None} : f \in idx'[k]
  BY DEF Store, TypeInv, TypeOK, Keys
<1>5. rt \subseteq Minted /\ Minted \subseteq Pairs /\ \A p \in Minted : Fam(p) \in Pairs
  BY DEF ForkInv, Lineage, Minted
<1>6. \A p : Denied(p) => Denied(p)'
  <2>1. req[r].pc # "rvk_bl"
    BY DEF IndexWindow, Revoking
  <2> QED BY <1>1, <1>3, <2>1 DEF Denied
<1>7. n \notin escaped' => ~InWindow(u, a, f)
  BY DEF Store
<1>8. LiveStage'
  BY <1>2, <1>3, <1>5 DEF RInv, LiveStage
<1>9. RefreshReachable'
  BY <1>2, <1>3, <1>4, <1>5 DEF RInv, WithinReach, RefreshReachable
<1>10. AccessReachable'
  <2> SUFFICES ASSUME NEW p \in Minted', p \notin escaped', stage'[p] = "access"
               PROVE  p \in rta'[Fam(p)'] \/ Denied(p)'
    BY DEF AccessReachable, Denied
  <2>1. CASE p = n
    BY <1>2, <1>4, <2>1
  <2>2. CASE p # n
    <3>1. p \in Minted /\ p \notin escaped /\ stage[p] = "access"
      BY <1>2, <1>3, <2>2
    <3>2. p \in rta[Fam(p)] \/ Denied(p)
      BY <3>1 DEF RInv, WithinReach, AccessReachable, Denied
    <3> QED BY <1>2, <1>4, <1>5, <1>6, <3>1, <3>2
  <2> QED BY <2>1, <2>2
<1>11. IndexReachable'
  <2> SUFFICES ASSUME NEW p \in rt', p \notin escaped',
                      NEW k \in {jwt'[p].user, jwt'[p].app} \ {None}
               PROVE  Fam(p)' \in idx'[k]
    BY DEF IndexReachable
  <2>1. CASE p = n
    BY <1>2, <1>3, <1>4, <2>1
  <2>2. CASE p # n
    <3>1. p \in rt /\ p \in Minted /\ p \notin escaped /\ k \in {jwt[p].user, jwt[p].app} \ {None}
      BY <1>2, <1>3, <1>5, <2>2
    <3>2. k \in Keys
      BY <3>1 DEF Minted, TypeInv, TypeOK, Jwt, Keys
    <3> QED BY <1>2, <1>4, <3>1, <3>2 DEF RInv, WithinReach, IndexReachable
  <2> QED BY <2>1, <2>2
<1>12. ASSUME NEW s \in Procs PROVE Covers(req[s])'
  <2>1. CASE s = r
    BY <1>1, <2>1
       DEF Covers, CoversRefresh, CoversAccess, CoversIndex, IndexWindow, Revoking, Idle
  <2>2. CASE s # r
    <3>1. Covers(req[s]) /\ req'[s] = req[s]
      BY <1>1, <2>2 DEF RInv
    <3>2. n \notin escaped' =>
            /\ req[s].pc \in {"rvk_rta", "rvk_del"} => req[s].fam # f
            /\ req[s].pc \in IndexWindow => req[s].key \notin {u, a} \ {None}
      BY <1>7 DEF InWindow
    <3>3. CoversRefresh(req[s])'
      BY <1>2, <1>3, <1>5, <3>1, <3>2 DEF Covers, CoversRefresh
    <3>4. CoversAccess(req[s])'
      <4> SUFFICES ASSUME req[s].pc = "rvk_del", NEW p \in Minted', p \notin escaped',
                          stage'[p] = "access", Fam(p)' = req[s].fam
                   PROVE  p \in req[s].ajtis \/ Denied(p)'
        BY <3>1 DEF CoversAccess
      <4>1. p # n /\ p \in Minted
        BY <1>2, <3>2
      <4>2. p \in req[s].ajtis \/ Denied(p)
        BY <1>2, <1>3, <3>1, <4>1 DEF Covers, CoversAccess
      <4> QED BY <1>6, <4>2
    <3>5. CoversIndex(req[s])'
      BY <1>2, <1>3, <1>5, <3>1, <3>2 DEF Covers, CoversIndex
    <3> QED BY <3>3, <3>4, <3>5 DEF Covers
  <2> QED BY <2>1, <2>2
<1> QED BY <1>8, <1>9, <1>10, <1>11, <1>12 DEF RInv, WithinReach

LEMMA HandlerCovers ==
  ASSUME TypeInv, ForkInv, RInv, NEW r \in Procs, HandlerStep(r)
  PROVE  RInv'
<1>0. req[r] \in Request /\ LocalsOK(req[r])
  BY ReqTyped
<1>1. Idle.pc \notin IndexWindow
  BY DEF Idle, IndexWindow, Revoking
<1>2. CASE LoginStore(r)
  <2>1. req[r].user \in Users /\ req[r].app \in Apps \cup {None} /\ req[r].pc \notin IndexWindow
    BY <1>0, <1>2 DEF LoginStore, LocalsOK, Request, IndexWindow, Revoking
  <2> QED BY <1>2, <2>1, StoreCovers DEF LoginStore
<1>3. CASE RotateStore(r)
  <2>1. /\ req[r].user \in Users /\ req[r].app \in Apps \cup {None} /\ req[r].fam \in Pairs
        /\ req[r].pc \notin IndexWindow
    BY <1>0, <1>3 DEF RotateStore, LocalsOK, Request, IndexWindow, Revoking, Rotating
  <2> QED BY <1>3, <2>1, StoreCovers DEF RotateStore
<1>4. CASE LoginStanding(r) \/ RotateUser(r) \/ RotateStanding(r)
  BY <1>4, OutsideGoto
     DEF LoginStanding, RotateUser, RotateStanding, redis, Labels, IndexWindow, Revoking, Rotating
<1>5. CASE LoginFails(r)
  BY <1>1, <1>5, OutsideStep DEF LoginFails, redis
<1>6. CASE RotateFails(r)
  <2>1. /\ Covers(Revoke(req[r].fam)) /\ Become(r, Revoke(req[r].fam))
        /\ req[r].pc # "rvk_bl" /\ UNCHANGED redis
    BY <1>6, NothingToCover DEF RotateFails, Rotating
  <2> QED BY <2>1, ReadStep DEF redis
<1>7. CASE ReadRtf(r) \/ ReadRta(r) \/ BlacklistNext(r) \/ FamilyRevoked(r) \/ DeleteFamily(r)
  BY <1>7, FamilyCovers, DeleteFamilyCovers
<1>8. CASE ReadIndex(r) \/ NextFamily(r) \/ NoMoreFamilies(r) \/ DeleteIndex(r)
  BY <1>8, IndexCovers, DeleteIndexCovers
<1>9. CASE BlacklistOwn(r)
  <2>1. bl \subseteq bl'
    BY <1>9 DEF BlacklistOwn
  <2> QED BY <1>1, <1>9, <2>1, OutsideStep DEF BlacklistOwn
<1>10. CASE Mark(r) \/ Clear(r)
  BY <1>1, <1>10, OutsideGoto, OutsideStep DEF Mark, Clear, redis, Labels, IndexWindow, Revoking
<1>11. CASE CommitStatus(r)
  BY <1>1, <1>11, OutsideStep DEF CommitStatus, redis
<1> QED BY <1>2, <1>3, <1>4, <1>5, <1>6, <1>7, <1>8, <1>9, <1>10, <1>11 DEF HandlerStep

LEMMA ArrivalCovers ==
  ASSUME TypeInv, ForkInv, RInv, NEW r \in Procs, Arrival(r)
  PROVE  RInv'
<1>1. \A k, u, then, own : RevokeIndex(k, u, then, own).pc \notin IndexWindow
  BY DEF Idle, RevokeIndex, IndexWindow, Revoking
<1>2. ASSUME NEW u \in Users, NEW a \in Apps \cup {None}, LoginUser(r, u, a) PROVE RInv'
  <2>1. [Idle EXCEPT !.pc = "iss_ws", !.user = u, !.app = a].pc \notin IndexWindow
    BY DEF Idle, IndexWindow, Revoking
  <2> QED BY <1>2, <2>1, OutsideStep DEF LoginUser, redis
<1>3. ASSUME NEW p \in Pairs, Consume(r, p) PROVE RInv'
  <2> DEFINE q == [Idle EXCEPT !.pc = "rot_user", !.user = jwt[p].user,
                               !.app = jwt[p].app, !.fam = Fam(p)]
  <2>1. q.pc \notin IndexWindow
    BY DEF Idle, IndexWindow, Revoking
  <2>2. Become(r, q) /\ rt' \subseteq rt /\ req[r].pc # "rvk_bl"
        /\ UNCHANGED <<jwt, stage, rtf, rta, bl, idx, escaped>>
    BY <1>3 DEF Consume, Presented
  <2> HIDE DEF q
  <2> QED BY <2>1, <2>2, OutsideStep
<1>4. ASSUME NEW p \in Pairs, DetectReuse(r, p) PROVE RInv'
  <2>1. /\ Covers(Revoke(Fam(p))) /\ Become(r, Revoke(Fam(p)))
        /\ req[r].pc # "rvk_bl" /\ UNCHANGED redis
    BY <1>4, NothingToCover DEF DetectReuse, Presented
  <2> QED BY <2>1, ReadStep DEF redis
<1>5. ASSUME NEW p \in Pairs, Logout(r, p) PROVE RInv'
  BY <1>1, <1>5, OutsideStep DEF Logout, redis
<1>6. ASSUME NEW k \in Keys, RevokeKey(r, k) PROVE RInv'
  BY <1>1, <1>6, OutsideStep DEF RevokeKey, redis
<1>7. ASSUME NEW u \in Users, RemoveMember(r, u) \/ UpdateUserOff(r, u) \/ BulkOff(r, u) PROVE RInv'
  BY <1>1, <1>7, OutsideStep DEF RemoveMember, UpdateUserOff, BulkOff, MayChangeStatus, redis
<1>8. ASSUME NEW u \in Users, UpdateUserOn(r, u) \/ BulkOn(r, u) PROVE RInv'
  <2>1. \A l \in {"clear", "clear_tx"} :
          [Idle EXCEPT !.pc = l, !.user = u, !.then = l].pc \notin IndexWindow
    BY DEF Idle, IndexWindow, Revoking
  <2> QED BY <1>8, <2>1, OutsideStep DEF UpdateUserOn, BulkOn, MayChangeStatus, redis
<1> QED BY <1>2, <1>3, <1>4, <1>5, <1>6, <1>7, <1>8 DEF Arrival

(* Expiry takes a token or a set whose tokens are all dead; a crash drops the
   locals, and with them what they were about to denylist. *)
LEMMA EnvironmentCovers ==
  ASSUME TypeInv, ForkInv, RInv, Environment
  PROVE  RInv'
<1>1. ASSUME NEW u \in Users, ChangeStanding(u) PROVE RInv'
  BY <1>1 DEF ChangeStanding, redis, RInv, LiveStage, WithinReach, RefreshReachable, AccessReachable,
              IndexReachable, Covers, CoversRefresh, CoversAccess, CoversIndex, Denied, Fam, Minted
<1>2. ASSUME NEW x \in Pairs, AccessExpires(x) \/ RefreshExpires(x) PROVE RInv'
  <2>1. /\ UNCHANGED <<jwt, rtf, rta, idx, req, escaped>> /\ rt' \subseteq rt
        /\ \A p \in Pairs : stage'[p] = "access" =>
             stage[p] = "access" /\ (p \in bl => p \in bl')
        /\ LiveStage'
    BY <1>2 DEF AccessExpires, RefreshExpires, RInv, LiveStage, TypeInv, TypeOK
  <2>2. Minted \subseteq Pairs /\ Minted' = Minted /\ \A p : Fam(p)' = Fam(p)
    BY <2>1 DEF Minted, Fam
  <2>3. \A p \in Minted : stage'[p] = "access" /\ Denied(p) => Denied(p)'
    BY <2>1, <2>2 DEF Denied
  <2>4. RefreshReachable' /\ IndexReachable'
    BY <2>1, <2>2 DEF RInv, WithinReach, RefreshReachable, IndexReachable
  <2>5. AccessReachable'
    <3> SUFFICES ASSUME NEW p \in Minted, p \notin escaped, stage'[p] = "access"
                 PROVE  p \in rta[Fam(p)] \/ Denied(p)'
      BY <2>1, <2>2 DEF AccessReachable, Denied
    <3>1. p \in rta[Fam(p)] \/ Denied(p)
      BY <2>1, <2>2 DEF RInv, WithinReach, AccessReachable, Denied
    <3> QED BY <2>3, <3>1
  <2>6. ASSUME NEW s \in Procs PROVE Covers(req[s])'
    <3>1. Covers(req[s])
      BY DEF RInv
    <3>2. CoversRefresh(req[s])' /\ CoversIndex(req[s])'
      BY <2>1, <2>2, <3>1 DEF Covers, CoversRefresh, CoversIndex
    <3>3. CoversAccess(req[s])'
      BY <2>1, <2>2, <2>3, <3>1 DEF Covers, CoversAccess
    <3> QED BY <3>2, <3>3 DEF Covers
  <2> QED BY <2>1, <2>4, <2>5, <2>6 DEF RInv, WithinReach
<1>3. ASSUME UNCHANGED <<jwt, stage, rt, bl, req, escaped>>,
             \A p \in Minted : stage[p] # "dead" =>
               /\ rtf'[Fam(p)] = rtf[Fam(p)] /\ rta'[Fam(p)] = rta[Fam(p)]
               /\ \A k \in {jwt[p].user, jwt[p].app} \ {None} : idx'[k] = idx[k]
      PROVE  RInv'
  <2>1. rt \subseteq Minted /\ \A p \in rt : stage[p] # "dead"
    BY DEF RInv, LiveStage, ForkInv, Lineage
  <2>2. LiveStage' /\ RefreshReachable' /\ AccessReachable' /\ IndexReachable'
    BY <1>3, <2>1 DEF RInv, WithinReach, LiveStage, RefreshReachable, AccessReachable, IndexReachable,
                      Fam, Minted
  <2>3. \A s \in Procs : Covers(req[s])'
    BY <1>3 DEF RInv, Covers, CoversRefresh, CoversAccess, CoversIndex, Denied, Fam, Minted
  <2> QED BY <2>2, <2>3 DEF RInv, WithinReach
<1>4. ASSUME NEW f \in Pairs, FamilyExpires(f) PROVE RInv'
  <2>1. \A p \in Minted : stage[p] # "dead" => Fam(p) # f
    BY <1>4 DEF FamilyExpires
  <2>2. \A p \in Minted : stage[p] # "dead" => rtf'[Fam(p)] = rtf[Fam(p)] /\ rta'[Fam(p)] = rta[Fam(p)]
    BY <1>4, <2>1 DEF FamilyExpires, ForkInv, Lineage, Minted, TypeInv, TypeOK
  <2> QED BY <1>3, <1>4, <2>2 DEF FamilyExpires
<1>5. ASSUME NEW k \in Keys, IndexExpires(k) PROVE RInv'
  <2>1. \A p \in Minted : stage[p] # "dead" => k \notin {jwt[p].user, jwt[p].app}
    BY <1>5 DEF IndexExpires, OfKey
  <2>2. \A p \in Minted : {jwt[p].user, jwt[p].app} \ {None} \subseteq Keys
    BY DEF Minted, TypeInv, TypeOK, Jwt, Keys
  <2>3. ASSUME NEW p \in Minted, stage[p] # "dead", NEW x \in {jwt[p].user, jwt[p].app} \ {None}
        PROVE  idx'[x] = idx[x]
    BY <1>5, <2>1, <2>2, <2>3 DEF IndexExpires, TypeInv, TypeOK
  <2> QED BY <1>3, <1>5, <2>3 DEF IndexExpires
<1>6. ASSUME NEW r \in Procs, Crash(r) PROVE RInv'
  <2>1. /\ Become(r, Idle) /\ UNCHANGED <<jwt, stage, rt, rtf, rta, bl, idx>>
        /\ escaped \subseteq escaped'
        /\ req[r].pc = "rvk_bl" => \A p \in req[r].ajtis : p \in escaped'
    BY <1>6 DEF Crash
  <2>2. Covers(Idle)
    BY NothingToCover DEF Idle, IndexWindow, Revoking
  <2> QED BY <2>1, <2>2, ReadStep
<1> QED BY <1>1, <1>2, <1>4, <1>5, <1>6 DEF Environment

-----------------------------------------------------------------------------

LEMMA InitCovers == Init => RInv
<1> SUFFICES ASSUME Init PROVE RInv
  OBVIOUS
<1>1. \A r \in Procs : req[r].pc \notin IndexWindow
  BY DEF Init, Idle, IndexWindow, Revoking
<1>2. LiveStage /\ WithinReach
  BY DEF Init, LiveStage, WithinReach, RefreshReachable, AccessReachable, IndexReachable, Minted
<1> QED BY <1>1, <1>2, NothingToCover DEF RInv

LEMMA NextCovers == TypeInv /\ ForkInv /\ RInv /\ [Next]_vars => RInv'
<1> SUFFICES ASSUME TypeInv, ForkInv, RInv, [Next]_vars PROVE RInv'
  OBVIOUS
<1>1. ASSUME UNCHANGED vars PROVE RInv'
  BY <1>1 DEF vars, RInv, LiveStage, WithinReach, RefreshReachable, AccessReachable,
              IndexReachable, Covers, CoversRefresh, CoversAccess, CoversIndex, Denied, Fam, Minted
<1> QED BY <1>1, HandlerCovers, ArrivalCovers, EnvironmentCovers DEF Next

(* WithinReach for every instance: however issues, rotations and revocations
   interleave, whatever is live can be found from its family, its user and its
   client app, except what was stored while a revocation that had already read
   the sets was running, or what one that died had read. *)
THEOREM LiveIsReachable == Spec => []WithinReach
<1>1. Init => TypeInv /\ ForkInv /\ RInv
  BY InitTypeInv, InitForkInv, InitCovers
<1>2. TypeInv /\ ForkInv /\ RInv /\ [Next]_vars => (TypeInv /\ ForkInv /\ RInv)'
  BY NextTypeInv, NextForkInv, NextCovers
<1>3. RInv => WithinReach
  BY DEF RInv
<1> QED BY <1>1, <1>2, <1>3, PTL DEF Spec

(* AccessReachable alone: every access token of a family that has not expired
   is in the family's rta: set, is denylisted, or is about to be, however often
   the family was rotated since.  (store_refresh_token, revoke_token_family) *)
THEOREM AccessIsReachable == Spec => []AccessReachable
<1>1. WithinReach => AccessReachable
  BY DEF WithinReach
<1> QED BY <1>1, LiveIsReachable, PTL

-----------------------------------------------------------------------------
(* The cohort of a revocation by key is of that key. *)
CohortOK(q) == q.key # None => q.cohort \subseteq OfKey(q.key)
CohortInv == \A r \in Procs : CohortOK(req[r])

LEMMA OfKeyGrows ==
  ASSUME TypeInv, [Next]_vars
  PROVE  \A k : OfKey(k) \subseteq OfKey(k)'
<1>1. ASSUME NEW q \in Pairs, NEW u, NEW a, NEW f, Store(q, u, a, f)
      PROVE  \A p \in Minted : jwt'[p] = jwt[p]
  BY <1>1 DEF Store, Minted, TypeInv, TypeOK
<1>2. jwt' = jwt \/ \E q \in Pairs : \E u, a, f : Store(q, u, a, f)
  BY DEF Next, HandlerStep, Arrival, Environment, LoginUser, LoginStanding, LoginStore, LoginFails,
     Consume, DetectReuse, RotateUser, RotateStanding, RotateStore, RotateFails, ReadRtf, ReadRta,
     DeleteFamily, BlacklistNext, FamilyRevoked, ReadIndex, NextFamily, NoMoreFamilies, DeleteIndex,
     Logout, BlacklistOwn, RevokeKey, RemoveMember, ChangeStanding, UpdateUserOff, UpdateUserOn,
     BulkOff, BulkOn, Mark, Clear, CommitStatus, AccessExpires, RefreshExpires, FamilyExpires,
     IndexExpires, Crash, vars, redis
<1>3. \A p \in Minted : jwt'[p] = jwt[p]
  BY <1>1, <1>2
<1> QED BY <1>3 DEF OfKey, Minted

(* A step keeps the key and the cohort, drops the key, or begins with both. *)
LEMMA CohortBecome ==
  ASSUME TypeInv, CohortInv, [Next]_vars, NEW r \in Procs, NEW q, Become(r, q),
         \/ q.key = None
         \/ q.key = req[r].key /\ q.cohort = req[r].cohort
         \/ q.cohort \subseteq OfKey(q.key)
  PROVE  CohortInv'
<1>1. req'[r] = q /\ \A s \in Procs : s # r => req'[s] = req[s]
  BY DEF Become, TypeInv, TypeOK
<1>2. CohortOK(q)
  BY DEF CohortInv, CohortOK
<1>3. \A s \in Procs : CohortOK(req[s])'
  BY <1>1, <1>2, OfKeyGrows DEF CohortInv, CohortOK
<1> QED BY <1>3 DEF CohortInv

(* What each handler step does to the key and the cohort. *)
LEMMA HandlerKey ==
  ASSUME TypeInv, NEW r \in Procs, HandlerStep(r)
  PROVE  \E q : /\ Become(r, q)
                /\ q.key = None \/ (q.key = req[r].key /\ q.cohort = req[r].cohort)
<1>0. req[r] \in Request
  BY ReqTyped
<1>1. Idle.key = None /\ \A f : Revoke(f).key = None
  BY DEF Idle, Revoke
<1>2. \/ FamilyDone(req[r]).key = None
      \/ FamilyDone(req[r]).key = req[r].key /\ FamilyDone(req[r]).cohort = req[r].cohort
  BY <1>0, <1>1 DEF FamilyDone, Request
<1>3. IndexDone(req[r]).key = None
  BY <1>0, <1>1 DEF IndexDone, Request
<1>4. ASSUME NEW l, Goto(r, l)
      PROVE  \E q : Become(r, q) /\ q.key = req[r].key /\ q.cohort = req[r].cohort
  BY <1>0, <1>4 DEF Goto, Request
<1>5. CASE ReadRtf(r)
  <2> DEFINE q == [req[r] EXCEPT !.pc = "rvk_rta", !.jtis = rtf[req[r].fam]]
  <2>1. q.key = req[r].key /\ q.cohort = req[r].cohort
    BY <1>0 DEF Request
  <2> HIDE DEF q
  <2>2. Become(r, q)
    BY <1>5 DEF ReadRtf, q
  <2> QED BY <2>1, <2>2
<1>6. CASE ReadRta(r)
  <2> DEFINE q == [req[r] EXCEPT !.pc = "rvk_del", !.ajtis = rta[req[r].fam]]
  <2>1. q.key = req[r].key /\ q.cohort = req[r].cohort
    BY <1>0 DEF Request
  <2>2. Become(r, FamilyDone(req[r])) \/ Become(r, q)
    BY <1>6 DEF ReadRta
  <2> HIDE DEF q
  <2> QED BY <1>2, <2>1, <2>2
<1>7. CASE DeleteFamily(r)
  <2> DEFINE q == [req[r] EXCEPT !.pc = "rvk_bl", !.jtis = {}]
  <2>1. q.key = req[r].key /\ q.cohort = req[r].cohort
    BY <1>0 DEF Request
  <2> HIDE DEF q
  <2>2. Become(r, q)
    BY <1>7 DEF DeleteFamily, q
  <2> QED BY <2>1, <2>2
<1>8. CASE BlacklistNext(r)
  BY <1>0, <1>8 DEF BlacklistNext, Request
<1>9. CASE FamilyRevoked(r)
  BY <1>2, <1>9 DEF FamilyRevoked
<1>10. CASE ReadIndex(r)
  <2> DEFINE q == [req[r] EXCEPT !.pc = "all_next", !.todo = idx[req[r].key]]
  <2>1. q.key = req[r].key /\ q.cohort = req[r].cohort
    BY <1>0 DEF Request
  <2>2. Become(r, IndexDone(req[r])) \/ Become(r, q)
    BY <1>10 DEF ReadIndex
  <2> HIDE DEF q
  <2> QED BY <1>3, <2>1, <2>2
<1>11. CASE NextFamily(r)
  <2> PICK f \in req[r].todo :
        Become(r, [req[r] EXCEPT !.pc = "rvk_rtf", !.fam = f, !.todo = @ \ {f}])
    BY <1>11 DEF NextFamily
  <2> DEFINE q == [req[r] EXCEPT !.pc = "rvk_rtf", !.fam = f, !.todo = @ \ {f}]
  <2>1. q.key = req[r].key /\ q.cohort = req[r].cohort
    BY <1>0 DEF Request
  <2> HIDE DEF q
  <2>2. Become(r, q)
    BY DEF q
  <2> QED BY <2>1, <2>2
<1>12. CASE DeleteIndex(r)
  BY <1>3, <1>12 DEF DeleteIndex
<1>13. CASE LoginStanding(r) \/ RotateUser(r) \/ RotateStanding(r) \/ NoMoreFamilies(r)
  BY <1>4, <1>13 DEF LoginStanding, RotateUser, RotateStanding, NoMoreFamilies
<1>14. CASE LoginStore(r) \/ LoginFails(r) \/ RotateStore(r) \/ RotateFails(r) \/ BlacklistOwn(r)
  BY <1>1, <1>14 DEF LoginStore, LoginFails, RotateStore, RotateFails, BlacklistOwn
<1>15. CASE Mark(r) \/ Clear(r) \/ CommitStatus(r)
  BY <1>1, <1>4, <1>15 DEF Mark, Clear, CommitStatus
<1> QED BY <1>5, <1>6, <1>7, <1>8, <1>9, <1>10, <1>11, <1>12, <1>13, <1>14, <1>15 DEF HandlerStep

LEMMA ArrivalKey ==
  ASSUME NEW r \in Procs, Arrival(r)
  PROVE  /\ req[r].pc = "idle"
         /\ \E q : Become(r, q) /\ (q.key = None \/ q.cohort \subseteq OfKey(q.key))
<1>1. \A k, u, then, own : LET q == RevokeIndex(k, u, then, own) IN
        q.cohort \subseteq OfKey(q.key)
  BY DEF RevokeIndex, Idle
<1>2. \A f : Revoke(f).key = None
  BY DEF Idle, Revoke
<1>3. ASSUME NEW u \in Users, NEW a \in Apps \cup {None}, LoginUser(r, u, a)
      PROVE  \E q : Become(r, q) /\ q.key = None
  <2> DEFINE q == [Idle EXCEPT !.pc = "iss_ws", !.user = u, !.app = a]
  <2>1. q.key = None
    BY DEF Idle
  <2> HIDE DEF q
  <2>2. Become(r, q)
    BY <1>3 DEF LoginUser, q
  <2> QED BY <2>1, <2>2
<1>4. ASSUME NEW p \in Pairs, Consume(r, p) PROVE \E q : Become(r, q) /\ q.key = None
  <2> DEFINE q == [Idle EXCEPT !.pc = "rot_user", !.user = jwt[p].user,
                               !.app = jwt[p].app, !.fam = Fam(p)]
  <2>1. q.key = None
    BY DEF Idle
  <2> HIDE DEF q
  <2>2. Become(r, q)
    BY <1>4 DEF Consume, q
  <2> QED BY <2>1, <2>2
<1>5. ASSUME NEW u \in Users, UpdateUserOn(r, u) \/ BulkOn(r, u)
      PROVE  \E q : Become(r, q) /\ q.key = None
  <2>1. PICK l \in {"clear", "clear_tx"} : Become(r, [Idle EXCEPT !.pc = l, !.user = u, !.then = l])
    BY <1>5 DEF UpdateUserOn, BulkOn
  <2> DEFINE q == [Idle EXCEPT !.pc = l, !.user = u, !.then = l]
  <2>2. q.key = None
    BY DEF Idle
  <2> HIDE DEF q
  <2>3. Become(r, q)
    BY <2>1 DEF q
  <2> QED BY <2>2, <2>3
<1>6. ASSUME NEW p \in Pairs, DetectReuse(r, p) PROVE \E q : Become(r, q) /\ q.key = None
  BY <1>2, <1>6 DEF DetectReuse
<1>7. (\E k, u, then, own : Become(r, RevokeIndex(k, u, then, own))) =>
        \E q : Become(r, q) /\ q.cohort \subseteq OfKey(q.key)
  BY <1>1
<1>8. (\E q : Become(r, q) /\ q.key = None) \/ \E k, u, then, own : Become(r, RevokeIndex(k, u, then, own))
  BY <1>3, <1>4, <1>5, <1>6 DEF Arrival, Logout, RevokeKey, RemoveMember, UpdateUserOff, BulkOff
<1>9. req[r].pc = "idle"
  BY DEF Arrival, LoginUser, Consume, DetectReuse, Presented, Logout, RevokeKey, RemoveMember,
     UpdateUserOff, UpdateUserOn, BulkOff, BulkOn, MayChangeStatus
<1> QED BY <1>7, <1>8, <1>9

LEMMA NextCohort == TypeInv /\ CohortInv /\ [Next]_vars => CohortInv'
<1> SUFFICES ASSUME TypeInv, CohortInv, [Next]_vars PROVE CohortInv'
  OBVIOUS
<1>1. ASSUME NEW r \in Procs, HandlerStep(r) PROVE CohortInv'
  BY <1>1, HandlerKey, CohortBecome
<1>2. ASSUME NEW r \in Procs, Arrival(r) PROVE CohortInv'
  BY <1>2, ArrivalKey, CohortBecome
<1>3. ASSUME NEW r \in Procs, Crash(r) PROVE CohortInv'
  <2>1. Idle.key = None
    BY DEF Idle
  <2> QED BY <1>3, <2>1, CohortBecome DEF Crash
<1>4. ASSUME req' = req, jwt' = jwt PROVE CohortInv'
  BY <1>4 DEF CohortInv, CohortOK, OfKey, Minted
<1>5. CASE UNCHANGED vars
  BY <1>4, <1>5 DEF vars
<1>6. CASE Environment
  BY <1>3, <1>4, <1>6 DEF Environment, ChangeStanding, AccessExpires, RefreshExpires, FamilyExpires,
     IndexExpires, redis
<1> QED BY <1>1, <1>2, <1>5, <1>6 DEF Next

(* As a revocation by key returns, nothing live under its key has not escaped:
   it found no family listed, or it has revoked every family it found. *)
LEMMA NothingLeft ==
  ASSUME TypeInv, RInv, NEW r \in Procs, ReadIndex(r) \/ DeleteIndex(r), req'[r].pc # "all_next"
  PROVE  /\ req[r].key # None /\ rt' = rt
         /\ \A p \in rt \ escaped : req[r].key \notin {jwt[p].user, jwt[p].app}
<1>1. req[r] \in Request /\ LocalsOK(req[r]) /\ Covers(req[r])
  BY ReqTyped DEF RInv
<1>2. req[r].key \in Keys /\ req[r].key # None
  BY <1>1, ConstAssumption DEF ReadIndex, DeleteIndex, LocalsOK, Keys
<1>3. CASE DeleteIndex(r)
  BY <1>1, <1>2, <1>3 DEF DeleteIndex, Covers, CoversIndex, IndexWindow
<1>4. CASE ReadIndex(r)
  <2>1. idx[req[r].key] = {}
    <3>1. SUFFICES ASSUME idx[req[r].key] # {} PROVE req'[r].pc = "all_next"
      OBVIOUS
    <3>2. Become(r, [req[r] EXCEPT !.pc = "all_next", !.todo = idx[req[r].key]])
      BY <1>4, <3>1 DEF ReadIndex
    <3> QED BY <1>1, <3>2 DEF Become, Request, TypeInv, TypeOK
  <2>2. \A p \in rt \ escaped : req[r].key \notin {jwt[p].user, jwt[p].app}
    BY <1>2, <2>1 DEF RInv, WithinReach, IndexReachable
  <2> QED BY <1>2, <1>4, <2>2 DEF ReadIndex, redis
<1> QED BY <1>3, <1>4

LEMMA ReturnIsThorough ==
  ASSUME TypeInv, RInv, CohortInv, [Next]_vars, NEW r \in Procs, ReturnsFromIndex(r)
  PROVE  (req[r].cohort \ escaped) \cap rt' = {}
<1>1. req'[r] # req[r]
  BY DEF ReturnsFromIndex, IndexWindow
<1>2. ASSUME NEW s \in Procs, s # r, NEW q, Become(s, q) PROVE FALSE
  BY <1>1, <1>2 DEF Become, TypeInv, TypeOK
<1>3. ASSUME NEW s \in Procs, Crash(s) PROVE FALSE
  BY <1>3 DEF Crash, ReturnsFromIndex, TypeInv, TypeOK
<1>4. HandlerStep(r) \/ Arrival(r)
  <2>1. ~Environment /\ ~UNCHANGED vars
    BY <1>1, <1>3 DEF Environment, ChangeStanding, AccessExpires, RefreshExpires, FamilyExpires,
       IndexExpires, vars
  <2> QED BY <1>2, <2>1, HandlerKey, ArrivalKey DEF Next
<1>5. req[r].pc \in {"all_read", "all_del"} /\ req'[r].pc # "all_next"
  BY DEF ReturnsFromIndex, IndexWindow
<1>6. ReadIndex(r) \/ DeleteIndex(r)
  BY <1>4, <1>5, ArrivalKey DEF HandlerStep, LoginStanding, LoginStore, LoginFails, RotateUser,
     RotateStanding, RotateStore, RotateFails, Rotating, ReadRtf, ReadRta, DeleteFamily,
     BlacklistNext, FamilyRevoked, NextFamily, NoMoreFamilies, BlacklistOwn, Mark, Clear, CommitStatus
<1>7. /\ req[r].key # None /\ rt' = rt
      /\ \A p \in rt \ escaped : req[r].key \notin {jwt[p].user, jwt[p].app}
  BY <1>5, <1>6, NothingLeft
<1>8. \A p \in req[r].cohort : req[r].key \in {jwt[p].user, jwt[p].app}
  BY <1>7 DEF CohortInv, CohortOK, OfKey
<1> QED BY <1>7, <1>8

(* RevokeAllIsThorough for every instance: when the revocation of everything
   under a user or an app returns, no refresh token that was live as it was
   called is live, whatever rotations, logins and other revocations ran in
   between; only what escaped an earlier revocation may be.
   (revoke_all_user_tokens, revoke_app_tokens) *)
THEOREM RevokingAllIsThorough == Spec => RevokeAllIsThorough
<1> DEFINE Inv == TypeInv /\ ForkInv /\ RInv /\ CohortInv
<1>1. Init => Inv
  <2>1. Init => CohortInv
    BY DEF Init, CohortInv, CohortOK, Idle
  <2> QED BY <2>1, InitTypeInv, InitForkInv, InitCovers
<1>2. Inv /\ [Next]_vars => Inv'
  BY NextTypeInv, NextForkInv, NextCovers, NextCohort
<1>3. Inv /\ [Next]_vars =>
        [\A r \in Procs : ReturnsFromIndex(r) => (req[r].cohort \ escaped) \cap rt' = {}]_vars
  BY ReturnIsThorough
<1> QED BY <1>1, <1>2, <1>3, PTL DEF Spec, RevokeAllIsThorough
=============================================================================
