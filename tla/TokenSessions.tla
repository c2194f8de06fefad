--------------------------- MODULE TokenSessions ---------------------------
(***************************************************************************)
(* Login sessions: the refresh-token families that token_service keeps in  *)
(* Redis, and the request handlers that issue, rotate and revoke them.     *)
(*                                                                         *)
(* A "pair" is one refresh token together with the access token minted     *)
(* with it; a family is named by the pair it started with.  A handler is a *)
(* coroutine: everything between two awaits on Redis or Postgres is one    *)
(* action, and other handlers run at every await.  req[r] is handler r's   *)
(* program counter and local variables.                                    *)
(***************************************************************************)
EXTENDS Naturals, FiniteSets

CONSTANTS Users,        \* users, each in the one workspace of the model
          Apps,         \* client apps a login may be made through
          Pairs,        \* refresh/access pairs that may be minted
          Procs,        \* request handlers that may be in flight together
          None,         \* Python's None, and the empty segment of an rt: value
          MaxCrashes,   \* bound: handlers that may die between two awaits
          SerialAdmins, \* TRUE: status changes of one user do not overlap
          Workload      \* bound: the kinds of requests and events that happen

(* What the claims of a pair say (sub, client app of the login, fid). *)
Jwt == [user: Users, app: Apps \cup {None}, fam: Pairs]

ASSUME ConstAssumption ==
  /\ Users \cap Apps = {}
  /\ None \notin Users \cup Apps \cup Pairs
  /\ None \notin Jwt
  /\ MaxCrashes \in Nat
  /\ SerialAdmins \in BOOLEAN
  /\ Workload \subseteq {"login", "refresh", "logout", "revoke", "standing", "status", "expiry"}

VARIABLES active,    \* User.is_active, as committed
          standing,  \* membership row present and the org gates open, as committed
          deact,     \* users with a deactivated:{user} flag
          jwt,       \* what the signed pair says, None if not minted
          stage,     \* which of the pair's two JWTs are still unexpired
          rt,        \* pairs with a live rt:{jti} key
          rtf,       \* rtf:{family}: refresh jtis stored in the family
          rta,       \* rta:{family}: access jtis stored in the family
          bl,        \* bl:{jti}: denylisted access jtis
          idx,       \* uf:{user} and cap:{app}: families of a user, of an app
          req,       \* the handlers
          escaped,   \* history: pairs stored inside a revocation's window, or
                     \* dropped by a revocation that died half way
          crashes    \* handlers that died so far

vars == <<active, standing, deact, jwt, stage, rt, rtf, rta, bl, idx, req,
          escaped, crashes>>

redis == <<jwt, stage, rt, rtf, rta, bl, idx, escaped>>
db == <<active, standing>>

Keys == Users \cup Apps

(***************************************************************************)
(* Program counters.  A revocation of one family runs rvk_rtf, rvk_rta,    *)
(* rvk_del, rvk_bl; a revocation of a whole index runs all_read, then      *)
(* all_next and one family revocation per family, then all_del.            *)
(***************************************************************************)
Rotating == {"rot_user", "rot_ws", "rot_store"}
Revoking == {"rvk_rtf", "rvk_rta", "rvk_del", "rvk_bl"}
IndexWindow == Revoking \cup {"all_next", "all_del"}
Labels == {"idle", "iss_ws", "iss_store", "all_read", "own_bl", "mark",
           "mark_tx", "commit_off", "clear", "clear_tx", "commit_on"}
          \cup Rotating \cup IndexWindow

Request == [pc: Labels, user: Users \cup {None}, app: Apps \cup {None},
            fam: Pairs \cup {None}, jtis: SUBSET Pairs, ajtis: SUBSET Pairs,
            key: Keys \cup {None}, todo: SUBSET Pairs, cohort: SUBSET Pairs,
            own: Pairs \cup {None},
            then: {"idle", "own_bl", "mark", "mark_tx", "clear", "clear_tx"}]

Idle == [pc |-> "idle", user |-> None, app |-> None, fam |-> None, jtis |-> {},
         ajtis |-> {}, key |-> None, todo |-> {}, cohort |-> {}, own |-> None,
         then |-> "idle"]

Minted == {p \in Pairs : jwt[p] # None}
Fam(p) == jwt[p].fam
OfKey(k) == {p \in Minted : jwt[p].user = k \/ jwt[p].app = k}

TypeOK ==
  /\ active \in [Users -> BOOLEAN]
  /\ standing \in [Users -> BOOLEAN]
  /\ deact \in SUBSET Users
  /\ jwt \in [Pairs -> Jwt \cup {None}]
  /\ stage \in [Pairs -> {"new", "access", "refresh", "dead"}]
  /\ rt \in SUBSET Pairs
  /\ rtf \in [Pairs -> SUBSET Pairs]
  /\ rta \in [Pairs -> SUBSET Pairs]
  /\ bl \in SUBSET Pairs
  /\ idx \in [Keys -> SUBSET Pairs]
  /\ req \in [Procs -> Request]
  /\ escaped \in SUBSET Pairs
  /\ crashes \in 0 .. MaxCrashes

Init ==
  /\ active = [u \in Users |-> TRUE]
  /\ standing = [u \in Users |-> TRUE]
  /\ deact = {}
  /\ jwt = [p \in Pairs |-> None]
  /\ stage = [p \in Pairs |-> "new"]
  /\ rt = {}
  /\ rtf = [f \in Pairs |-> {}]
  /\ rta = [f \in Pairs |-> {}]
  /\ bl = {}
  /\ idx = [k \in Keys |-> {}]
  /\ req = [r \in Procs |-> Idle]
  /\ escaped = {}
  /\ crashes = 0

-----------------------------------------------------------------------------
(* A step of handler r ends with locals q; or changes only its program
   counter. *)
Become(r, q) == req' = [req EXCEPT ![r] = q]
Goto(r, label) == Become(r, [req[r] EXCEPT !.pc = label])

(* What store_refresh_token writes, in one MULTI pipeline. *)

(* Some revocation has already read the sets this store adds to and has not
   yet deleted them. *)
InWindow(u, a, f) ==
  \E r \in Procs :
    \/ req[r].pc \in {"rvk_rta", "rvk_del"} /\ req[r].fam = f
    \/ req[r].pc \in IndexWindow /\ req[r].key \in ({u, a} \ {None})

(* Mutant of Store: no SADD to rta: on rotation. *)
StoreRtaAtLoginOnly(q, u, a, f) ==
  /\ q \notin Minted
  /\ jwt' = [jwt EXCEPT ![q] = [user |-> u, app |-> a, fam |-> f]]
  /\ stage' = [stage EXCEPT ![q] = "access"]
  /\ rt' = rt \cup {q}
  /\ rtf' = [rtf EXCEPT ![f] = @ \cup {q}]
  /\ rta' = IF f = q THEN [rta EXCEPT ![f] = @ \cup {q}] ELSE rta
  /\ idx' = [k \in Keys |-> IF k \in {u, a} THEN idx[k] \cup {f} ELSE idx[k]]
  /\ escaped' = IF InWindow(u, a, f) THEN escaped \cup {q} ELSE escaped
  /\ UNCHANGED bl

Store(q, u, a, f) ==
  /\ q \notin Minted
  /\ jwt' = [jwt EXCEPT ![q] = [user |-> u, app |-> a, fam |-> f]]
  /\ stage' = [stage EXCEPT ![q] = "access"]
  /\ rt' = rt \cup {q}
  /\ rtf' = [rtf EXCEPT ![f] = @ \cup {q}]
  /\ rta' = [rta EXCEPT ![f] = @ \cup {q}]
  /\ idx' = [k \in Keys |-> IF k \in {u, a} THEN idx[k] \cup {f} ELSE idx[k]]
  /\ escaped' = IF InWindow(u, a, f) THEN escaped \cup {q} ELSE escaped
  /\ UNCHANGED bl

(* The handler's locals when it enters a family revocation. *)
Revoke(f) == [Idle EXCEPT !.pc = "rvk_rtf", !.fam = f]

(* The handler's locals when it enters a revocation of everything under key
   k, with `then' to run afterwards.  The cohort is history: the refresh
   tokens of k that are live as the revocation is called. *)
RevokeIndex(k, u, then, own) ==
  [Idle EXCEPT !.pc = "all_read", !.key = k, !.user = u, !.then = then,
               !.own = own, !.cohort = rt \cap OfKey(k)]

-----------------------------------------------------------------------------
(* POST /auth/token: the code is already consumed; the user is loaded, then
   issue_tokens checks the membership and the org gates, mints and stores. *)

LoginUser(r, u, a) ==
  /\ req[r].pc = "idle"
  /\ active[u]
  /\ Become(r, [Idle EXCEPT !.pc = "iss_ws", !.user = u, !.app = a])
  /\ UNCHANGED <<db, deact, redis, crashes>>

LoginStanding(r) ==
  /\ req[r].pc = "iss_ws"
  /\ standing[req[r].user]
  /\ Goto(r, "iss_store")
  /\ UNCHANGED <<db, deact, redis, crashes>>

LoginStore(r) ==
  /\ req[r].pc = "iss_store"
  /\ \E q \in Pairs : Store(q, req[r].user, req[r].app, q)
  /\ Become(r, Idle)
  /\ UNCHANGED <<db, deact, crashes>>

(* A check that fails, or an exception, before the store: a 4xx or a 500 and
   nothing is written. *)
LoginFails(r) ==
  /\ req[r].pc \in {"iss_ws", "iss_store"}
  /\ Become(r, Idle)
  /\ UNCHANGED <<db, deact, redis, crashes>>

-----------------------------------------------------------------------------
(* POST /auth/refresh.  Any client that ever saw the refresh token of pair p
   may present it, once or again, while the JWT is unexpired. *)

Presented(r, p) ==
  /\ req[r].pc = "idle"
  /\ p \in Minted
  /\ stage[p] # "dead"

(* Mutants of Consume: GET in place of GETDEL; the segments of the value read
   in the wrong order. *)
ConsumeKeeping(r, p) ==
  /\ Presented(r, p)
  /\ p \in rt
  /\ Become(r, [Idle EXCEPT !.pc = "rot_user", !.user = jwt[p].user,
                            !.app = jwt[p].app, !.fam = Fam(p)])
  /\ UNCHANGED <<db, deact, redis, crashes>>

ConsumeSwapped(r, p) ==
  /\ Presented(r, p)
  /\ p \in rt
  /\ rt' = rt \ {p}
  /\ Become(r, [Idle EXCEPT !.pc = "rot_user", !.user = jwt[p].user,
                            !.app = Fam(p), !.fam = jwt[p].app])
  /\ UNCHANGED <<db, deact, jwt, stage, rtf, rta, bl, idx, escaped, crashes>>

Consume(r, p) ==
  /\ Presented(r, p)
  /\ p \in rt
  /\ rt' = rt \ {p}
  /\ Become(r, [Idle EXCEPT !.pc = "rot_user", !.user = jwt[p].user,
                            !.app = jwt[p].app, !.fam = Fam(p)])
  /\ UNCHANGED <<db, deact, jwt, stage, rtf, rta, bl, idx, escaped, crashes>>

DetectReuse(r, p) ==
  /\ Presented(r, p)
  /\ p \notin rt
  /\ Become(r, Revoke(Fam(p)))
  /\ UNCHANGED <<db, deact, redis, crashes>>

RotateUser(r) ==
  /\ req[r].pc = "rot_user"
  /\ active[req[r].user]
  /\ Goto(r, "rot_ws")
  /\ UNCHANGED <<db, deact, redis, crashes>>

RotateStanding(r) ==
  /\ req[r].pc = "rot_ws"
  /\ standing[req[r].user]
  /\ Goto(r, "rot_store")
  /\ UNCHANGED <<db, deact, redis, crashes>>

(* Mutant: the successor starts a family of its own. *)
RotateStoreNewFamily(r) ==
  /\ req[r].pc = "rot_store"
  /\ \E q \in Pairs : Store(q, req[r].user, req[r].app, q)
  /\ Become(r, Idle)
  /\ UNCHANGED <<db, deact, crashes>>

RotateStore(r) ==
  /\ req[r].pc = "rot_store"
  /\ \E q \in Pairs : Store(q, req[r].user, req[r].app, req[r].fam)
  /\ Become(r, Idle)
  /\ UNCHANGED <<db, deact, crashes>>

(* Mutant: the failed rotation revokes nothing. *)
RotateFailsOpen(r) ==
  /\ req[r].pc \in Rotating
  /\ Become(r, Idle)
  /\ UNCHANGED <<db, deact, redis, crashes>>

(* The except block: a failed check, or any other exception before the store,
   revokes the family.  (An exception after the store executed leaves a pair
   that no client has seen; it is not distinguished.) *)
RotateFails(r) ==
  /\ req[r].pc \in Rotating
  /\ Become(r, Revoke(req[r].fam))
  /\ UNCHANGED <<db, deact, redis, crashes>>

-----------------------------------------------------------------------------
(* revoke_token_family, one action per await. *)

(* Where the handler goes when the family is done. *)
FamilyDone(q) == IF q.key = None THEN Idle
                 ELSE [q EXCEPT !.pc = "all_next", !.fam = None,
                                !.jtis = {}, !.ajtis = {}]

ReadRtf(r) ==
  /\ req[r].pc = "rvk_rtf"
  /\ Become(r, [req[r] EXCEPT !.pc = "rvk_rta", !.jtis = rtf[req[r].fam]])
  /\ UNCHANGED <<db, deact, redis, crashes>>

ReadRta(r) ==
  /\ req[r].pc = "rvk_rta"
  /\ LET found == rta[req[r].fam] IN
       IF req[r].jtis = {} /\ found = {}
         THEN Become(r, FamilyDone(req[r]))
         ELSE Become(r, [req[r] EXCEPT !.pc = "rvk_del", !.ajtis = found])
  /\ UNCHANGED <<db, deact, redis, crashes>>

DeleteFamily(r) ==
  /\ req[r].pc = "rvk_del"
  /\ rt' = rt \ req[r].jtis
  /\ rtf' = [rtf EXCEPT ![req[r].fam] = {}]
  /\ rta' = [rta EXCEPT ![req[r].fam] = {}]
  /\ Become(r, [req[r] EXCEPT !.pc = "rvk_bl", !.jtis = {}])
  /\ UNCHANGED <<db, deact, jwt, stage, bl, idx, escaped, crashes>>

(* Mutant: the jti is dropped from the loop and never denylisted. *)
BlacklistNothing(r) ==
  /\ req[r].pc = "rvk_bl"
  /\ \E p \in req[r].ajtis : Become(r, [req[r] EXCEPT !.ajtis = @ \ {p}])
  /\ UNCHANGED <<db, deact, redis, crashes>>

BlacklistNext(r) ==
  /\ req[r].pc = "rvk_bl"
  /\ \E p \in req[r].ajtis :
       /\ bl' = bl \cup {p}
       /\ Become(r, [req[r] EXCEPT !.ajtis = @ \ {p}])
  /\ UNCHANGED <<db, deact, jwt, stage, rt, rtf, rta, idx, escaped, crashes>>

FamilyRevoked(r) ==
  /\ req[r].pc = "rvk_bl"
  /\ req[r].ajtis = {}
  /\ Become(r, FamilyDone(req[r]))
  /\ UNCHANGED <<db, deact, redis, crashes>>

-----------------------------------------------------------------------------
(* revoke_all_user_tokens and revoke_app_tokens. *)

(* What the caller does next: it returns, or goes on to its own tail. *)
IndexDone(q) == IF q.then = "idle" THEN Idle
                ELSE [q EXCEPT !.pc = q.then, !.key = None, !.todo = {}, !.cohort = {}]

ReadIndex(r) ==
  /\ req[r].pc = "all_read"
  /\ LET found == idx[req[r].key] IN
       IF found = {} THEN Become(r, IndexDone(req[r]))
                     ELSE Become(r, [req[r] EXCEPT !.pc = "all_next", !.todo = found])
  /\ UNCHANGED <<db, deact, redis, crashes>>

NextFamily(r) ==
  /\ req[r].pc = "all_next"
  /\ \E f \in req[r].todo :
       Become(r, [req[r] EXCEPT !.pc = "rvk_rtf", !.fam = f, !.todo = @ \ {f}])
  /\ UNCHANGED <<db, deact, redis, crashes>>

(* Mutant: the loop over the families stops early. *)
StopEarly(r) ==
  /\ req[r].pc = "all_next"
  /\ Goto(r, "all_del")
  /\ UNCHANGED <<db, deact, redis, crashes>>

NoMoreFamilies(r) ==
  /\ req[r].pc = "all_next"
  /\ req[r].todo = {}
  /\ Goto(r, "all_del")
  /\ UNCHANGED <<db, deact, redis, crashes>>

DeleteIndex(r) ==
  /\ req[r].pc = "all_del"
  /\ idx' = [idx EXCEPT ![req[r].key] = {}]
  /\ Become(r, IndexDone(req[r]))
  /\ UNCHANGED <<db, deact, jwt, stage, rt, rtf, rta, bl, escaped, crashes>>

-----------------------------------------------------------------------------
(* The handlers that revoke. *)

(* _enforce_token_hygiene: what every access-token guard accepts. *)
Accepted(p) == /\ p \in Minted
               /\ stage[p] = "access"
               /\ p \notin bl
               /\ jwt[p].user \notin deact

(* POST /auth/logout with the access token of pair p. *)
Logout(r, p) ==
  /\ req[r].pc = "idle"
  /\ Accepted(p)
  /\ Become(r, RevokeIndex(jwt[p].user, jwt[p].user, "own_bl", p))
  /\ UNCHANGED <<db, deact, redis, crashes>>

BlacklistOwn(r) ==
  /\ req[r].pc = "own_bl"
  /\ bl' = IF stage[req[r].own] = "access" THEN bl \cup {req[r].own} ELSE bl
  /\ Become(r, Idle)
  /\ UNCHANGED <<db, deact, jwt, stage, rt, rtf, rta, idx, escaped, crashes>>

(* An admin revokes a user's tokens, or a client app's when it is switched
   off; a role change or a group removal revokes the member's. *)
RevokeKey(r, k) ==
  /\ req[r].pc = "idle"
  /\ Become(r, RevokeIndex(k, None, "idle", None))
  /\ UNCHANGED <<db, deact, redis, crashes>>

(* remove_member: the row is deleted and committed, then tokens are revoked. *)
RemoveMember(r, u) ==
  /\ req[r].pc = "idle"
  /\ standing[u]
  /\ standing' = [standing EXCEPT ![u] = FALSE]
  /\ Become(r, RevokeIndex(u, None, "idle", None))
  /\ UNCHANGED <<active, deact, redis, crashes>>

(* An org is disabled or taken off the allow-list (nothing is revoked), or the
   user is let back in. *)
ChangeStanding(u) ==
  /\ standing' = [standing EXCEPT ![u] = ~@]
  /\ UNCHANGED <<active, deact, redis, req, crashes>>

-----------------------------------------------------------------------------
(* Activation status.  update_user keeps its row lock from flush to commit. *)

StatusRequest(r, u) == /\ req[r].user = u
                       /\ req[r].then \in {"mark", "mark_tx", "clear", "clear_tx"}
RowLocked(u) == \E r \in Procs : /\ req[r].user = u
                                 /\ req[r].then \in {"mark_tx", "clear_tx"}
MayChangeStatus(r, u) ==
  /\ req[r].pc = "idle"
  /\ ~RowLocked(u)
  /\ SerialAdmins => \A s \in Procs : ~StatusRequest(s, u)

UpdateUserOff(r, u) ==
  /\ MayChangeStatus(r, u)
  /\ active[u]
  /\ Become(r, RevokeIndex(u, u, "mark_tx", None))
  /\ UNCHANGED <<db, deact, redis, crashes>>

UpdateUserOn(r, u) ==
  /\ MayChangeStatus(r, u)
  /\ ~active[u]
  /\ Become(r, [Idle EXCEPT !.pc = "clear_tx", !.user = u, !.then = "clear_tx"])
  /\ UNCHANGED <<db, deact, redis, crashes>>

BulkOff(r, u) ==
  /\ MayChangeStatus(r, u)
  /\ active' = [active EXCEPT ![u] = FALSE]
  /\ Become(r, RevokeIndex(u, u, "mark", None))
  /\ UNCHANGED <<standing, deact, redis, crashes>>

(* Mutant: a bulk activation that leaves the flags alone. *)
BulkOnKeepingFlag(r, u) ==
  /\ MayChangeStatus(r, u)
  /\ active' = [active EXCEPT ![u] = TRUE]
  /\ Become(r, Idle)
  /\ UNCHANGED <<standing, deact, redis, crashes>>

BulkOn(r, u) ==
  /\ MayChangeStatus(r, u)
  /\ active' = [active EXCEPT ![u] = TRUE]
  /\ Become(r, [Idle EXCEPT !.pc = "clear", !.user = u, !.then = "clear"])
  /\ UNCHANGED <<standing, deact, redis, crashes>>

Mark(r) ==
  /\ req[r].pc \in {"mark", "mark_tx"}
  /\ deact' = deact \cup {req[r].user}
  /\ IF req[r].pc = "mark" THEN Become(r, Idle) ELSE Goto(r, "commit_off")
  /\ UNCHANGED <<db, redis, crashes>>

Clear(r) ==
  /\ req[r].pc \in {"clear", "clear_tx"}
  /\ deact' = deact \ {req[r].user}
  /\ IF req[r].pc = "clear" THEN Become(r, Idle) ELSE Goto(r, "commit_on")
  /\ UNCHANGED <<db, redis, crashes>>

CommitStatus(r) ==
  /\ req[r].pc \in {"commit_off", "commit_on"}
  /\ active' = [active EXCEPT ![req[r].user] = (req[r].pc = "commit_on")]
  /\ Become(r, Idle)
  /\ UNCHANGED <<standing, deact, redis, crashes>>

-----------------------------------------------------------------------------
(* Time and failure. *)

(* The access JWT of p expires; its bl: entry, no longer consulted, goes. *)
AccessExpires(p) ==
  /\ stage[p] = "access"
  /\ stage' = [stage EXCEPT ![p] = "refresh"]
  /\ bl' = bl \ {p}
  /\ UNCHANGED <<db, deact, jwt, rt, rtf, rta, idx, req, escaped, crashes>>

(* The refresh JWT of p and its rt: key expire, days after the access JWT. *)
RefreshExpires(p) ==
  /\ stage[p] = "refresh"
  /\ stage' = [stage EXCEPT ![p] = "dead"]
  /\ rt' = rt \ {p}
  /\ UNCHANGED <<db, deact, jwt, rtf, rta, bl, idx, req, escaped, crashes>>

(* Every store pushes back the TTL of the sets it adds to, so a set outlives
   every member. *)
FamilyExpires(f) ==
  /\ rtf[f] \cup rta[f] # {}
  /\ \A p \in Minted : Fam(p) = f => stage[p] = "dead"
  /\ rtf' = [rtf EXCEPT ![f] = {}]
  /\ rta' = [rta EXCEPT ![f] = {}]
  /\ UNCHANGED <<db, deact, jwt, stage, rt, bl, idx, req, escaped, crashes>>

IndexExpires(k) ==
  /\ idx[k] # {}
  /\ \A p \in OfKey(k) : stage[p] = "dead"
  /\ idx' = [idx EXCEPT ![k] = {}]
  /\ UNCHANGED <<db, deact, jwt, stage, rt, rtf, rta, bl, req, escaped, crashes>>

(* The process dies, or Redis fails, between two awaits: an open transaction
   rolls back, Redis keeps what was written, and a revocation that has
   deleted rta:{family} loses the access jtis it had not yet denylisted. *)
Crash(r) ==
  /\ crashes < MaxCrashes
  /\ req[r].pc # "idle"
  /\ crashes' = crashes + 1
  /\ escaped' = IF req[r].pc = "rvk_bl" THEN escaped \cup req[r].ajtis ELSE escaped
  /\ Become(r, Idle)
  /\ UNCHANGED <<db, deact, jwt, stage, rt, rtf, rta, bl, idx>>

-----------------------------------------------------------------------------
HandlerStep(r) ==
  \/ LoginStanding(r) \/ LoginStore(r) \/ LoginFails(r)
  \/ RotateUser(r) \/ RotateStanding(r) \/ RotateStore(r) \/ RotateFails(r)
  \/ ReadRtf(r) \/ ReadRta(r) \/ DeleteFamily(r) \/ BlacklistNext(r) \/ FamilyRevoked(r)
  \/ ReadIndex(r) \/ NextFamily(r) \/ NoMoreFamilies(r) \/ DeleteIndex(r)
  \/ BlacklistOwn(r) \/ Mark(r) \/ Clear(r) \/ CommitStatus(r)

(* The requests and events an instance admits. *)
Admits(w) == w \in Workload

Arrival(r) ==
  \/ /\ Admits("login")
     /\ \E u \in Users, a \in Apps \cup {None} : LoginUser(r, u, a)
  \/ /\ Admits("refresh")
     /\ \E p \in Pairs : Consume(r, p) \/ DetectReuse(r, p)
  \/ /\ Admits("logout")
     /\ \E p \in Pairs : Logout(r, p)
  \/ /\ Admits("revoke")
     /\ \E k \in Keys : RevokeKey(r, k)
  \/ /\ Admits("standing")
     /\ \E u \in Users : RemoveMember(r, u)
  \/ /\ Admits("status")
     /\ \E u \in Users : \/ UpdateUserOff(r, u) \/ UpdateUserOn(r, u)
                         \/ BulkOff(r, u) \/ BulkOn(r, u)

Environment ==
  \/ /\ Admits("standing")
     /\ \E u \in Users : ChangeStanding(u)
  \/ /\ Admits("expiry")
     /\ \/ \E p \in Pairs : AccessExpires(p) \/ RefreshExpires(p) \/ FamilyExpires(p)
        \/ \E k \in Keys : IndexExpires(k)
  \/ \E r \in Procs : Crash(r)

Next == (\E r \in Procs : HandlerStep(r) \/ Arrival(r)) \/ Environment

Spec == Init /\ [][Next]_vars

(* asyncio runs every ready handler: each started request goes on. *)
FairSpec == Spec /\ \A r \in Procs : WF_vars(HandlerStep(r))

-----------------------------------------------------------------------------
(* PROPERTIES *)

(* A session has one bearer.  In one family there is never more than one of:
   a live refresh token, or a rotation that has consumed one and not yet
   stored its successor.  So whoever holds a copy of an old refresh token and
   the client that rotated it never both hold a live token of the session,
   however their requests interleave with revocations, expiry and crashes. *)
OneLivePerFamily == \A p, q \in rt : Fam(p) = Fam(q) => p = q
NoLiveWhileRotating ==
  \A p \in rt, r \in Procs : req[r].pc \in Rotating => req[r].fam # Fam(p)
OneRotationPerFamily ==
  \A r, s \in Procs : /\ req[r].pc \in Rotating
                      /\ req[s].pc \in Rotating
                      /\ req[r].fam = req[s].fam
                      => r = s
RefreshNeverForks == OneLivePerFamily /\ NoLiveWhileRotating /\ OneRotationPerFamily

(* The families implement RefreshChain: a refresh token is honoured once, its
   holder gets at most one successor, and a session that has ended (revoked,
   failed, expired, or its rotation lost) never comes back.  A revocation that
   overtakes a rotation does not end the session. *)
RotationInFlight(f) == \E r \in Procs : req[r].pc \in Rotating /\ req[r].fam = f
LiveOf(f) == {p \in rt : Fam(p) = f}
FamilyPhase(f) ==
  IF LiveOf(f) # {} THEN "open"
  ELSE IF RotationInFlight(f) THEN "rotating"
  ELSE IF \E p \in Minted : Fam(p) = f THEN "ended" ELSE "unborn"

Chain == INSTANCE RefreshChain WITH
           Tokens <- Pairs,
           phase <- [f \in Pairs |-> FamilyPhase(f)],
           honoured <- [f \in Pairs |-> LiveOf(f)],
           seen <- Minted
ImplementsChain == Chain!ChainSpec

(* Every refresh token that works can be found from its family's rtf: set, so
   that a revocation of the family deletes it, unless it was stored while a
   revocation that had already read the sets was still running. *)
RefreshReachable == \A p \in rt \ escaped : p \in rtf[Fam(p)]

(* Every access token of a family that has not expired can be found from its
   rta: set, is denylisted, or is about to be by a revocation that is running,
   however often the family was rotated since; the exceptions are the escapes
   of RefreshReachable and a revocation that died between deleting the set and
   denylisting its members. *)
AccessReachable ==
  \A p \in Minted \ escaped :
    stage[p] = "access" =>
      \/ p \in rta[Fam(p)]
      \/ p \in bl
      \/ \E r \in Procs : req[r].pc = "rvk_bl" /\ p \in req[r].ajtis

(* Every family with a live refresh token is listed under its user and under
   its client app, where logout, deactivation, member removal and the
   switching off of an app look for it, with the same exception. *)
IndexReachable ==
  \A p \in rt \ escaped : \A k \in {jwt[p].user, jwt[p].app} \ {None} : Fam(p) \in idx[k]

(* Whatever is live is within reach of every revocation that is meant to find
   it: from its family, from its user and from its client app. *)
WithinReach == RefreshReachable /\ AccessReachable /\ IndexReachable

(* When revoke_all_user_tokens or revoke_app_tokens returns, no refresh token
   that was live as it was called is live any more, whatever other requests
   did meanwhile, except for tokens that escaped an earlier revocation. *)
ReturnsFromIndex(r) ==
  /\ req[r].pc \in {"all_read", "all_del"}
  /\ req'[r].pc \notin IndexWindow \cup {"all_read"}
  /\ crashes' = crashes
RevokeAllIsThorough ==
  [][\A r \in Procs : ReturnsFromIndex(r) => (req[r].cohort \ escaped) \cap rt' = {}]_vars

(* Once no request is changing a user's status, User.is_active and the
   deactivated:{user} flag that the token guards read agree: a deactivated
   user's tokens are refused and a reactivated user is not locked out. *)
FlagAgrees ==
  \A u \in Users : (\A r \in Procs : ~StatusRequest(r, u)) => (u \in deact <=> ~active[u])

(* A consumed refresh token is never left in limbo: the rotation that took it
   stores a successor, or its family ends with no refresh token and every
   access token expired or denylisted (escapes aside). *)
Closed(f) == \A p \in Minted : Fam(p) = f =>
                /\ p \notin rt
                /\ stage[p] # "access" \/ p \in bl \/ p \in escaped
NoLimbo ==
  \A f \in Pairs :
    RotationInFlight(f)
      ~> (Closed(f) \/ \E p \in rt : Fam(p) = f)

(* What the comments and docs say, and the interleavings break. *)

(* A family revocation leaves no live refresh token in the family. *)
RevokedFamilyIsDead ==
  [][\A r \in Procs :
       /\ req[r].pc \in {"rvk_rta", "rvk_bl"}
       /\ req'[r].pc \notin Revoking
       /\ crashes' = crashes
       => \A p \in rt' : jwt'[p].fam # req[r].fam]_vars

(* Once no request is changing it, a user who is deactivated in the database is
   flagged in Redis, so that the token guards refuse what was issued before. *)
DeactivatedIsFlagged ==
  \A u \in Users : ~active[u] /\ (\A r \in Procs : ~StatusRequest(r, u)) => u \in deact
=============================================================================
