-------------------------- MODULE ServiceKeyCache --------------------------
(***************************************************************************)
(* Service authentication: service_apps rows in Postgres, and the two      *)
(* Redis hashes that answer X-Service-Key and Origin checks from them.     *)
(* A request that misses reads every active row and then replaces the      *)
(* hash; an admin route commits its change and then deletes both hashes.   *)
(* Each await is one action, so a rebuild and a change may interleave.     *)
(***************************************************************************)
EXTENDS Naturals, FiniteSets

CONSTANTS Apps,       \* service apps that may be registered
          ApiKeys,    \* keys secrets.token_urlsafe may return, never twice
          Origins,    \* browser origins
          Realms,     \* realms an app may join
          Procs,      \* requests in flight together
          None,
          MaxCrashes  \* bound: requests that may die between two awaits

Row == [key: ApiKeys, active: BOOLEAN, realm: Realms \cup {None}, origins: SUBSET Origins]
KeyEntry == [key: ApiKeys, app: Apps, realm: Realms \cup {None}]
OriginEntry == [origin: Origins, app: Apps]

ASSUME CacheAssumption ==
  /\ None \notin Apps \cup ApiKeys \cup Origins \cup Realms
  /\ None \notin Row
  /\ MaxCrashes \in Nat

VARIABLES row,      \* service_apps, as committed; None: no such row
          issued,   \* keys generated so far
          keys,     \* svc:key_cache; {}: the hash is absent
          origins,  \* svc:origin_cache
          req,      \* the requests
          torn,     \* history: hashes written from rows older than a commit, or
                    \* left behind by an admin request that died
          crashes

vars == <<row, issued, keys, origins, req, torn, crashes>>

Request == [pc: {"idle", "inv", "drop", "touch", "key_select", "key_fill", "key_again",
                 "origin_select", "origin_fill", "origin_again"},
            key: ApiKeys \cup {None}, origin: Origins \cup {None}, app: Apps \cup {None},
            rows: SUBSET KeyEntry, orows: SUBSET OriginEntry, behind: BOOLEAN]

Idle == [pc |-> "idle", key |-> None, origin |-> None, app |-> None, rows |-> {},
         orows |-> {}, behind |-> FALSE]

TypeOK ==
  /\ row \in [Apps -> Row \cup {None}]
  /\ issued \in SUBSET ApiKeys
  /\ keys \in SUBSET KeyEntry
  /\ origins \in SUBSET OriginEntry
  /\ req \in [Procs -> Request]
  /\ torn \in SUBSET {"key", "origin"}
  /\ crashes \in 0 .. MaxCrashes

Init ==
  /\ row = [a \in Apps |-> None]
  /\ issued = {}
  /\ keys = {}
  /\ origins = {}
  /\ req = [r \in Procs |-> Idle]
  /\ torn = {}
  /\ crashes = 0

Live(a) == row[a] # None
Active(a) == Live(a) /\ row[a].active

(* What a SELECT of the active rows would put in the hashes now. *)
KeyRows == {[key |-> row[a].key, app |-> a, realm |-> row[a].realm] : a \in {b \in Apps : Active(b)}}

(* A SELECT without ORDER BY: of two active apps with one origin, either may
   be written last. *)
Registered(o) == {a \in Apps : Active(a) /\ o \in row[a].origins}
OriginTables ==
  {t \in SUBSET OriginEntry :
     /\ \A e \in t : e.app \in Registered(e.origin)
     /\ \A e, f \in t : e.origin = f.origin => e = f
     /\ \A o \in Origins : Registered(o) # {} => \E e \in t : e.origin = o}

Become(r, q) == req' = [req EXCEPT ![r] = q]

-----------------------------------------------------------------------------
(* validate_key *)

Hit(r, k) ==
  \E e \in keys : /\ e.key = k
                  /\ Become(r, [Idle EXCEPT !.pc = "touch", !.key = k, !.app = e.app])
Cached(k) == \E e \in keys : e.key = k

ValidateKey(r, k) ==
  /\ req[r].pc = "idle"
  /\ \/ Hit(r, k)
     \/ ~Cached(k) /\ Become(r, [Idle EXCEPT !.pc = "key_select", !.key = k])
  /\ UNCHANGED <<row, issued, keys, origins, torn, crashes>>

(* _rebuild_cache: the SELECT, and the MULTI that replaces the hash. *)
KeySelect(r) ==
  /\ req[r].pc = "key_select"
  /\ Become(r, [req[r] EXCEPT !.pc = "key_fill", !.rows = KeyRows, !.behind = FALSE])
  /\ UNCHANGED <<row, issued, keys, origins, torn, crashes>>

KeyFill(r) ==
  /\ req[r].pc = "key_fill"
  /\ keys' = req[r].rows
  /\ torn' = IF req[r].behind THEN torn \cup {"key"} ELSE torn \ {"key"}
  /\ Become(r, [req[r] EXCEPT !.pc = "key_again", !.rows = {}])
  /\ UNCHANGED <<row, issued, origins, crashes>>

KeyAgain(r) ==
  /\ req[r].pc = "key_again"
  /\ \/ Hit(r, req[r].key)
     \/ ~Cached(req[r].key) /\ Become(r, Idle)
  /\ UNCHANGED <<row, issued, keys, origins, torn, crashes>>

(* _touch_last_used: the row decides whether the app is active, the cached
   entry whether the key is its key. *)
Touch(r) ==
  /\ req[r].pc = "touch"
  /\ Become(r, IF Active(req[r].app) THEN Idle ELSE [req[r] EXCEPT !.pc = "drop"])
  /\ UNCHANGED <<row, issued, keys, origins, torn, crashes>>

-----------------------------------------------------------------------------
(* validate_origin: a hit is the answer. *)

ValidateOrigin(r, o) ==
  /\ req[r].pc = "idle"
  /\ \A e \in origins : e.origin # o
  /\ Become(r, [Idle EXCEPT !.pc = "origin_select", !.origin = o])
  /\ UNCHANGED <<row, issued, keys, origins, torn, crashes>>

OriginSelect(r) ==
  /\ req[r].pc = "origin_select"
  /\ \E t \in OriginTables :
       Become(r, [req[r] EXCEPT !.pc = "origin_fill", !.orows = t, !.behind = FALSE])
  /\ UNCHANGED <<row, issued, keys, origins, torn, crashes>>

OriginFill(r) ==
  /\ req[r].pc = "origin_fill"
  /\ origins' = req[r].orows
  /\ torn' = IF req[r].behind THEN torn \cup {"origin"} ELSE torn \ {"origin"}
  /\ Become(r, [req[r] EXCEPT !.pc = "origin_again", !.orows = {}])
  /\ UNCHANGED <<row, issued, keys, crashes>>

OriginAgain(r) ==
  /\ req[r].pc = "origin_again"
  /\ Become(r, Idle)
  /\ UNCHANGED <<row, issued, keys, origins, torn, crashes>>

-----------------------------------------------------------------------------
(* The admin routes: commit, then invalidate_cache. *)

(* A commit by r; a rebuild that has already read the rows falls behind. *)
Commit(r, rows) ==
  /\ req[r].pc = "idle"
  /\ row' = rows
  /\ req' = [s \in Procs |-> IF s = r THEN [Idle EXCEPT !.pc = "inv"]
                                      ELSE [req[s] EXCEPT !.behind = TRUE]]
  /\ UNCHANGED <<keys, origins, torn, crashes>>

CreateApp(r, a) ==
  /\ ~Live(a)
  /\ \E k \in ApiKeys \ issued, os \in SUBSET Origins :
       /\ issued' = issued \cup {k}
       /\ Commit(r, [row EXCEPT ![a] = [key |-> k, active |-> TRUE, realm |-> None,
                                     origins |-> os]])

(* Mutant: the route forgets invalidate_cache. *)
RotateKeyOnly(r, a) ==
  /\ Live(a)
  /\ req[r].pc = "idle"
  /\ \E k \in ApiKeys \ issued : /\ issued' = issued \cup {k}
                                 /\ row' = [row EXCEPT ![a].key = k]
  /\ req' = [s \in Procs |-> [req[s] EXCEPT !.behind = (s # r)]]
  /\ UNCHANGED <<keys, origins, torn, crashes>>

RotateKey(r, a) ==
  /\ Live(a)
  /\ \E k \in ApiKeys \ issued : /\ issued' = issued \cup {k}
                                 /\ Commit(r, [row EXCEPT ![a].key = k])

UpdateApp(r, a) ==
  /\ Live(a)
  /\ \E active \in BOOLEAN, os \in SUBSET Origins :
       Commit(r, [row EXCEPT ![a].active = active, ![a].origins = os])
  /\ UNCHANGED issued

DeleteApp(r, a) ==
  /\ Live(a)
  /\ Commit(r, [row EXCEPT ![a] = None])
  /\ UNCHANGED issued

(* Mutant: add_member with its two ids in the wrong order. *)
ChangeRealmSwapped(r, a, m) ==
  /\ Live(a)
  /\ row[a].realm # m
  /\ row[a].realm = None \/ m = None
  /\ Commit(r, [row EXCEPT ![a].realm = IF m = None THEN None ELSE a])
  /\ UNCHANGED issued

(* A realm member is added (one realm at a time) or removed. *)
ChangeRealm(r, a, m) ==
  /\ Live(a)
  /\ row[a].realm # m
  /\ row[a].realm = None \/ m = None
  /\ Commit(r, [row EXCEPT ![a].realm = m])
  /\ UNCHANGED issued

(* ON DELETE SET NULL: every member reverts to standalone. *)
DeleteRealm(r, m) ==
  /\ Commit(r, [a \in Apps |-> IF Live(a) /\ row[a].realm = m
                                THEN [row[a] EXCEPT !.realm = None] ELSE row[a]])
  /\ UNCHANGED issued

(* invalidate_cache; also what _touch_last_used does for an inactive app. *)
Invalidate(r) ==
  /\ req[r].pc \in {"inv", "drop"}
  /\ keys' = {}
  /\ origins' = {}
  /\ torn' = {}
  /\ Become(r, Idle)
  /\ UNCHANGED <<row, issued, crashes>>

-----------------------------------------------------------------------------
(* _CACHE_TTL passes for one of the hashes. *)

(* Mutant: no EXPIRE in the pipeline. *)
NeverExpires == FALSE /\ UNCHANGED vars

KeysExpire ==
  /\ keys # {}
  /\ keys' = {}
  /\ torn' = torn \ {"key"}
  /\ UNCHANGED <<row, issued, origins, req, crashes>>

OriginsExpire ==
  /\ origins # {}
  /\ origins' = {}
  /\ torn' = torn \ {"origin"}
  /\ UNCHANGED <<row, issued, keys, req, crashes>>

(* The process dies between two awaits; what it committed stays. *)
Crash(r) ==
  /\ crashes < MaxCrashes
  /\ req[r].pc # "idle"
  /\ crashes' = crashes + 1
  /\ torn' = IF req[r].pc = "inv" THEN {"key", "origin"} ELSE torn
  /\ Become(r, Idle)
  /\ UNCHANGED <<row, issued, keys, origins>>

RequestStep(r) ==
  \/ KeySelect(r) \/ KeyFill(r) \/ KeyAgain(r) \/ Touch(r)
  \/ OriginSelect(r) \/ OriginFill(r) \/ OriginAgain(r)
  \/ Invalidate(r)

Arrival(r) ==
  \/ \E k \in issued : ValidateKey(r, k)
  \/ \E o \in Origins : ValidateOrigin(r, o)
  \/ \E a \in Apps : \/ CreateApp(r, a) \/ RotateKey(r, a) \/ UpdateApp(r, a)
                     \/ DeleteApp(r, a)
                     \/ \E m \in Realms \cup {None} : ChangeRealm(r, a, m)
  \/ \E m \in Realms : DeleteRealm(r, m)

Next == (\E r \in Procs : RequestStep(r) \/ Arrival(r) \/ Crash(r)) \/ KeysExpire \/ OriginsExpire

Spec == Init /\ [][Next]_vars

(* Requests go on once started, and the TTL of each hash runs out. *)
FairSpec ==
  /\ Spec
  /\ \A r \in Procs : WF_vars(RequestStep(r))
  /\ WF_vars(KeysExpire) /\ WF_vars(OriginsExpire)

-----------------------------------------------------------------------------
(* PROPERTIES *)

(* Between a commit and its invalidation the hashes may lag. *)
Settled == \A r \in Procs : req[r].pc # "inv"

(* Once every admin change has invalidated the hashes, a hash that is present
   holds exactly the active apps, with their current keys, realms and
   origins; it can only hold something else if a rebuild read the rows before
   a commit and wrote them after, or an admin request died in between. *)
CacheIsCurrent ==
  Settled => /\ "key" \notin torn => keys \in {{}, KeyRows}
             /\ "origin" \notin torn => origins \in {{}} \cup OriginTables

(* A key that is no app's key any more (rotated out, or its app deleted)
   leaves the cache for good in the end: staleness is bounded by the TTL even
   when a rebuild or a crash brought the key back. *)
Retired(k) == k \in issued /\ \A a \in Apps : Live(a) => row[a].key # k
RetiredKeysDie == \A k \in ApiKeys : Retired(k) ~> [](~Cached(k))
=============================================================================
