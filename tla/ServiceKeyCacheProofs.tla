----------------------- MODULE ServiceKeyCacheProofs -----------------------
(***************************************************************************)
(* Theorems of ServiceKeyCache, for every set of apps, keys, origins,      *)
(* realms and requests, and any number of crashes.                         *)
(***************************************************************************)
EXTENDS ServiceKeyCache, TLAPS

(* A rebuild that no commit has overtaken still holds what a SELECT would
   return now. *)
Fresh(q) ==
  /\ q.pc = "key_fill" /\ ~q.behind => q.rows = KeyRows
  /\ q.pc = "origin_fill" /\ ~q.behind => q.orows \in OriginTables

AllFresh == \A r \in Procs : Fresh(req[r])

IInv == TypeOK /\ AllFresh /\ CacheIsCurrent

-----------------------------------------------------------------------------

LEMMA KeyRowsTyped == TypeOK => KeyRows \in SUBSET KeyEntry
<1> SUFFICES ASSUME TypeOK, NEW a \in Apps, Active(a)
             PROVE  [key |-> row[a].key, app |-> a, realm |-> row[a].realm] \in KeyEntry
  BY DEF KeyRows
<1>1. row[a] \in Row
  BY DEF TypeOK, Active, Live
<1> QED BY <1>1 DEF Row, KeyEntry

(* What a SELECT returns depends on the rows alone. *)
LEMMA SameRows ==
  ASSUME row' = row
  PROVE  /\ KeyRows' = KeyRows /\ OriginTables' = OriginTables
         /\ \A q : Fresh(q)' <=> Fresh(q)
BY DEF KeyRows, OriginTables, Registered, Active, Live, Fresh

LEMMA IdleOK == Idle \in Request /\ Fresh(Idle) /\ Idle.pc # "inv"
BY DEF Idle, Request, Fresh

(* A step of r between two rows changes keeps what the other requests have
   read; it remains to see to r's locals and to the hashes. *)
LEMMA StepOK ==
  ASSUME IInv, NEW r \in Procs, NEW q \in Request, Fresh(q), Become(r, q),
         row' = row, issued' = issued, crashes' \in 0 .. MaxCrashes,
         keys' \in SUBSET KeyEntry, origins' \in SUBSET OriginEntry,
         torn' \in SUBSET {"key", "origin"}, CacheIsCurrent'
  PROVE  IInv'
<1>1. TypeOK'
  BY DEF IInv, TypeOK, Become
<1>2. AllFresh'
  BY SameRows DEF IInv, TypeOK, AllFresh, Become
<1> QED BY <1>1, <1>2 DEF IInv

(* A step that neither writes the hashes nor ends an admin change. *)
LEMMA PlainStep ==
  ASSUME IInv, NEW r \in Procs, NEW q \in Request, Fresh(q), Become(r, q), req[r].pc # "inv",
         UNCHANGED <<row, issued, keys, origins, torn>>, crashes' \in 0 .. MaxCrashes
  PROVE  IInv'
<1>1. Settled' => Settled
  BY DEF Settled, Become, IInv, TypeOK
<1>2. CacheIsCurrent'
  BY <1>1, SameRows DEF IInv, CacheIsCurrent
<1>3. /\ keys' \in SUBSET KeyEntry /\ origins' \in SUBSET OriginEntry
      /\ torn' \in SUBSET {"key", "origin"}
  BY DEF IInv, TypeOK
<1> QED BY <1>2, <1>3, StepOK

LEMMA ReqTyped ==
  ASSUME IInv, NEW r \in Procs
  PROVE  req[r] \in Request /\ Fresh(req[r]) /\ crashes \in 0 .. MaxCrashes
BY DEF IInv, TypeOK, AllFresh

-----------------------------------------------------------------------------

LEMMA HitOK ==
  ASSUME IInv, NEW r \in Procs, NEW k \in ApiKeys, Hit(r, k), req[r].pc # "inv",
         UNCHANGED <<row, issued, keys, origins, torn, crashes>>
  PROVE  IInv'
<1>1. PICK e \in keys : Become(r, [Idle EXCEPT !.pc = "touch", !.key = k, !.app = e.app])
  BY DEF Hit
<1> DEFINE q == [Idle EXCEPT !.pc = "touch", !.key = k, !.app = e.app]
<1>2. e.app \in Apps
  BY DEF IInv, TypeOK, KeyEntry
<1>3. q \in Request /\ Fresh(q)
  BY <1>2 DEF Idle, Request, Fresh
<1> QED BY <1>1, <1>3, ReqTyped, PlainStep

LEMMA ValidateKeyOK ==
  ASSUME IInv, NEW r \in Procs
  PROVE  /\ \A k \in issued : ValidateKey(r, k) => IInv'
         /\ KeySelect(r) => IInv'
         /\ KeyFill(r) => IInv'
         /\ KeyAgain(r) => IInv'
         /\ Touch(r) => IInv'
<1>0. req[r] \in Request /\ Fresh(req[r]) /\ crashes \in 0 .. MaxCrashes
  BY ReqTyped
<1>1. ASSUME NEW k \in issued, ValidateKey(r, k) PROVE IInv'
  <2> DEFINE q == [Idle EXCEPT !.pc = "key_select", !.key = k]
  <2>1. k \in ApiKeys
    BY DEF IInv, TypeOK
  <2>2. q \in Request /\ Fresh(q)
    BY <2>1 DEF Idle, Request, Fresh
  <2>3. CASE Hit(r, k)
    BY <1>1, <2>1, <2>3, HitOK DEF ValidateKey
  <2>4. CASE Become(r, q)
    BY <1>0, <1>1, <2>2, <2>4, PlainStep DEF ValidateKey
  <2> QED BY <1>1, <2>3, <2>4 DEF ValidateKey
<1>2. ASSUME KeySelect(r) PROVE IInv'
  <2> DEFINE q == [req[r] EXCEPT !.pc = "key_fill", !.rows = KeyRows, !.behind = FALSE]
  <2>1. KeyRows \in SUBSET KeyEntry
    BY KeyRowsTyped DEF IInv
  <2>2. q \in Request /\ q.pc = "key_fill" /\ q.rows = KeyRows
    BY <1>0, <2>1 DEF Request
  <2>3. Fresh(q)
    BY <2>2 DEF Fresh
  <2> QED BY <1>0, <1>2, <2>2, <2>3, PlainStep DEF KeySelect
<1>3. ASSUME KeyFill(r) PROVE IInv'
  <2> DEFINE q == [req[r] EXCEPT !.pc = "key_again", !.rows = {}]
  <2>1. q \in Request /\ q.pc = "key_again"
    BY <1>0 DEF Request
  <2>2. Fresh(q)
    BY <2>1 DEF Fresh
  <2>3. keys' \in SUBSET KeyEntry
    BY <1>0, <1>3 DEF KeyFill, Request
  <2>4. Settled' => Settled
    BY <1>3 DEF KeyFill, Settled, Become, IInv, TypeOK
  <2>5. torn' \in SUBSET {"key", "origin"} /\ ("origin" \in torn' <=> "origin" \in torn)
    BY <1>3 DEF KeyFill, IInv, TypeOK
  <2>6. "key" \notin torn' => keys' = KeyRows
    BY <1>0, <1>3 DEF KeyFill, Fresh
  <2>7. CacheIsCurrent'
    BY <1>3, <2>4, <2>5, <2>6, SameRows DEF KeyFill, IInv, CacheIsCurrent
  <2>8. origins' \in SUBSET OriginEntry
    BY <1>3 DEF KeyFill, IInv, TypeOK
  <2> QED BY <1>0, <1>3, <2>1, <2>2, <2>3, <2>5, <2>7, <2>8, StepOK DEF KeyFill
<1>4. ASSUME KeyAgain(r) PROVE IInv'
  <2>1. CASE Become(r, Idle)
    BY <1>0, <1>4, <2>1, IdleOK, PlainStep DEF KeyAgain
  <2>2. CASE Hit(r, req[r].key)
    <3>1. CASE req[r].key \in ApiKeys
      BY <1>4, <2>2, <3>1, HitOK DEF KeyAgain
    <3>2. CASE req[r].key = None
      <4>1. PICK e \in keys : e.key = None
        BY <2>2, <3>2 DEF Hit
      <4> QED BY <4>1, CacheAssumption DEF IInv, TypeOK, KeyEntry
    <3> QED BY <1>0, <3>1, <3>2 DEF Request
  <2> QED BY <1>4, <2>1, <2>2 DEF KeyAgain
<1>5. ASSUME Touch(r) PROVE IInv'
  <2> DEFINE q == [req[r] EXCEPT !.pc = "drop"]
  <2>1. q \in Request /\ q.pc = "drop"
    BY <1>0 DEF Request
  <2>2. Fresh(q)
    BY <2>1 DEF Fresh
  <2>3. Become(r, q) \/ Become(r, Idle)
    BY <1>5 DEF Touch
  <2> HIDE DEF q
  <2> QED BY <1>0, <1>5, <2>1, <2>2, <2>3, IdleOK, PlainStep DEF Touch
<1> QED BY <1>1, <1>2, <1>3, <1>4, <1>5

LEMMA ValidateOriginOK ==
  ASSUME IInv, NEW r \in Procs
  PROVE  /\ \A o \in Origins : ValidateOrigin(r, o) => IInv'
         /\ OriginSelect(r) => IInv'
         /\ OriginFill(r) => IInv'
         /\ OriginAgain(r) => IInv'
<1>0. req[r] \in Request /\ Fresh(req[r]) /\ crashes \in 0 .. MaxCrashes
  BY ReqTyped
<1>1. ASSUME NEW o \in Origins, ValidateOrigin(r, o) PROVE IInv'
  <2> DEFINE q == [Idle EXCEPT !.pc = "origin_select", !.origin = o]
  <2>1. q \in Request /\ Fresh(q)
    BY DEF Idle, Request, Fresh
  <2> QED BY <1>0, <1>1, <2>1, PlainStep DEF ValidateOrigin
<1>2. ASSUME OriginSelect(r) PROVE IInv'
  <2>1. PICK t \in OriginTables :
          Become(r, [req[r] EXCEPT !.pc = "origin_fill", !.orows = t, !.behind = FALSE])
    BY <1>2 DEF OriginSelect
  <2> DEFINE q == [req[r] EXCEPT !.pc = "origin_fill", !.orows = t, !.behind = FALSE]
  <2>2. t \in SUBSET OriginEntry
    BY DEF OriginTables
  <2>3. q \in Request /\ q.pc = "origin_fill" /\ q.orows = t
    BY <1>0, <2>2 DEF Request
  <2>4. Fresh(q)
    BY <2>3 DEF Fresh
  <2> QED BY <1>0, <1>2, <2>1, <2>3, <2>4, PlainStep DEF OriginSelect
<1>3. ASSUME OriginFill(r) PROVE IInv'
  <2> DEFINE q == [req[r] EXCEPT !.pc = "origin_again", !.orows = {}]
  <2>1. q \in Request /\ q.pc = "origin_again"
    BY <1>0 DEF Request
  <2>2. Fresh(q)
    BY <2>1 DEF Fresh
  <2>3. origins' \in SUBSET OriginEntry
    BY <1>0, <1>3 DEF OriginFill, Request
  <2>4. Settled' => Settled
    BY <1>3 DEF OriginFill, Settled, Become, IInv, TypeOK
  <2>5. torn' \in SUBSET {"key", "origin"} /\ ("key" \in torn' <=> "key" \in torn)
    BY <1>3 DEF OriginFill, IInv, TypeOK
  <2>6. "origin" \notin torn' => origins' \in OriginTables
    BY <1>0, <1>3 DEF OriginFill, Fresh
  <2>7. CacheIsCurrent'
    BY <1>3, <2>4, <2>5, <2>6, SameRows DEF OriginFill, IInv, CacheIsCurrent
  <2>8. keys' \in SUBSET KeyEntry
    BY <1>3 DEF OriginFill, IInv, TypeOK
  <2> QED BY <1>0, <1>3, <2>1, <2>2, <2>3, <2>5, <2>7, <2>8, StepOK DEF OriginFill
<1>4. ASSUME OriginAgain(r) PROVE IInv'
  BY <1>0, <1>4, IdleOK, PlainStep DEF OriginAgain
<1> QED BY <1>1, <1>2, <1>3, <1>4

(* After a commit nothing needs to be current until the hashes are deleted,
   and no rebuild in flight counts as fresh. *)
LEMMA CommitOK ==
  ASSUME IInv, NEW r \in Procs, NEW rows \in [Apps -> Row \cup {None}], Commit(r, rows),
         issued' \in SUBSET ApiKeys
  PROVE  IInv'
<1> DEFINE d == [Idle EXCEPT !.pc = "inv"]
<1>1. d \in Request /\ d.pc = "inv"
  BY DEF Idle, Request
<1>2. req'[r] = d
  BY DEF Commit
<1>3. ASSUME NEW s \in Procs, s # r
      PROVE  req'[s] \in Request /\ req'[s].behind = TRUE
  BY <1>3, ReqTyped DEF Commit, Request
<1> HIDE DEF d
<1>4. req' \in [Procs -> Request]
  <2>1. req' = [s \in Procs |-> req'[s]]
    BY DEF Commit
  <2> QED BY <1>1, <1>2, <1>3, <2>1
<1>5. TypeOK'
  BY <1>4 DEF Commit, IInv, TypeOK
<1>6. AllFresh'
  BY <1>1, <1>2, <1>3 DEF AllFresh, Fresh
<1>7. ~Settled'
  BY <1>1, <1>2 DEF Settled
<1> QED BY <1>5, <1>6, <1>7 DEF IInv, CacheIsCurrent

LEMMA AdminOK ==
  ASSUME IInv, NEW r \in Procs, NEW a \in Apps
  PROVE  /\ CreateApp(r, a) \/ RotateKey(r, a) => IInv'
         /\ UpdateApp(r, a) \/ DeleteApp(r, a) => IInv'
         /\ \A m \in Realms \cup {None} : ChangeRealm(r, a, m) => IInv'
<1>0. row \in [Apps -> Row \cup {None}] /\ issued \in SUBSET ApiKeys /\ (Live(a) => row[a] \in Row)
  BY DEF IInv, TypeOK, Live
<1>1. ASSUME CreateApp(r, a) PROVE IInv'
  <2>1. PICK k \in ApiKeys \ issued, os \in SUBSET Origins :
          /\ issued' = issued \cup {k}
          /\ Commit(r, [row EXCEPT ![a] = [key |-> k, active |-> TRUE, realm |-> None,
                                           origins |-> os]])
    BY <1>1 DEF CreateApp
  <2>2. [key |-> k, active |-> TRUE, realm |-> None, origins |-> os] \in Row
    BY DEF Row
  <2>3. [row EXCEPT ![a] = [key |-> k, active |-> TRUE, realm |-> None, origins |-> os]]
          \in [Apps -> Row \cup {None}]
    BY <1>0, <2>2
  <2> QED BY <1>0, <2>1, <2>3, CommitOK
<1>2. ASSUME RotateKey(r, a) PROVE IInv'
  <2>1. PICK k \in ApiKeys \ issued :
          issued' = issued \cup {k} /\ Commit(r, [row EXCEPT ![a].key = k])
    BY <1>2 DEF RotateKey
  <2>2. [row[a] EXCEPT !.key = k] \in Row
    BY <1>0, <1>2 DEF RotateKey, Row
  <2>3. [row EXCEPT ![a].key = k] \in [Apps -> Row \cup {None}]
    BY <1>0, <2>2
  <2> QED BY <1>0, <2>1, <2>3, CommitOK
<1>3. ASSUME UpdateApp(r, a) PROVE IInv'
  <2>1. PICK active \in BOOLEAN, os \in SUBSET Origins :
          Commit(r, [row EXCEPT ![a].active = active, ![a].origins = os])
    BY <1>3 DEF UpdateApp
  <2> DEFINE new == [row EXCEPT ![a].active = active, ![a].origins = os]
  <2>2. [row[a] EXCEPT !.active = active, !.origins = os] \in Row
    BY <1>0, <1>3 DEF UpdateApp, Row
  <2>3. new = [row EXCEPT ![a] = [row[a] EXCEPT !.active = active, !.origins = os]]
    BY <1>0
  <2>4. new \in [Apps -> Row \cup {None}]
    BY <1>0, <2>2, <2>3
  <2> QED BY <1>0, <1>3, <2>1, <2>4, CommitOK DEF UpdateApp
<1>4. ASSUME DeleteApp(r, a) PROVE IInv'
  BY <1>0, <1>4, CommitOK DEF DeleteApp
<1>5. ASSUME NEW m \in Realms \cup {None}, ChangeRealm(r, a, m) PROVE IInv'
  <2>1. [row[a] EXCEPT !.realm = m] \in Row
    BY <1>0, <1>5 DEF ChangeRealm, Row
  <2>2. [row EXCEPT ![a].realm = m] \in [Apps -> Row \cup {None}]
    BY <1>0, <2>1
  <2> QED BY <1>0, <1>5, <2>2, CommitOK DEF ChangeRealm
<1> QED BY <1>1, <1>2, <1>3, <1>4, <1>5

LEMMA DeleteRealmOK ==
  ASSUME IInv, NEW r \in Procs, NEW m \in Realms, DeleteRealm(r, m)
  PROVE  IInv'
<1> DEFINE rows == [a \in Apps |-> IF Live(a) /\ row[a].realm = m
                                     THEN [row[a] EXCEPT !.realm = None] ELSE row[a]]
<1>1. ASSUME NEW a \in Apps PROVE rows[a] \in Row \cup {None}
  <2>1. row[a] \in Row \cup {None}
    BY DEF IInv, TypeOK
  <2>2. Live(a) => [row[a] EXCEPT !.realm = None] \in Row
    BY <2>1 DEF Live, Row
  <2> QED BY <2>1, <2>2
<1>2. rows \in [Apps -> Row \cup {None}]
  BY <1>1
<1> QED BY <1>2, CommitOK DEF DeleteRealm, IInv, TypeOK

LEMMA InvalidateOK ==
  ASSUME IInv, NEW r \in Procs, Invalidate(r)
  PROVE  IInv'
<1>1. CacheIsCurrent'
  BY DEF Invalidate, CacheIsCurrent
<1> QED BY <1>1, IdleOK, ReqTyped, StepOK DEF Invalidate

LEMMA ExpiryOK ==
  ASSUME IInv, KeysExpire \/ OriginsExpire
  PROVE  IInv'
<1>1. TypeOK'
  BY DEF KeysExpire, OriginsExpire, IInv, TypeOK
<1>2. AllFresh'
  BY SameRows DEF KeysExpire, OriginsExpire, IInv, AllFresh
<1>3. CacheIsCurrent'
  BY SameRows DEF KeysExpire, OriginsExpire, IInv, CacheIsCurrent, Settled
<1> QED BY <1>1, <1>2, <1>3 DEF IInv

(* An admin request that dies before its invalidation tears both hashes. *)
LEMMA CrashOK ==
  ASSUME IInv, NEW r \in Procs, Crash(r)
  PROVE  IInv'
<1>1. crashes' \in 0 .. MaxCrashes
  BY CacheAssumption DEF Crash, IInv, TypeOK
<1>2. CASE req[r].pc = "inv"
  <2>1. torn' = {"key", "origin"}
    BY <1>2 DEF Crash
  <2>2. CacheIsCurrent'
    BY <2>1 DEF CacheIsCurrent
  <2> QED BY <1>1, <2>1, <2>2, IdleOK, StepOK DEF Crash, IInv, TypeOK
<1>3. CASE req[r].pc # "inv"
  BY <1>1, <1>3, IdleOK, PlainStep DEF Crash
<1> QED BY <1>2, <1>3

-----------------------------------------------------------------------------

LEMMA InitOK == Init => IInv
<1> SUFFICES ASSUME Init PROVE IInv
  OBVIOUS
<1>1. TypeOK
  BY IdleOK, CacheAssumption DEF Init, TypeOK
<1>2. AllFresh
  BY IdleOK DEF Init, AllFresh
<1>3. CacheIsCurrent
  BY DEF Init, CacheIsCurrent
<1> QED BY <1>1, <1>2, <1>3 DEF IInv

LEMMA NextOK == IInv /\ [Next]_vars => IInv'
<1> SUFFICES ASSUME IInv, [Next]_vars PROVE IInv'
  OBVIOUS
<1>1. CASE UNCHANGED vars
  BY <1>1, SameRows DEF vars, IInv, TypeOK, AllFresh, CacheIsCurrent, Settled
<1>2. ASSUME NEW r \in Procs, RequestStep(r) PROVE IInv'
  BY <1>2, ValidateKeyOK, ValidateOriginOK, InvalidateOK DEF RequestStep
<1>3. ASSUME NEW r \in Procs, Arrival(r) PROVE IInv'
  BY <1>3, ValidateKeyOK, ValidateOriginOK, AdminOK, DeleteRealmOK DEF Arrival
<1>4. ASSUME NEW r \in Procs, Crash(r) PROVE IInv'
  BY <1>4, CrashOK
<1>5. CASE KeysExpire \/ OriginsExpire
  BY <1>5, ExpiryOK
<1> QED BY <1>1, <1>2, <1>3, <1>4, <1>5 DEF Next

(* Outside torn rebuilds and crashes, a hash that is present agrees with
   service_apps once every admin change has invalidated it: what validate_key
   and validate_origin answer from Redis is what the rows say. *)
THEOREM KeyCacheCoherent == Spec => []CacheIsCurrent
<1>1. IInv => CacheIsCurrent
  BY DEF IInv
<1> QED BY <1>1, InitOK, NextOK, PTL DEF Spec

(* Every entry of the two hashes, and what every request holds between two
   awaits, has the shape the code encodes. *)
THEOREM TypeCorrect == Spec => []TypeOK
<1>1. IInv => TypeOK
  BY DEF IInv
<1> QED BY <1>1, InitOK, NextOK, PTL DEF Spec
=============================================================================
