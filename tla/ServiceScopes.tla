--------------------------- MODULE ServiceScopes ---------------------------
(***************************************************************************)
(* Service apps and realms.  A service key acts under one scope: the slug  *)
(* of its app's realm, or else the app's own name.  Slugs and names live   *)
(* in two tables and share one namespace, the svc claim of tokens and the  *)
(* service_name of permission rows.  Admin handlers are transactions at    *)
(* READ COMMITTED, split where they read and later write; the key cache is *)
(* reduced here to the slug it holds for each app (see ServiceKeyCache).   *)
(***************************************************************************)
EXTENDS Naturals, FiniteSets, TLC

CONSTANTS Apps, Realms,
          Names,    \* service names and realm slugs
          Procs,    \* admin requests in flight together
          Start,    \* rows there are at first
          None, Gone, Miss

ServiceRow == [name: Names, realm: Realms \cup {None}, active: BOOLEAN]
RealmRow == [slug: Names, active: BOOLEAN]

(* A row is no sentinel.  The rows there are at first are ones the code could
   have put there: a foreign key to the realm, and no name in both tables. *)
ASSUME ScopesAssumption ==
  /\ None # Gone /\ None # Miss /\ Gone # Miss
  /\ {None, Gone, Miss} \cap (Apps \cup Realms \cup Names \cup Procs) = {}
  /\ {None, Gone} \cap ServiceRow = {} /\ {None, Gone} \cap RealmRow = {}
  /\ Start.service \in [Apps -> ServiceRow \cup {None}]
  /\ Start.realm \in [Realms -> RealmRow \cup {None}]
  /\ \A a \in Apps : Start.service[a] # None =>
       /\ Start.service[a].realm # None => Start.realm[Start.service[a].realm] # None
       /\ \A m \in Realms : Start.realm[m] # None => Start.service[a].name # Start.realm[m].slug

VARIABLES service,   \* service_apps; None: not yet a row, Gone: deleted
          realm,     \* realms
          cached,    \* svc:key_cache: app -> realm slug, None if standalone, Miss
          nameLock,  \* pg_advisory_xact_lock on a name
          task,      \* admin requests between two statements
          minted,    \* m2m tokens: <<caller, svc>>
          held       \* history: <<app, scope>> as the tables had it at some time

registry == <<service, realm, cached, nameLock, task, minted, held>>

Task == [pc: {"idle", "create_app", "create_realm", "join", "leave", "invalidate"},
         app: Apps \cup {None}, realm: Realms \cup {None}, name: Names \cup {None}]
Free == [pc |-> "idle", app |-> None, realm |-> None, name |-> None]

ScopesTypeOK ==
  /\ service \in [Apps -> ServiceRow \cup {None, Gone}]
  /\ realm \in [Realms -> RealmRow \cup {None, Gone}]
  /\ cached \in [Apps -> Names \cup {None, Miss}]
  /\ nameLock \in [Names -> Procs \cup {None}]
  /\ task \in [Procs -> Task]
  /\ minted \in SUBSET (Apps \X Names)
  /\ held \in SUBSET (Apps \X Names)

IsApp(a) == service[a] \notin {None, Gone}
IsRealm(m) == realm[m] \notin {None, Gone}
SlugOf(row, ms) == IF row.realm = None THEN None ELSE ms[row.realm].slug

(* ServiceKeyContext.effective_scope *)
effective_scope(name, slug) == IF slug # None THEN slug ELSE name

Scopes(ss, ms) ==
  {<<a, effective_scope(ss[a].name, SlugOf(ss[a], ms))>> : a \in {b \in Apps : ss[b] \notin {None, Gone}}}

ScopesInit ==
  /\ service = Start.service
  /\ realm = Start.realm
  /\ cached = [a \in Apps |-> Miss]
  /\ nameLock = [n \in Names |-> None]
  /\ task = [p \in Procs |-> Free]
  /\ minted = {}
  /\ held = Scopes(service, realm)

Step(p, t) == task' = [task EXCEPT ![p] = t]
Released(p) == [n \in Names |-> IF nameLock[n] = p THEN None ELSE nameLock[n]]
Tables(ss, ms) == service' = ss /\ realm' = ms /\ held' = held \cup Scopes(ss, ms)

-----------------------------------------------------------------------------
(* Creating a name: lock it, look for it in the other table, insert.  The
   unique constraint refuses a second row of the same table. *)

UnlockedName(n) == TRUE                                       \* mutant: no advisory lock
NameFree(n) == nameLock[n] = None

create_service_app(p, a, n) ==
  /\ task[p].pc = "idle" /\ service[a] = None
  /\ NameFree(n)
  /\ \A m \in Realms : IsRealm(m) => realm[m].slug # n
  /\ nameLock' = [nameLock EXCEPT ![n] = p]
  /\ Step(p, [Free EXCEPT !.pc = "create_app", !.app = a, !.name = n])
  /\ UNCHANGED <<service, realm, cached, minted, held>>

CommitServiceApp(p) ==
  LET t == task[p] IN
  /\ t.pc = "create_app"
  /\ nameLock' = Released(p)
  /\ IF service[t.app] = None /\ \A a \in Apps : IsApp(a) => service[a].name # t.name
       THEN /\ Tables([service EXCEPT ![t.app] = [name |-> t.name, realm |-> None, active |-> TRUE]], realm)
            /\ Step(p, [Free EXCEPT !.pc = "invalidate"])
       ELSE Step(p, Free) /\ UNCHANGED <<service, realm, held>>
  /\ UNCHANGED <<cached, minted>>

create_realm(p, m, n) ==
  /\ task[p].pc = "idle" /\ realm[m] = None
  /\ NameFree(n)
  /\ \A a \in Apps : IsApp(a) => service[a].name # n
  /\ nameLock' = [nameLock EXCEPT ![n] = p]
  /\ Step(p, [Free EXCEPT !.pc = "create_realm", !.realm = m, !.name = n])
  /\ UNCHANGED <<service, realm, cached, minted, held>>

CommitRealm(p) ==
  LET t == task[p] IN
  /\ t.pc = "create_realm"
  /\ nameLock' = Released(p)
  /\ Step(p, Free)
  /\ IF realm[t.realm] = None /\ \A m \in Realms : IsRealm(m) => realm[m].slug # t.name
       THEN Tables(service, [realm EXCEPT ![t.realm] = [slug |-> t.name, active |-> TRUE]])
       ELSE UNCHANGED <<service, realm, held>>
  /\ UNCHANGED <<cached, minted>>

-----------------------------------------------------------------------------
(* Changing the rows.  Every change that the key cache shows ends with
   invalidate_cache after the commit. *)

update_service_app(p, a, active) ==
  /\ task[p].pc = "idle" /\ IsApp(a)
  /\ Tables([service EXCEPT ![a].active = active], realm)
  /\ Step(p, [Free EXCEPT !.pc = "invalidate"])
  /\ UNCHANGED <<cached, nameLock, minted>>

(* The rows of delete_service_app; the route purges permissions with it. *)
delete_service_app(p, a) ==
  /\ task[p].pc = "idle" /\ IsApp(a)
  /\ Tables([service EXCEPT ![a] = Gone], realm)
  /\ Step(p, [Free EXCEPT !.pc = "invalidate"])
  /\ UNCHANGED <<cached, nameLock, minted>>

(* The slug is not updatable. *)
update_realm(m, active) ==
  /\ IsRealm(m)
  /\ Tables(service, [realm EXCEPT ![m].active = active])
  /\ UNCHANGED <<cached, nameLock, task, minted>>

(* ON DELETE SET NULL: the members revert to standalone. *)
delete_realm(p, m) ==
  /\ task[p].pc = "idle" /\ IsRealm(m)
  /\ Tables([a \in Apps |-> IF IsApp(a) /\ service[a].realm = m
                            THEN [service[a] EXCEPT !.realm = None] ELSE service[a]],
            [realm EXCEPT ![m] = Gone])
  /\ Step(p, [Free EXCEPT !.pc = "invalidate"])
  /\ UNCHANGED <<cached, nameLock, minted>>

(* POST /admin/realms/{m}/members/{a}: refused when another realm has it,
   which a plain read decides ... *)
JoinAllowed(a, m) == service[a].realm \in {None, m}

add_realm_member(p, m, a) ==
  /\ task[p].pc = "idle" /\ IsRealm(m) /\ IsApp(a)
  /\ JoinAllowed(a, m)
  /\ Step(p, [Free EXCEPT !.pc = "join", !.app = a, !.realm = m])
  /\ UNCHANGED <<service, realm, cached, nameLock, minted, held>>

(* ... and add_member writes; the foreign key wants the realm's row. *)
add_member(p) ==
  LET t == task[p] IN
  /\ t.pc = "join"
  /\ IF IsApp(t.app) /\ IsRealm(t.realm)
       THEN /\ Tables([service EXCEPT ![t.app].realm = t.realm], realm)
            /\ Step(p, [Free EXCEPT !.pc = "invalidate"])
       ELSE Step(p, Free) /\ UNCHANGED <<service, realm, held>>
  /\ UNCHANGED <<cached, nameLock, minted>>

remove_realm_member(p, m, a) ==
  /\ task[p].pc = "idle" /\ IsApp(a)
  /\ service[a].realm = m
  /\ Step(p, [Free EXCEPT !.pc = "leave", !.app = a, !.realm = m])
  /\ UNCHANGED <<service, realm, cached, nameLock, minted, held>>

remove_member(p) ==
  LET t == task[p] IN
  /\ t.pc = "leave"
  /\ IF IsApp(t.app)
       THEN /\ Tables([service EXCEPT ![t.app].realm = None], realm)
            /\ Step(p, [Free EXCEPT !.pc = "invalidate"])
       ELSE Step(p, Free) /\ UNCHANGED <<service, realm, held>>
  /\ UNCHANGED <<cached, nameLock, minted>>

invalidate_cache(p) ==
  /\ task[p].pc = "invalidate"
  /\ cached' = [a \in Apps |-> Miss]
  /\ Step(p, Free)
  /\ UNCHANGED <<service, realm, nameLock, minted, held>>

(* An admin's request dies; its transaction, and its lock, go with it. *)
TaskDies(p) ==
  /\ task[p].pc # "idle"
  /\ Step(p, Free)
  /\ nameLock' = Released(p)
  /\ UNCHANGED <<service, realm, cached, minted, held>>

-----------------------------------------------------------------------------
(* require_service_key: the hash answers with the slug it holds, a miss
   rebuilds it for every active app, and the row decides whether the app is
   active. *)
RebuiltWithIds ==                                             \* mutant: the id for the slug
  [a \in Apps |-> IF IsApp(a) /\ service[a].active THEN service[a].realm ELSE Miss]
Rebuilt == [a \in Apps |-> IF IsApp(a) /\ service[a].active THEN SlugOf(service[a], realm) ELSE Miss]

require_service_key(a) ==
  /\ IsApp(a) /\ service[a].active
  /\ cached' = IF cached[a] # Miss THEN cached ELSE Rebuilt

ScopeOf(a) == effective_scope(service[a].name, IF cached[a] # Miss THEN cached[a] ELSE SlugOf(service[a], realm))

verify_service_scope(a, n) == ScopeOf(a) = n

(* _CACHE_TTL *)
CacheExpires ==
  /\ \E a \in Apps : cached[a] # Miss
  /\ cached' = [a \in Apps |-> Miss]
  /\ UNCHANGED <<service, realm, nameLock, task, minted, held>>

(* A cached slug answers even when its realm's row is gone. *)
whoami(a) ==
  /\ require_service_key(a)
  /\ UNCHANGED <<service, realm, nameLock, task, minted, held>>

(* Only under the slug of an active realm; a standalone app has none. *)
mint_m2m_token(a) ==
  /\ require_service_key(a)
  /\ cached'[a] # None
  /\ \E m \in Realms : IsRealm(m) /\ realm[m].slug = ScopeOf(a) /\ realm[m].active
  /\ minted' = minted \cup {<<a, ScopeOf(a)>>}
  /\ UNCHANGED <<service, realm, nameLock, task, held>>

RegistryCalls ==
  \/ \E p \in Procs :
       \/ \E a \in Apps, n \in Names : create_service_app(p, a, n)
       \/ \E m \in Realms, n \in Names : create_realm(p, m, n)
       \/ \E a \in Apps, active \in BOOLEAN : update_service_app(p, a, active)
       \/ \E m \in Realms : delete_realm(p, m)
       \/ \E m \in Realms, a \in Apps : add_realm_member(p, m, a) \/ remove_realm_member(p, m, a)
  \/ \E m \in Realms, active \in BOOLEAN : update_realm(m, active)
  \/ \E a \in Apps : whoami(a) \/ mint_m2m_token(a)

RegistrySteps ==
  \/ \E p \in Procs : \/ CommitServiceApp(p) \/ CommitRealm(p) \/ add_member(p) \/ remove_member(p)
                      \/ invalidate_cache(p) \/ TaskDies(p)
  \/ CacheExpires

-----------------------------------------------------------------------------
(* PROPERTIES *)

(* A realm's slug is never also the name of a service app, whichever of the
   two creations overlapped: a token or a permission row of one trust domain
   would answer in the other.  (create_realm, create_service_app) *)
ScopeNamesDisjoint ==
  \A a \in Apps, m \in Realms : IsApp(a) /\ IsRealm(m) => service[a].name # realm[m].slug
=============================================================================
