------------------------ MODULE AccessControlProofs ------------------------
(***************************************************************************)
(* Theorems of access control, for any apps, realms, users, workspaces,    *)
(* groups, roles and rows, and any number of requests in flight, and of    *)
(* the signals beside it, for any jobs, countries and addresses.           *)
(***************************************************************************)
EXTENDS MCAccessControl, FiniteSetTheorems, TLAPS

-----------------------------------------------------------------------------
(* THE REGISTRY *)

(* A foreign key: a member's realm has its row. *)
MembersHaveRealms ==
  \A a \in Apps : IsApp(a) /\ service[a].realm # None => IsRealm(service[a].realm)

(* Whoever is about to insert a name holds the lock on it, and the other table
   has not got it. *)
NamesAreLocked ==
  \A p \in Procs :
    LET t == task[p] IN
    /\ t.pc = "create_app" =>
         /\ t.app \in Apps /\ t.name \in Names /\ nameLock[t.name] = p
         /\ \A m \in Realms : IsRealm(m) => realm[m].slug # t.name
    /\ t.pc = "create_realm" =>
         /\ t.realm \in Realms /\ t.name \in Names /\ nameLock[t.name] = p
         /\ \A a \in Apps : IsApp(a) => service[a].name # t.name
    /\ t.pc = "join" => t.app \in Apps /\ t.realm \in Realms
    /\ t.pc = "leave" => t.app \in Apps

(* What the cache answers with is a scope that the app once held, and so is what
   was minted. *)
CacheHoldsScopes ==
  /\ Scopes(service, realm) \subseteq held
  /\ minted \subseteq held
  /\ \A a \in Apps : cached[a] # Miss =>
       /\ service[a] # None
       /\ IsApp(a) => <<a, effective_scope(service[a].name, cached[a])>> \in held

RegistryInv ==
  /\ ScopesTypeOK
  /\ MembersHaveRealms
  /\ NamesAreLocked
  /\ ScopeNamesDisjoint
  /\ CacheHoldsScopes

-----------------------------------------------------------------------------
(* THE GRANTS *)

GrantTypes ==
  /\ member \in [Workspaces -> [Users -> WsRoles \cup {None}]]
  /\ groupWs \in [Groups -> Workspaces \cup {None, Gone}]
  /\ inGroup \in SUBSET (Groups \X Users)
  /\ roleWs \in [RoleIds -> Workspaces \cup {None, Gone}]
  /\ registered \in SUBSET (Names \X ActionNames)
  /\ roleAction \in SUBSET (RoleIds \X registered)
  /\ userRole \in SUBSET (Users \X RoleIds)
  /\ groupRole \in SUBSET (Groups \X RoleIds)
  /\ perm \in [PermIds -> PermRow \cup {None, Gone}]
  /\ share \in [PermIds -> [Users \cup Groups -> Levels \cup {None}]]

(* Whom a resource may be shared with. *)
Reaches(x, g) == IF g \in Users THEN Member(perm[x].ws, g) ELSE groupWs[g] = perm[x].ws

RolesAreHeld ==
  \A u \in Users, r \in RoleIds :
    <<u, r>> \in userRole => IsRole(r) /\ (Member(roleWs[r], u) \/ u \in late)
GroupsAreJoined ==
  \A g \in Groups, u \in Users :
    <<g, u>> \in inGroup => IsGroup(g) /\ (Member(groupWs[g], u) \/ u \in late)
GroupRolesMatch ==
  \A g \in Groups, r \in RoleIds :
    <<g, r>> \in groupRole => IsGroup(g) /\ IsRole(r) /\ groupWs[g] = roleWs[r]
SharesAreHeld ==
  \A x \in PermIds, g \in Users \cup Groups :
    share[x][g] # None => IsPerm(x) /\ (Reaches(x, g) \/ g \in late)

GrantInv == GrantTypes /\ RolesAreHeld /\ GroupsAreJoined /\ GroupRolesMatch /\ SharesAreHeld

(* What a request found is still so, unless others moved; that a group's and a
   role's workspaces are one stays so as long as both are there. *)
AskOK(q) ==
  /\ q \in Ask
  /\ q.pc = "register" => q.row \in PermRow
  /\ q.pc = "share" => /\ q.pm \in PermIds /\ q.who \in Users \cup Groups /\ q.level \in Levels
                       /\ q.moved \/ (IsPerm(q.pm) /\ Reaches(q.pm, q.who))
  /\ q.pc = "user_role" => /\ q.role \in RoleIds /\ q.who \in Users
                           /\ q.moved \/ (IsRole(q.role) /\ Member(roleWs[q.role], q.who))
  /\ q.pc = "group_role" => /\ q.role \in RoleIds /\ q.group \in Groups
                            /\ groupWs[q.group] # None /\ roleWs[q.role] # None
                            /\ IsGroup(q.group) /\ IsRole(q.role) => groupWs[q.group] = roleWs[q.role]
  /\ q.pc = "group_member" => /\ q.group \in Groups /\ q.who \in Users
                              /\ q.moved \/ (IsGroup(q.group) /\ Member(groupWs[q.group], q.who))

AskInv == ask \in [Callers -> Ask] /\ \A c \in Callers : AskOK(ask[c])

-----------------------------------------------------------------------------
(* THE RECORDS: what is bounded or only written down. *)

RecordInv ==
  /\ late \in SUBSET (Users \cup Groups)
  /\ acted \subseteq held
  /\ denied \in SUBSET Denial /\ logged \in SUBSET denied /\ twice = {}
  /\ arrived \in 0 .. on.requests /\ on \in Scenarios

IInv == RegistryInv /\ GrantInv /\ AskInv /\ RecordInv
-----------------------------------------------------------------------------
(* THE REGISTRY: its initial state and its steps *)

Apart(ss, ms) ==
  \A a \in Apps, m \in Realms : ss[a] \notin {None, Gone} /\ ms[m] \notin {None, Gone} =>
    ss[a].name # ms[m].slug
Linked(ss, ms) ==
  \A a \in Apps : ss[a] \notin {None, Gone} /\ ss[a].realm # None => ms[ss[a].realm] \notin {None, Gone}

(* Names that were not there before are not there now. *)
NoNewNames(ss, ms) ==
  /\ \A a \in Apps : ss[a] \notin {None, Gone} => IsApp(a) /\ ss[a].name = service[a].name
  /\ \A m \in Realms : ms[m] \notin {None, Gone} => IsRealm(m) /\ ms[m].slug = realm[m].slug

Rows(ss) == ss \in [Apps -> ServiceRow \cup {None, Gone}]
RealmRows(ms) == ms \in [Realms -> RealmRow \cup {None, Gone}]

(* The slug of a member's realm is a name. *)
LEMMA SlugsAreNames ==
  ASSUME NEW ss, NEW ms, Rows(ss), RealmRows(ms), Linked(ss, ms),
         NEW a \in Apps, ss[a] \notin {None, Gone}
  PROVE  SlugOf(ss[a], ms) \in Names \cup {None}
<1>1. ss[a] \in ServiceRow
  BY DEF Rows
<1>2. CASE ss[a].realm = None
  BY <1>2 DEF SlugOf
<1>3. CASE ss[a].realm # None
  <2>1. ss[a].realm \in Realms
    BY <1>1, <1>3 DEF ServiceRow
  <2>2. ms[ss[a].realm] \in RealmRow
    BY <1>3, <2>1 DEF Linked, RealmRows
  <2> QED BY <1>3, <2>2 DEF SlugOf, RealmRow
<1> QED BY <1>2, <1>3

LEMMA ScopesAreTyped ==
  ASSUME NEW ss, NEW ms, Rows(ss), RealmRows(ms), Linked(ss, ms)
  PROVE  Scopes(ss, ms) \subseteq Apps \X Names
<1> SUFFICES ASSUME NEW a \in Apps, ss[a] \notin {None, Gone}
             PROVE  effective_scope(ss[a].name, SlugOf(ss[a], ms)) \in Names
  BY DEF Scopes
<1>1. ss[a].name \in Names
  BY DEF Rows, ServiceRow
<1> QED BY <1>1, SlugsAreNames DEF effective_scope

LEMMA FreeTask == /\ Free \in Task /\ Free.pc = "idle"
                  /\ [Free EXCEPT !.pc = "invalidate"] \in Task
                  /\ [Free EXCEPT !.pc = "invalidate"].pc = "invalidate"
BY DEF Free, Task

LEMMA RegistryInit == ASSUME ScopesInit PROVE RegistryInv
<1> USE ScopesAssumption DEF ScopesInit
<1>1. Rows(service) /\ RealmRows(realm)
  BY DEF Rows, RealmRows
<1>2. \A a \in Apps : IsApp(a) <=> service[a] # None
  BY DEF IsApp
<1>3. \A m \in Realms : IsRealm(m) <=> realm[m] # None
  BY DEF IsRealm
<1>4. MembersHaveRealms
  <2> SUFFICES ASSUME NEW a \in Apps, IsApp(a), service[a].realm # None
               PROVE  IsRealm(service[a].realm)
    BY DEF MembersHaveRealms
  <2>1. service[a] \in ServiceRow
    BY <1>2
  <2>2. service[a].realm \in Realms
    BY <2>1 DEF ServiceRow
  <2> QED BY <1>2, <1>3, <2>2
<1>5. Linked(service, realm)
  BY <1>4 DEF MembersHaveRealms, Linked, IsApp, IsRealm
<1>6. ScopesTypeOK
  BY <1>1, <1>5, ScopesAreTyped, FreeTask DEF ScopesTypeOK, Rows, RealmRows
<1>7. NamesAreLocked
  BY DEF NamesAreLocked, Free
<1>8. ScopeNamesDisjoint
  BY <1>2, <1>3 DEF ScopeNamesDisjoint
<1>9. CacheHoldsScopes
  BY DEF CacheHoldsScopes
<1> QED BY <1>4, <1>6, <1>7, <1>8, <1>9 DEF RegistryInv

(* A key is resolved to a scope its app held. *)
LEMMA ScopeIsHeld ==
  ASSUME RegistryInv, NEW a \in Apps, IsApp(a)
  PROVE  <<a, ScopeOf(a)>> \in held
<1>1. CASE cached[a] # Miss
  BY <1>1 DEF RegistryInv, CacheHoldsScopes, ScopeOf
<1>2. CASE cached[a] = Miss
  <2>1. <<a, effective_scope(service[a].name, SlugOf(service[a], realm))>> \in Scopes(service, realm)
    BY DEF Scopes, IsApp
  <2> QED BY <1>2, <2>1 DEF RegistryInv, CacheHoldsScopes, ScopeOf
<1> QED BY <1>1, <1>2

(* The tables change; the cache does not, and the names only shrink or grow by
   rows that were not there. *)
LEMMA TablesChange ==
  ASSUME RegistryInv, NEW ss, NEW ms, Rows(ss), RealmRows(ms), Linked(ss, ms), Tables(ss, ms),
         UNCHANGED <<cached, minted>>,
         \A a \in Apps : service[a] # None => /\ ss[a] # None
                                              /\ ss[a] # Gone => IsApp(a) /\ ss[a].name = service[a].name
  PROVE  /\ service' \in [Apps -> ServiceRow \cup {None, Gone}]
         /\ realm' \in [Realms -> RealmRow \cup {None, Gone}]
         /\ held' \in SUBSET (Apps \X Names)
         /\ MembersHaveRealms'
         /\ CacheHoldsScopes'
         /\ held \subseteq held'
<1>1. service' = ss /\ realm' = ms /\ held' = held \cup Scopes(ss, ms)
  BY DEF Tables
<1>2. held' \in SUBSET (Apps \X Names)
  BY <1>1, ScopesAreTyped DEF RegistryInv, ScopesTypeOK
<1>3. MembersHaveRealms'
  BY <1>1 DEF MembersHaveRealms, Linked, IsApp, IsRealm
<1>4. Scopes(service, realm)' \subseteq held'
  BY <1>1 DEF Scopes, SlugOf
<1>5. ASSUME NEW a \in Apps, cached'[a] # Miss
      PROVE  /\ service'[a] # None
             /\ IsApp(a)' => <<a, effective_scope(service[a].name, cached[a])'>> \in held'
  BY <1>1, <1>5 DEF RegistryInv, CacheHoldsScopes, IsApp, effective_scope
<1>6. CacheHoldsScopes'
  BY <1>1, <1>4, <1>5 DEF RegistryInv, CacheHoldsScopes
<1> QED BY <1>1, <1>2, <1>3, <1>6 DEF Rows, RealmRows

(* What a step leaves of the claims to names: p has none now. *)
LEMMA LocksStay ==
  ASSUME RegistryInv, NEW p \in Procs, NEW t \in Task, Step(p, t),
         t.pc \in {"idle", "invalidate"}, nameLock' \in {nameLock, Released(p)},
         NoNewNames(service', realm')
  PROVE  NamesAreLocked' /\ task' \in [Procs -> Task] /\ nameLock' \in [Names -> Procs \cup {None}]
<1>1. task' \in [Procs -> Task]
  BY DEF Step, RegistryInv, ScopesTypeOK
<1>2. nameLock' \in [Names -> Procs \cup {None}]
  BY DEF Released, RegistryInv, ScopesTypeOK
<1>3. \A q \in Procs : \A n \in Names : q # p /\ nameLock[n] = q => nameLock'[n] = q
  BY DEF Released, RegistryInv, ScopesTypeOK
<1>4. ASSUME NEW q \in Procs, q # p PROVE task'[q] = task[q]
  BY <1>4 DEF Step, RegistryInv, ScopesTypeOK
<1>5. task'[p] = t
  BY DEF Step, RegistryInv, ScopesTypeOK
<1>6. NamesAreLocked'
  BY <1>3, <1>4, <1>5 DEF NamesAreLocked, NoNewNames, RegistryInv, IsApp, IsRealm
<1> QED BY <1>1, <1>2, <1>6

LEMMA NamesStayApart ==
  ASSUME RegistryInv, NoNewNames(service', realm')
  PROVE  ScopeNamesDisjoint'
BY DEF RegistryInv, ScopeNamesDisjoint, NoNewNames, IsApp, IsRealm

(* A step that changes the tables without a new name, and leaves an admin's
   request with nothing but its invalidation to do. *)
LEMMA PlainChange ==
  ASSUME RegistryInv, NEW ss, NEW ms, Rows(ss), RealmRows(ms), Linked(ss, ms), Tables(ss, ms),
         UNCHANGED <<cached, minted>>, NoNewNames(ss, ms),
         \A a \in Apps : service[a] # None => ss[a] # None,
         \/ UNCHANGED <<nameLock, task>>
         \/ \E p \in Procs, t \in Task : /\ Step(p, t) /\ t.pc \in {"idle", "invalidate"}
                                         /\ nameLock' \in {nameLock, Released(p)}
  PROVE  RegistryInv' /\ held \subseteq held'
<1>1. NoNewNames(service', realm')
  BY DEF Tables
<1>2. \A a \in Apps : service[a] # None => /\ ss[a] # None
                                           /\ ss[a] # Gone => IsApp(a) /\ ss[a].name = service[a].name
  BY DEF NoNewNames
<1>3. /\ service' \in [Apps -> ServiceRow \cup {None, Gone}]
      /\ realm' \in [Realms -> RealmRow \cup {None, Gone}]
      /\ held' \in SUBSET (Apps \X Names)
      /\ MembersHaveRealms' /\ CacheHoldsScopes' /\ held \subseteq held'
  BY <1>2, TablesChange
<1>4. ScopeNamesDisjoint'
  BY <1>1, NamesStayApart
<1>5. NamesAreLocked' /\ task' \in [Procs -> Task] /\ nameLock' \in [Names -> Procs \cup {None}]
  <2>1. CASE UNCHANGED <<nameLock, task>>
    BY <1>1, <2>1 DEF RegistryInv, ScopesTypeOK, NamesAreLocked, NoNewNames, IsApp, IsRealm
  <2>2. CASE \E p \in Procs, t \in Task : /\ Step(p, t) /\ t.pc \in {"idle", "invalidate"}
                                          /\ nameLock' \in {nameLock, Released(p)}
    BY <1>1, <2>2, LocksStay
  <2> QED BY <2>1, <2>2
<1>6. ScopesTypeOK'
  BY <1>3, <1>5 DEF RegistryInv, ScopesTypeOK
<1> QED BY <1>3, <1>4, <1>5, <1>6 DEF RegistryInv

(* The tables, the cache and what was ever held stay; a request ends or begins. *)
LEMMA TablesStand ==
  ASSUME RegistryInv, UNCHANGED <<service, realm, held>>,
         \/ UNCHANGED <<nameLock, task>>
         \/ \E p \in Procs, t \in Task : /\ Step(p, t) /\ t.pc \in {"idle", "invalidate"}
                                         /\ nameLock' \in {nameLock, Released(p)},
         cached' \in {cached, [a \in Apps |-> Miss], Rebuilt},
         minted' \subseteq held
  PROVE  RegistryInv' /\ held \subseteq held'
<1>1. NoNewNames(service', realm')
  BY DEF NoNewNames, IsApp, IsRealm
<1>2. NamesAreLocked' /\ task' \in [Procs -> Task] /\ nameLock' \in [Names -> Procs \cup {None}]
  <2>1. CASE UNCHANGED <<nameLock, task>>
    BY <2>1 DEF RegistryInv, ScopesTypeOK, NamesAreLocked, IsApp, IsRealm
  <2>2. CASE \E p \in Procs, t \in Task : /\ Step(p, t) /\ t.pc \in {"idle", "invalidate"}
                                          /\ nameLock' \in {nameLock, Released(p)}
    BY <1>1, <2>2, LocksStay
  <2> QED BY <2>1, <2>2
<1>3. /\ ScopesTypeOK /\ CacheHoldsScopes /\ MembersHaveRealms /\ ScopeNamesDisjoint
  BY DEF RegistryInv
<1>4. cached' \in [Apps -> Names \cup {None, Miss}]
  <2>1. ASSUME NEW a \in Apps, IsApp(a) PROVE SlugOf(service[a], realm) \in Names \cup {None}
    BY <1>3, <2>1, SlugsAreNames DEF ScopesTypeOK, MembersHaveRealms, Rows, RealmRows, Linked, IsApp, IsRealm
  <2> QED BY <1>3, <2>1 DEF ScopesTypeOK, Rebuilt
<1>5. ASSUME NEW a \in Apps, cached'[a] # Miss
      PROVE  service[a] # None /\ (IsApp(a) => <<a, effective_scope(service[a].name, cached'[a])>> \in held)
  <2>1. CASE cached' = cached
    BY <1>3, <1>5, <2>1 DEF CacheHoldsScopes
  <2>2. CASE cached' = Rebuilt
    <3>1. IsApp(a) /\ cached'[a] = SlugOf(service[a], realm)
      BY <1>5, <2>2 DEF Rebuilt
    <3>2. <<a, effective_scope(service[a].name, SlugOf(service[a], realm))>> \in Scopes(service, realm)
      BY <3>1 DEF Scopes, IsApp
    <3> QED BY <1>3, <3>1, <3>2 DEF CacheHoldsScopes, IsApp
  <2> QED BY <1>5, <2>1, <2>2
<1>6. CacheHoldsScopes'
  BY <1>3, <1>5 DEF CacheHoldsScopes, Scopes, IsApp, SlugOf, effective_scope
<1>7. ScopesTypeOK'
  BY <1>2, <1>3, <1>4 DEF ScopesTypeOK
<1>8. MembersHaveRealms' /\ ScopeNamesDisjoint'
  BY <1>3 DEF MembersHaveRealms, ScopeNamesDisjoint, IsApp, IsRealm
<1> QED BY <1>2, <1>6, <1>7, <1>8 DEF RegistryInv

(* An admin's request begins, with what it is about. *)
LEMMA TaskBegins ==
  ASSUME RegistryInv, UNCHANGED <<service, realm, cached, minted, held>>,
         NEW p \in Procs, NEW t \in Task, Step(p, t), task[p].pc = "idle",
         \/ /\ t.pc = "join" /\ t.app \in Apps /\ t.realm \in Realms /\ UNCHANGED nameLock
         \/ /\ t.pc = "leave" /\ t.app \in Apps /\ UNCHANGED nameLock
         \/ /\ t.pc = "create_app" /\ t.app \in Apps /\ t.name \in Names
            /\ NameFree(t.name) /\ nameLock' = [nameLock EXCEPT ![t.name] = p]
            /\ \A m \in Realms : IsRealm(m) => realm[m].slug # t.name
         \/ /\ t.pc = "create_realm" /\ t.realm \in Realms /\ t.name \in Names
            /\ NameFree(t.name) /\ nameLock' = [nameLock EXCEPT ![t.name] = p]
            /\ \A a \in Apps : IsApp(a) => service[a].name # t.name
  PROVE  RegistryInv' /\ held \subseteq held'
<1>1. task' \in [Procs -> Task] /\ nameLock' \in [Names -> Procs \cup {None}]
  BY DEF Step, RegistryInv, ScopesTypeOK
<1>2. ASSUME NEW q \in Procs, q # p PROVE task'[q] = task[q]
  BY <1>2 DEF Step, RegistryInv, ScopesTypeOK
<1>3. task'[p] = t
  BY DEF Step, RegistryInv, ScopesTypeOK
<1>4. \A q \in Procs : \A n \in Names : nameLock[n] = q => nameLock'[n] = q
  BY ScopesAssumption DEF NameFree, RegistryInv, ScopesTypeOK
<1>5. t.pc \in {"create_app", "create_realm"} => nameLock'[t.name] = p
  BY DEF RegistryInv, ScopesTypeOK
<1>6. NamesAreLocked'
  BY <1>2, <1>3, <1>4, <1>5 DEF NamesAreLocked, RegistryInv, IsApp, IsRealm
<1>7. ScopesTypeOK'
  BY <1>1 DEF RegistryInv, ScopesTypeOK
<1>8. MembersHaveRealms' /\ ScopeNamesDisjoint' /\ CacheHoldsScopes'
  BY DEF RegistryInv, MembersHaveRealms, ScopeNamesDisjoint, CacheHoldsScopes, IsApp, IsRealm,
         Scopes, SlugOf, effective_scope
<1> QED BY <1>6, <1>7, <1>8 DEF RegistryInv

(* A row is inserted under the name its request has locked. *)
LEMMA CommitServiceAppSafe ==
  ASSUME RegistryInv, NEW p \in Procs, CommitServiceApp(p)
  PROVE  RegistryInv' /\ held \subseteq held'
<1> DEFINE t == task[p]
           new == [name |-> t.name, realm |-> None, active |-> TRUE]
           ss == [service EXCEPT ![t.app] = new]
<1>1. /\ t.pc = "create_app" /\ nameLock' = Released(p) /\ UNCHANGED <<cached, minted>>
  BY DEF CommitServiceApp
<1>2. /\ t.app \in Apps /\ t.name \in Names /\ nameLock[t.name] = p
      /\ \A m \in Realms : IsRealm(m) => realm[m].slug # t.name
  BY <1>1 DEF RegistryInv, NamesAreLocked
<1>3. CASE service[t.app] = None /\ \A a \in Apps : IsApp(a) => service[a].name # t.name
  <2>1. Tables(ss, realm) /\ Step(p, [Free EXCEPT !.pc = "invalidate"])
    BY <1>3 DEF CommitServiceApp
  <2>2. new \in ServiceRow
    BY <1>2 DEF ServiceRow
  <2>3. new \notin {None, Gone}
    BY <2>2, ScopesAssumption
  <2>4. Rows(ss) /\ RealmRows(realm)
    BY <2>2 DEF Rows, RealmRows, RegistryInv, ScopesTypeOK
  <2>5. ss[t.app] = new /\ \A a \in Apps : a # t.app => ss[a] = service[a]
    BY <1>2 DEF RegistryInv, ScopesTypeOK
  <2>6. Linked(ss, realm)
    BY <2>5 DEF Linked, RegistryInv, MembersHaveRealms, IsApp, IsRealm
  <2>7. \A a \in Apps : service[a] # None => /\ ss[a] # None
                                             /\ ss[a] # Gone => IsApp(a) /\ ss[a].name = service[a].name
    BY <1>3, <2>5 DEF IsApp
  <2>8. /\ service' \in [Apps -> ServiceRow \cup {None, Gone}]
        /\ realm' \in [Realms -> RealmRow \cup {None, Gone}]
        /\ held' \in SUBSET (Apps \X Names)
        /\ MembersHaveRealms' /\ CacheHoldsScopes' /\ held \subseteq held'
    BY <1>1, <2>1, <2>4, <2>6, <2>7, TablesChange
  <2>9. service' = ss /\ realm' = realm
    BY <2>1 DEF Tables
  <2>10. ScopeNamesDisjoint'
    BY <1>2, <2>5, <2>9 DEF RegistryInv, ScopeNamesDisjoint, IsApp, IsRealm
  <2>11. task' = [task EXCEPT ![p] = [Free EXCEPT !.pc = "invalidate"]]
    BY <2>1 DEF Step
  <2>12. task' \in [Procs -> Task] /\ nameLock' \in [Names -> Procs \cup {None}]
    BY <1>1, <2>11, FreeTask DEF Released, RegistryInv, ScopesTypeOK
  <2>13. ASSUME NEW q \in Procs, task'[q].pc \in {"create_app", "create_realm"}
         PROVE  /\ task'[q] = task[q] /\ q # p
                /\ nameLock[task[q].name] = q => nameLock'[task[q].name] = q
    <3>1. q # p
      BY <2>11, <2>13, FreeTask DEF RegistryInv, ScopesTypeOK
    <3>2. task'[q] = task[q]
      BY <2>11, <3>1 DEF RegistryInv, ScopesTypeOK
    <3>3. task[q].name \in Names
      BY <2>13, <3>2 DEF RegistryInv, NamesAreLocked
    <3> QED BY <1>1, <3>1, <3>2, <3>3 DEF Released
  <2>14. ASSUME NEW q \in Procs, task'[q].pc \in {"join", "leave"}
         PROVE  task'[q] = task[q]
    BY <2>11, <2>14, FreeTask DEF RegistryInv, ScopesTypeOK
  <2>15. \A a \in Apps : ss[a] \notin {None, Gone} => ss[a].name = t.name \/ (IsApp(a) /\ ss[a].name = service[a].name)
    BY <2>5 DEF IsApp
  <2>16. NamesAreLocked'
    BY <1>2, <2>9, <2>13, <2>14, <2>15 DEF RegistryInv, NamesAreLocked, IsApp, IsRealm
  <2>17. ScopesTypeOK'
    BY <1>1, <2>8, <2>12 DEF RegistryInv, ScopesTypeOK
  <2> QED BY <2>8, <2>10, <2>16, <2>17 DEF RegistryInv
<1>4. CASE ~(service[t.app] = None /\ \A a \in Apps : IsApp(a) => service[a].name # t.name)
  <2>1. Step(p, Free) /\ UNCHANGED <<service, realm, held>>
    BY <1>4 DEF CommitServiceApp
  <2>2. minted' \subseteq held
    BY <1>1 DEF RegistryInv, CacheHoldsScopes
  <2> QED BY <1>1, <2>1, <2>2, FreeTask, TablesStand
<1> QED BY <1>3, <1>4

LEMMA CommitRealmSafe ==
  ASSUME RegistryInv, NEW p \in Procs, CommitRealm(p)
  PROVE  RegistryInv' /\ held \subseteq held'
<1> DEFINE t == task[p]
           new == [slug |-> t.name, active |-> TRUE]
           ms == [realm EXCEPT ![t.realm] = new]
<1>1. /\ t.pc = "create_realm" /\ nameLock' = Released(p) /\ UNCHANGED <<cached, minted>> /\ Step(p, Free)
  BY DEF CommitRealm
<1>2. /\ t.realm \in Realms /\ t.name \in Names /\ nameLock[t.name] = p
      /\ \A a \in Apps : IsApp(a) => service[a].name # t.name
  BY <1>1 DEF RegistryInv, NamesAreLocked
<1>3. CASE realm[t.realm] = None /\ \A m \in Realms : IsRealm(m) => realm[m].slug # t.name
  <2>1. Tables(service, ms)
    BY <1>3 DEF CommitRealm
  <2>2. new \in RealmRow
    BY <1>2 DEF RealmRow
  <2>3. new \notin {None, Gone}
    BY <2>2, ScopesAssumption
  <2>4. Rows(service) /\ RealmRows(ms)
    BY <2>2 DEF Rows, RealmRows, RegistryInv, ScopesTypeOK
  <2>5. ms[t.realm] = new /\ \A m \in Realms : m # t.realm => ms[m] = realm[m]
    BY <1>2 DEF RegistryInv, ScopesTypeOK
  <2>6. \A m \in Realms : IsRealm(m) => ms[m] \notin {None, Gone}
    BY <2>3, <2>5 DEF IsRealm
  <2>7. Linked(service, ms)
    <3> SUFFICES ASSUME NEW a \in Apps, IsApp(a), service[a].realm # None
                 PROVE  ms[service[a].realm] \notin {None, Gone}
      BY DEF Linked, IsApp
    <3>1. IsRealm(service[a].realm)
      BY DEF RegistryInv, MembersHaveRealms
    <3>2. service[a] \in ServiceRow
      BY DEF RegistryInv, ScopesTypeOK, IsApp
    <3>3. service[a].realm \in Realms
      BY <3>2 DEF ServiceRow
    <3> QED BY <2>6, <3>1, <3>3
  <2>8. /\ service' \in [Apps -> ServiceRow \cup {None, Gone}]
        /\ realm' \in [Realms -> RealmRow \cup {None, Gone}]
        /\ held' \in SUBSET (Apps \X Names)
        /\ MembersHaveRealms' /\ CacheHoldsScopes' /\ held \subseteq held'
    <3>1. \A a \in Apps : service[a] # None =>
             /\ service[a] # None
             /\ service[a] # Gone => IsApp(a) /\ service[a].name = service[a].name
      BY DEF IsApp
    <3> QED BY <1>1, <2>1, <2>4, <2>7, <3>1, TablesChange
  <2>9. service' = service /\ realm' = ms
    BY <2>1 DEF Tables
  <2>10. ScopeNamesDisjoint'
    BY <1>2, <2>5, <2>9 DEF RegistryInv, ScopeNamesDisjoint, IsApp, IsRealm
  <2>11. task' = [task EXCEPT ![p] = Free]
    BY <1>1 DEF Step
  <2>12. task' \in [Procs -> Task] /\ nameLock' \in [Names -> Procs \cup {None}]
    BY <1>1, <2>11, FreeTask DEF Released, RegistryInv, ScopesTypeOK
  <2>13. ASSUME NEW q \in Procs, task'[q].pc \in {"create_app", "create_realm"}
         PROVE  /\ task'[q] = task[q] /\ q # p
                /\ nameLock[task[q].name] = q => nameLock'[task[q].name] = q
    <3>1. q # p
      BY <2>11, <2>13, FreeTask DEF RegistryInv, ScopesTypeOK
    <3>2. task'[q] = task[q]
      BY <2>11, <3>1 DEF RegistryInv, ScopesTypeOK
    <3>3. task[q].name \in Names
      BY <2>13, <3>2 DEF RegistryInv, NamesAreLocked
    <3> QED BY <1>1, <3>1, <3>2, <3>3 DEF Released
  <2>14. ASSUME NEW q \in Procs, task'[q].pc \in {"join", "leave"}
         PROVE  task'[q] = task[q]
    BY <2>11, <2>14, FreeTask DEF RegistryInv, ScopesTypeOK
  <2>15. \A m \in Realms : ms[m] \notin {None, Gone} => ms[m].slug = t.name \/ (IsRealm(m) /\ ms[m].slug = realm[m].slug)
    BY <2>5 DEF IsRealm
  <2>16. NamesAreLocked'
    BY <1>2, <2>9, <2>13, <2>14, <2>15 DEF RegistryInv, NamesAreLocked, IsApp, IsRealm
  <2>17. ScopesTypeOK'
    BY <1>1, <2>8, <2>12 DEF RegistryInv, ScopesTypeOK
  <2> QED BY <2>8, <2>10, <2>16, <2>17 DEF RegistryInv
<1>4. CASE ~(realm[t.realm] = None /\ \A m \in Realms : IsRealm(m) => realm[m].slug # t.name)
  <2>1. UNCHANGED <<service, realm, held>>
    BY <1>4 DEF CommitRealm
  <2>2. minted' \subseteq held
    BY <1>1 DEF RegistryInv, CacheHoldsScopes
  <2> QED BY <1>1, <2>1, <2>2, FreeTask, TablesStand
<1> QED BY <1>3, <1>4

Asks(a) == require_service_key(a) /\ UNCHANGED <<service, realm, nameLock, task, minted, held>>

(* Whatever a step does to the registry. *)
RegistryMoves ==
  \/ UNCHANGED registry
  \/ RegistryCalls \/ RegistrySteps
  \/ \E p \in Procs, a \in Apps : delete_service_app(p, a)
  \/ \E a \in Apps : Asks(a)

LEMMA UnlockedChange ==
  ASSUME RegistryInv, NEW p \in Procs, NEW ss, NEW ms, Rows(ss), RealmRows(ms), Linked(ss, ms), Tables(ss, ms),
         UNCHANGED <<cached, nameLock, minted>>, NoNewNames(ss, ms), Step(p, [Free EXCEPT !.pc = "invalidate"]),
         \A a \in Apps : service[a] # None => ss[a] # None
  PROVE  RegistryInv' /\ held \subseteq held'
<1>1. \E q \in Procs, t \in Task : /\ Step(q, t) /\ t.pc \in {"idle", "invalidate"}
                                   /\ nameLock' \in {nameLock, Released(q)}
  BY FreeTask
<1> QED BY <1>1, PlainChange

(* One app's row changes, but for its name. *)
LEMMA AppChange ==
  ASSUME RegistryInv, NEW p \in Procs, NEW a \in Apps, IsApp(a), NEW row \in ServiceRow \cup {Gone},
         row # Gone => /\ row.name = service[a].name
                       /\ row.realm # None => IsRealm(row.realm),
         Tables([service EXCEPT ![a] = row], realm),
         UNCHANGED <<cached, nameLock, minted>>, Step(p, [Free EXCEPT !.pc = "invalidate"])
  PROVE  RegistryInv' /\ held \subseteq held'
<1> DEFINE ss == [service EXCEPT ![a] = row]
<1>1. Rows(ss) /\ RealmRows(realm)
  BY DEF Rows, RealmRows, RegistryInv, ScopesTypeOK
<1>2. ss[a] = row /\ \A b \in Apps : b # a => ss[b] = service[b]
  BY DEF RegistryInv, ScopesTypeOK
<1>3. row # None
  BY ScopesAssumption
<1>4. Linked(ss, realm)
  BY <1>2 DEF Linked, RegistryInv, MembersHaveRealms, IsApp, IsRealm
<1>5. NoNewNames(ss, realm)
  BY <1>2 DEF NoNewNames, IsApp, IsRealm
<1>6. \A b \in Apps : service[b] # None => ss[b] # None
  BY <1>2, <1>3
<1> QED BY <1>1, <1>4, <1>5, <1>6, UnlockedChange

LEMMA UpdateServiceAppSafe ==
  ASSUME RegistryInv, NEW p \in Procs, NEW a \in Apps, NEW active \in BOOLEAN, update_service_app(p, a, active)
  PROVE  RegistryInv' /\ held \subseteq held'
<1> DEFINE row == [service[a] EXCEPT !.active = active]
<1>1. IsApp(a) /\ service[a] \in ServiceRow
  BY DEF update_service_app, IsApp, RegistryInv, ScopesTypeOK
<1>2. row \in ServiceRow /\ row.name = service[a].name /\ row.realm = service[a].realm
  BY <1>1 DEF ServiceRow
<1>3. row.realm # None => IsRealm(row.realm)
  BY <1>1, <1>2 DEF RegistryInv, MembersHaveRealms
<1>4. /\ Tables([service EXCEPT ![a] = row], realm)
      /\ UNCHANGED <<cached, nameLock, minted>> /\ Step(p, [Free EXCEPT !.pc = "invalidate"])
  BY DEF update_service_app
<1> QED BY <1>1, <1>2, <1>3, <1>4, AppChange

LEMMA DeleteServiceAppSafe ==
  ASSUME RegistryInv, NEW p \in Procs, NEW a \in Apps, delete_service_app(p, a)
  PROVE  RegistryInv' /\ held \subseteq held'
BY AppChange DEF delete_service_app

LEMMA AddMemberSafe ==
  ASSUME RegistryInv, NEW p \in Procs, add_member(p)
  PROVE  RegistryInv' /\ held \subseteq held'
<1> DEFINE a == task[p].app
           m == task[p].realm
           row == [service[a] EXCEPT !.realm = m]
<1>1. a \in Apps /\ m \in Realms /\ UNCHANGED <<cached, nameLock, minted>>
  BY DEF add_member, RegistryInv, NamesAreLocked
<1>2. CASE IsApp(a) /\ IsRealm(m)
  <2>1. service[a] \in ServiceRow
    BY <1>1, <1>2 DEF IsApp, RegistryInv, ScopesTypeOK
  <2>2. row \in ServiceRow /\ row.name = service[a].name /\ row.realm = m
    BY <1>1, <2>1 DEF ServiceRow
  <2>3. Tables([service EXCEPT ![a] = row], realm) /\ Step(p, [Free EXCEPT !.pc = "invalidate"])
    BY <1>2 DEF add_member
  <2> QED BY <1>1, <1>2, <2>2, <2>3, AppChange
<1>3. CASE ~(IsApp(a) /\ IsRealm(m))
  <2>1. Step(p, Free) /\ UNCHANGED <<service, realm, held>>
    BY <1>3 DEF add_member
  <2>2. minted' \subseteq held
    BY <1>1 DEF RegistryInv, CacheHoldsScopes
  <2> QED BY <1>1, <2>1, <2>2, FreeTask, TablesStand
<1> QED BY <1>2, <1>3

LEMMA RemoveMemberSafe ==
  ASSUME RegistryInv, NEW p \in Procs, remove_member(p)
  PROVE  RegistryInv' /\ held \subseteq held'
<1> DEFINE a == task[p].app
           row == [service[a] EXCEPT !.realm = None]
<1>1. a \in Apps /\ UNCHANGED <<cached, nameLock, minted>>
  BY DEF remove_member, RegistryInv, NamesAreLocked
<1>2. CASE IsApp(a)
  <2>1. service[a] \in ServiceRow
    BY <1>1, <1>2 DEF IsApp, RegistryInv, ScopesTypeOK
  <2>2. row \in ServiceRow /\ row.name = service[a].name /\ row.realm = None
    BY <1>1, <2>1 DEF ServiceRow
  <2>3. Tables([service EXCEPT ![a] = row], realm) /\ Step(p, [Free EXCEPT !.pc = "invalidate"])
    BY <1>2 DEF remove_member
  <2> QED BY <1>1, <1>2, <2>2, <2>3, AppChange
<1>3. CASE ~IsApp(a)
  <2>1. Step(p, Free) /\ UNCHANGED <<service, realm, held>>
    BY <1>3 DEF remove_member
  <2>2. minted' \subseteq held
    BY <1>1 DEF RegistryInv, CacheHoldsScopes
  <2> QED BY <1>1, <2>1, <2>2, FreeTask, TablesStand
<1> QED BY <1>2, <1>3

LEMMA UpdateRealmSafe ==
  ASSUME RegistryInv, NEW m \in Realms, NEW active \in BOOLEAN, update_realm(m, active)
  PROVE  RegistryInv' /\ held \subseteq held'
<1> DEFINE ms == [realm EXCEPT ![m].active = active]
<1>1. /\ IsRealm(m) /\ Tables(service, ms) /\ UNCHANGED <<cached, nameLock, task, minted>>
  BY DEF update_realm
<1>2. realm[m] \in RealmRow
  BY <1>1 DEF IsRealm, RegistryInv, ScopesTypeOK
<1>3. [realm[m] EXCEPT !.active = active] \in RealmRow /\ [realm[m] EXCEPT !.active = active].slug = realm[m].slug
  BY <1>2 DEF RealmRow
<1>4. ms[m] = [realm[m] EXCEPT !.active = active] /\ \A n \in Realms : n # m => ms[n] = realm[n]
  BY DEF RegistryInv, ScopesTypeOK
<1>5. Rows(service) /\ RealmRows(ms)
  BY <1>3 DEF Rows, RealmRows, RegistryInv, ScopesTypeOK
<1>6. \A n \in Realms : ms[n] \notin {None, Gone} <=> IsRealm(n)
  BY <1>1, <1>3, <1>4, ScopesAssumption DEF IsRealm
<1>7. \A a \in Apps : IsApp(a) /\ service[a].realm # None => service[a].realm \in Realms
  BY DEF IsApp, RegistryInv, ScopesTypeOK, ServiceRow
<1>8. Linked(service, ms)
  BY <1>6, <1>7 DEF Linked, RegistryInv, MembersHaveRealms, IsApp
<1>9. NoNewNames(service, ms)
  BY <1>3, <1>4, <1>6 DEF NoNewNames, IsApp
<1> QED BY <1>1, <1>5, <1>8, <1>9, PlainChange

LEMMA DeleteRealmSafe ==
  ASSUME RegistryInv, NEW p \in Procs, NEW m \in Realms, delete_realm(p, m)
  PROVE  RegistryInv' /\ held \subseteq held'
<1> DEFINE freed(a) == [service[a] EXCEPT !.realm = None]
           ss == [a \in Apps |-> IF IsApp(a) /\ service[a].realm = m THEN freed(a) ELSE service[a]]
           ms == [realm EXCEPT ![m] = Gone]
<1>1. /\ IsRealm(m)
      /\ Tables(ss, ms) /\ UNCHANGED <<cached, nameLock, minted>> /\ Step(p, [Free EXCEPT !.pc = "invalidate"])
  BY DEF delete_realm
<1>2. ASSUME NEW a \in Apps, IsApp(a)
      PROVE  /\ freed(a) \in ServiceRow /\ freed(a).name = service[a].name /\ freed(a).realm = None
             /\ freed(a) \notin {None, Gone}
  <2>1. service[a] \in ServiceRow
    BY <1>2 DEF IsApp, RegistryInv, ScopesTypeOK
  <2>2. freed(a) \in ServiceRow /\ freed(a).name = service[a].name /\ freed(a).realm = None
    BY <2>1 DEF ServiceRow
  <2> QED BY <2>2, ScopesAssumption
<1>3. Rows(ss) /\ RealmRows(ms)
  BY <1>2 DEF Rows, RealmRows, RegistryInv, ScopesTypeOK
<1>4. \A n \in Realms : ms[n] \notin {None, Gone} <=> IsRealm(n) /\ n # m
  BY DEF IsRealm, RegistryInv, ScopesTypeOK
<1>5. \A n \in Realms : n # m => ms[n] = realm[n]
  BY DEF RegistryInv, ScopesTypeOK
<1>6. Linked(ss, ms)
  <2> SUFFICES ASSUME NEW a \in Apps, ss[a] \notin {None, Gone}, ss[a].realm # None
               PROVE  ms[ss[a].realm] \notin {None, Gone}
    BY DEF Linked
  <2>1. IsApp(a) /\ ss[a] = service[a] /\ service[a].realm # m
    BY <1>2 DEF IsApp
  <2>2. IsRealm(service[a].realm) /\ service[a].realm \in Realms
    BY <2>1 DEF IsApp, RegistryInv, ScopesTypeOK, ServiceRow, MembersHaveRealms
  <2> QED BY <1>4, <2>1, <2>2
<1>7. NoNewNames(ss, ms)
  BY <1>2, <1>4, <1>5 DEF NoNewNames, IsApp
<1>8. \A a \in Apps : service[a] # None => ss[a] # None
  BY <1>2
<1> QED BY <1>1, <1>3, <1>6, <1>7, <1>8, UnlockedChange

LEMMA RequestsSafe ==
  ASSUME RegistryInv, NEW a \in Apps, Asks(a) \/ whoami(a) \/ mint_m2m_token(a)
  PROVE  RegistryInv' /\ held \subseteq held'
<1>1. IsApp(a) /\ cached' \in {cached, Rebuilt} /\ UNCHANGED <<service, realm, nameLock, task, held>>
  BY DEF Asks, whoami, mint_m2m_token, require_service_key
<1>2. <<a, ScopeOf(a)>> \in held
  BY <1>1, ScopeIsHeld
<1>3. minted' \subseteq held
  BY <1>2 DEF Asks, whoami, mint_m2m_token, RegistryInv, CacheHoldsScopes
<1> QED BY <1>1, <1>3, TablesStand

LEMMA RegistryBegins ==
  ASSUME RegistryInv, NEW p \in Procs,
         \/ \E a \in Apps, n \in Names : create_service_app(p, a, n)
         \/ \E m \in Realms, n \in Names : create_realm(p, m, n)
         \/ \E m \in Realms, a \in Apps : add_realm_member(p, m, a) \/ remove_realm_member(p, m, a)
  PROVE  RegistryInv' /\ held \subseteq held'
<1>1. ASSUME NEW a \in Apps, NEW n \in Names, create_service_app(p, a, n)
      PROVE  RegistryInv' /\ held \subseteq held'
  <2> DEFINE t == [Free EXCEPT !.pc = "create_app", !.app = a, !.name = n]
  <2>1. t \in Task /\ t.pc = "create_app" /\ t.app = a /\ t.name = n
    BY DEF Free, Task
  <2> QED BY <1>1, <2>1, TaskBegins DEF create_service_app
<1>2. ASSUME NEW m \in Realms, NEW n \in Names, create_realm(p, m, n)
      PROVE  RegistryInv' /\ held \subseteq held'
  <2> DEFINE t == [Free EXCEPT !.pc = "create_realm", !.realm = m, !.name = n]
  <2>1. t \in Task /\ t.pc = "create_realm" /\ t.realm = m /\ t.name = n
    BY DEF Free, Task
  <2> QED BY <1>2, <2>1, TaskBegins DEF create_realm
<1>3. ASSUME NEW m \in Realms, NEW a \in Apps, add_realm_member(p, m, a)
      PROVE  RegistryInv' /\ held \subseteq held'
  <2> DEFINE t == [Free EXCEPT !.pc = "join", !.app = a, !.realm = m]
  <2>1. t \in Task /\ t.pc = "join" /\ t.app = a /\ t.realm = m
    BY DEF Free, Task
  <2> QED BY <1>3, <2>1, TaskBegins DEF add_realm_member
<1>4. ASSUME NEW m \in Realms, NEW a \in Apps, remove_realm_member(p, m, a)
      PROVE  RegistryInv' /\ held \subseteq held'
  <2> DEFINE t == [Free EXCEPT !.pc = "leave", !.app = a, !.realm = m]
  <2>1. t \in Task /\ t.pc = "leave" /\ t.app = a
    BY DEF Free, Task
  <2> QED BY <1>4, <2>1, TaskBegins DEF remove_realm_member
<1> QED BY <1>1, <1>2, <1>3, <1>4

LEMMA RegistryEnds ==
  ASSUME RegistryInv, (\E p \in Procs : invalidate_cache(p) \/ TaskDies(p)) \/ CacheExpires \/ UNCHANGED registry
  PROVE  RegistryInv' /\ held \subseteq held'
<1>1. minted \subseteq held
  BY DEF RegistryInv, CacheHoldsScopes
<1>2. ASSUME NEW p \in Procs, invalidate_cache(p) PROVE RegistryInv' /\ held \subseteq held'
  BY <1>1, <1>2, FreeTask, TablesStand DEF invalidate_cache
<1>3. ASSUME NEW p \in Procs, TaskDies(p) PROVE RegistryInv' /\ held \subseteq held'
  BY <1>1, <1>3, FreeTask, TablesStand DEF TaskDies
<1>4. CASE CacheExpires
  BY <1>1, <1>4, TablesStand DEF CacheExpires
<1>5. CASE UNCHANGED registry
  BY <1>1, <1>5, TablesStand DEF registry
<1> QED BY <1>2, <1>3, <1>4, <1>5

LEMMA RegistryStep ==
  ASSUME RegistryInv, RegistryMoves
  PROVE  RegistryInv' /\ held \subseteq held'
<1>1. CASE UNCHANGED registry
  BY <1>1, RegistryEnds
<1>2. CASE RegistryCalls
  BY <1>2, RegistryBegins, UpdateServiceAppSafe, DeleteRealmSafe, UpdateRealmSafe, RequestsSafe DEF RegistryCalls
<1>3. CASE RegistrySteps
  BY <1>3, CommitServiceAppSafe, CommitRealmSafe, AddMemberSafe, RemoveMemberSafe, RegistryEnds DEF RegistrySteps
<1>4. CASE \E p \in Procs, a \in Apps : delete_service_app(p, a)
  BY <1>4, DeleteServiceAppSafe
<1>5. CASE \E a \in Apps : Asks(a)
  BY <1>5, RequestsSafe
<1> QED BY <1>1, <1>2, <1>3, <1>4, <1>5 DEF RegistryMoves

-----------------------------------------------------------------------------
(* THE GRANTS: their initial state, and steps that only take *)

LEMMA GrantInit ==
  ASSUME Init
  PROVE  GrantInv /\ AskInv /\ RecordInv
<1> USE AccessAssumption DEF Init
<1>1. \A g \in Groups : IsGroup(g) <=> groupWs[g] # None
  BY DEF IsGroup
<1>2. GrantTypes
  BY DEF GrantTypes, Unshared
<1>3. RolesAreHeld /\ GroupRolesMatch /\ SharesAreHeld
  BY DEF RolesAreHeld, GroupRolesMatch, SharesAreHeld, Unshared
<1>4. GroupsAreJoined
  BY <1>1 DEF GroupsAreJoined, Member
<1>5. NoAsk \in Ask /\ NoAsk.pc = "idle"
  BY DEF NoAsk, Ask
<1>6. AskInv
  BY <1>5 DEF AskInv, AskOK
<1>7. RecordInv
  BY DEF RecordInv
<1> QED BY <1>2, <1>3, <1>4, <1>6, <1>7 DEF GrantInv

(* What is there was there before, and what it rests on still is. *)
RolesKept ==
  \A u \in Users, r \in RoleIds : <<u, r>> \in userRole' =>
    /\ <<u, r>> \in userRole /\ roleWs'[r] = roleWs[r]
    /\ Member(roleWs[r], u) => member'[roleWs[r]][u] # None
GroupsKept ==
  \A g \in Groups, u \in Users : <<g, u>> \in inGroup' =>
    /\ <<g, u>> \in inGroup /\ groupWs'[g] = groupWs[g]
    /\ Member(groupWs[g], u) => member'[groupWs[g]][u] # None
GroupRolesKept ==
  \A g \in Groups, r \in RoleIds : <<g, r>> \in groupRole' =>
    <<g, r>> \in groupRole /\ groupWs'[g] = groupWs[g] /\ roleWs'[r] = roleWs[r]
SharesKeptOK ==
  \A x \in PermIds, g \in Users \cup Groups : share'[x][g] # None =>
    /\ share[x][g] # None /\ perm'[x] \notin {None, Gone} /\ perm'[x].ws = perm[x].ws
    /\ g \in Users => (Member(perm[x].ws, g) => member'[perm[x].ws][g] # None)
    /\ g \notin Users => (groupWs[g] = perm[x].ws => groupWs'[g] = perm[x].ws)

LEMMA RolesStay == ASSUME GrantInv, RolesKept, late \subseteq late' PROVE RolesAreHeld'
BY DEF GrantInv, RolesKept, RolesAreHeld, IsRole, Member
LEMMA GroupsStay == ASSUME GrantInv, GroupsKept, late \subseteq late' PROVE GroupsAreJoined'
BY DEF GrantInv, GroupsKept, GroupsAreJoined, IsGroup, Member
LEMMA GroupRolesStay == ASSUME GrantInv, GroupRolesKept PROVE GroupRolesMatch'
BY DEF GrantInv, GroupRolesKept, GroupRolesMatch, IsGroup, IsRole
LEMMA SharesStay == ASSUME GrantInv, SharesKeptOK, late \subseteq late' PROVE SharesAreHeld'
BY DEF GrantInv, SharesKeptOK, SharesAreHeld, IsPerm, Reaches, Member

Kept == RolesKept /\ GroupsKept /\ GroupRolesKept /\ SharesKeptOK

LEMMA GrantsStay ==
  ASSUME GrantInv, GrantTypes', Kept, late \subseteq late'
  PROVE  GrantInv'
BY RolesStay, GroupsStay, GroupRolesStay, SharesStay DEF GrantInv, Kept

(* A workspace of a group or a role is never another one. *)
WorkspacesStay ==
  /\ \A g \in Groups : groupWs[g] # None =>
       /\ groupWs'[g] # None
       /\ groupWs'[g] \in Workspaces => groupWs'[g] = groupWs[g]
  /\ \A r \in RoleIds : roleWs[r] # None =>
       /\ roleWs'[r] # None
       /\ roleWs'[r] \in Workspaces => roleWs'[r] = roleWs[r]

LEMMA RowsSafe ==
  ASSUME GrantInv, UNCHANGED late, RowChange(perm', share'),
         perm' \in [PermIds -> PermRow \cup {None, Gone}],
         share' \in [PermIds -> [Users \cup Groups -> Levels \cup {None}]],
         \A x \in PermIds, g \in Users \cup Groups : share'[x][g] # None =>
           share[x][g] # None /\ perm'[x] \notin {None, Gone} /\ perm'[x].ws = perm[x].ws
  PROVE  GrantInv' /\ WorkspacesStay
<1>1. GrantTypes'
  BY DEF RowChange, GrantInv, GrantTypes
<1>2. RolesKept /\ GroupsKept /\ GroupRolesKept
  BY DEF RowChange, RolesKept, GroupsKept, GroupRolesKept, Member
<1>3. SharesKeptOK
  BY DEF RowChange, SharesKeptOK, Member
<1>4. WorkspacesStay
  BY DEF RowChange, WorkspacesStay
<1> QED BY <1>1, <1>2, <1>3, <1>4, GrantsStay DEF Kept

LEMMA UpdateVisibilitySafe ==
  ASSUME GrantInv, UNCHANGED late, NEW x \in PermIds, NEW vis \in {"private", "workspace"}, update_visibility(x, vis)
  PROVE  GrantInv' /\ WorkspacesStay
<1> DEFINE row == [perm[x] EXCEPT !.vis = vis]
           ps == [perm EXCEPT ![x] = row]
<1>1. IsPerm(x) /\ RowChange(ps, share)
  BY DEF update_visibility
<1>2. perm[x] \in PermRow
  BY <1>1 DEF IsPerm, GrantInv, GrantTypes
<1>3. row \in PermRow /\ row.ws = perm[x].ws
  BY <1>2 DEF PermRow
<1>4. row \notin {None, Gone}
  BY <1>3, AccessAssumption
<1>5. ps \in [PermIds -> PermRow \cup {None, Gone}] /\ share \in [PermIds -> [Users \cup Groups -> Levels \cup {None}]]
  BY <1>3 DEF GrantInv, GrantTypes
<1>6. ps[x] = row /\ \A y \in PermIds : y # x => ps[y] = perm[y]
  BY DEF GrantInv, GrantTypes
<1>7. \A y \in PermIds, g \in Users \cup Groups : share[y][g] # None =>
        share[y][g] # None /\ ps[y] \notin {None, Gone} /\ ps[y].ws = perm[y].ws
  BY <1>3, <1>4, <1>6 DEF GrantInv, SharesAreHeld, IsPerm
<1>8. perm' = ps /\ share' = share /\ RowChange(perm', share')
  BY <1>1 DEF RowChange
<1> QED BY <1>5, <1>7, <1>8, RowsSafe

LEMMA RevokeShareSafe ==
  ASSUME GrantInv, UNCHANGED late, NEW x \in PermIds, NEW g \in Users \cup Groups, revoke_share(x, g)
  PROVE  GrantInv' /\ WorkspacesStay
<1> DEFINE ss == [share EXCEPT ![x][g] = None]
<1>1. RowChange(perm, ss)
  BY DEF revoke_share
<1>2. share \in [PermIds -> [Users \cup Groups -> Levels \cup {None}]]
  BY DEF GrantInv, GrantTypes
<1>3. ss \in [PermIds -> [Users \cup Groups -> Levels \cup {None}]]
  BY <1>2
<1>4. \A y \in PermIds, h \in Users \cup Groups : ss[y][h] # None => share[y][h] # None
  BY <1>2
<1>5. \A y \in PermIds, h \in Users \cup Groups : ss[y][h] # None =>
        share[y][h] # None /\ perm[y] \notin {None, Gone} /\ perm[y].ws = perm[y].ws
  BY <1>4 DEF GrantInv, SharesAreHeld, IsPerm
<1>6. perm \in [PermIds -> PermRow \cup {None, Gone}]
  BY DEF GrantInv, GrantTypes
<1>7. perm' = perm /\ share' = ss /\ RowChange(perm', share')
  BY <1>1 DEF RowChange
<1> QED BY <1>3, <1>5, <1>6, <1>7, RowsSafe

LEMMA DeleteRowsSafe ==
  ASSUME GrantInv, UNCHANGED late, NEW xs, DeleteRows(xs)
  PROVE  GrantInv' /\ WorkspacesStay
<1> DEFINE ps == [x \in PermIds |-> IF x \in xs THEN Gone ELSE perm[x]]
           shares == [x \in PermIds |-> IF x \in xs THEN Unshared ELSE share[x]]
<1>1. RowChange(ps, shares)
  BY DEF DeleteRows
<1>2. /\ ps \in [PermIds -> PermRow \cup {None, Gone}]
      /\ shares \in [PermIds -> [Users \cup Groups -> Levels \cup {None}]]
  BY DEF GrantInv, GrantTypes, Unshared
<1>3. \A x \in PermIds, g \in Users \cup Groups : shares[x][g] # None =>
        share[x][g] # None /\ ps[x] \notin {None, Gone} /\ ps[x].ws = perm[x].ws
  BY DEF Unshared, GrantInv, SharesAreHeld, IsPerm
<1>4. perm' = ps /\ share' = shares /\ RowChange(perm', share')
  BY <1>1 DEF RowChange
<1> HIDE DEF ps, shares
<1> QED BY <1>2, <1>3, <1>4, RowsSafe

(* Roles and their actions: nobody is granted a role. *)
LEMMA RbacSafe ==
  ASSUME GrantInv, UNCHANGED late, NEW acts, NEW ras, NEW urs, NEW grs, RbacChange(acts, ras, urs, grs),
         acts \in SUBSET (Names \X ActionNames), ras \in SUBSET (RoleIds \X acts),
         urs \subseteq userRole, grs \subseteq groupRole,
         roleWs' \in [RoleIds -> Workspaces \cup {None, Gone}],
         \A r \in RoleIds : \/ roleWs'[r] = roleWs[r]
                            \/ roleWs[r] = None
                            \/ /\ roleWs'[r] = Gone
                               /\ \A u \in Users : <<u, r>> \notin urs
                               /\ \A g \in Groups : <<g, r>> \notin grs
  PROVE  GrantInv' /\ WorkspacesStay
<1> USE AccessAssumption, ScopesAssumption
<1>1. GrantTypes'
  BY DEF RbacChange, GrantInv, GrantTypes
<1>2. RolesKept
  BY DEF RbacChange, RolesKept, Member, GrantInv, RolesAreHeld, IsRole
<1>3. GroupsKept /\ SharesKeptOK
  BY DEF RbacChange, GroupsKept, SharesKeptOK, Member, GrantInv, SharesAreHeld, IsPerm
<1>4. GroupRolesKept
  BY DEF RbacChange, GroupRolesKept, GrantInv, GroupRolesMatch, IsRole
<1>5. WorkspacesStay
  BY DEF RbacChange, WorkspacesStay, GrantInv, GrantTypes
<1> QED BY <1>1, <1>2, <1>3, <1>4, <1>5, GrantsStay DEF Kept

LEMMA RegisterActionsSafe ==
  ASSUME GrantInv, UNCHANGED late, NEW s \in Names, NEW names \in SUBSET ActionNames,
         RbacChange(registered \cup {<<s, n>> : n \in names}, roleAction, userRole, groupRole), UNCHANGED roleWs
  PROVE  GrantInv' /\ WorkspacesStay
<1> DEFINE acts == registered \cup {<<s, n>> : n \in names}
<1>1. acts \in SUBSET (Names \X ActionNames) /\ roleAction \in SUBSET (RoleIds \X acts)
  BY DEF GrantInv, GrantTypes
<1>2. roleWs' \in [RoleIds -> Workspaces \cup {None, Gone}]
  BY DEF GrantInv, GrantTypes
<1> HIDE DEF acts
<1>3. RbacChange(acts, roleAction, userRole, groupRole)
  BY DEF acts
<1> QED BY <1>1, <1>2, <1>3, RbacSafe

LEMMA RoleActionsSafe ==
  ASSUME GrantInv, UNCHANGED late, NEW r \in RoleIds,
         \/ \E acts \in SUBSET registered : add_role_actions(r, acts)
         \/ \E act \in registered : remove_role_action(r, act)
  PROVE  GrantInv' /\ WorkspacesStay
<1>1. roleWs \in [RoleIds -> Workspaces \cup {None, Gone}] /\ registered \in SUBSET (Names \X ActionNames)
      /\ roleAction \in SUBSET (RoleIds \X registered)
  BY DEF GrantInv, GrantTypes
<1>2. PICK ras \in SUBSET (RoleIds \X registered) :
        RbacChange(registered, ras, userRole, groupRole) /\ UNCHANGED roleWs
  BY <1>1 DEF add_role_actions, remove_role_action
<1> QED BY <1>1, <1>2, RbacSafe

LEMMA DeleteActionSafe ==
  ASSUME GrantInv, UNCHANGED late, NEW act \in registered, delete_service_action(act)
  PROVE  GrantInv' /\ WorkspacesStay
<1> DEFINE acts == registered \ {act}
           ras == {x \in roleAction : x[2] # act}
<1>1. acts \in SUBSET (Names \X ActionNames) /\ ras \in SUBSET (RoleIds \X acts)
  BY DEF GrantInv, GrantTypes
<1>2. RbacChange(acts, ras, userRole, groupRole) /\ UNCHANGED roleWs
  BY DEF delete_service_action
<1>3. roleWs' \in [RoleIds -> Workspaces \cup {None, Gone}]
  BY <1>2 DEF GrantInv, GrantTypes
<1> HIDE DEF acts, ras
<1> QED BY <1>1, <1>2, <1>3, RbacSafe

LEMMA CreateRoleSafe ==
  ASSUME GrantInv, UNCHANGED late, NEW r \in RoleIds, NEW w \in Workspaces, create_role(r, w)
  PROVE  GrantInv' /\ WorkspacesStay
<1>1. RbacChange(registered, roleAction, userRole, groupRole) /\ roleWs' = [roleWs EXCEPT ![r] = w]
      /\ roleWs[r] = None
  BY DEF create_role
<1>2. /\ registered \in SUBSET (Names \X ActionNames) /\ roleAction \in SUBSET (RoleIds \X registered)
      /\ roleWs' \in [RoleIds -> Workspaces \cup {None, Gone}]
      /\ \A q \in RoleIds : roleWs'[q] = roleWs[q] \/ roleWs[q] = None
  BY <1>1 DEF GrantInv, GrantTypes
<1> QED BY <1>1, <1>2, RbacSafe

LEMMA DeleteRoleSafe ==
  ASSUME GrantInv, UNCHANGED late, NEW r \in RoleIds, delete_role(r)
  PROVE  GrantInv' /\ WorkspacesStay
<1> DEFINE ras == {x \in roleAction : x[1] # r}
           urs == {x \in userRole : x[2] # r}
           grs == {x \in groupRole : x[2] # r}
<1>1. RbacChange(registered, ras, urs, grs) /\ roleWs' = [roleWs EXCEPT ![r] = Gone]
  BY DEF delete_role
<1>2. /\ registered \in SUBSET (Names \X ActionNames) /\ ras \in SUBSET (RoleIds \X registered)
      /\ roleWs' \in [RoleIds -> Workspaces \cup {None, Gone}]
      /\ \A q \in RoleIds : q # r => roleWs'[q] = roleWs[q]
      /\ roleWs'[r] = Gone
  BY <1>1 DEF GrantInv, GrantTypes
<1>3. /\ urs \subseteq userRole /\ grs \subseteq groupRole
      /\ \A u \in Users : <<u, r>> \notin urs
      /\ \A g \in Groups : <<g, r>> \notin grs
  OBVIOUS
<1> HIDE DEF ras, urs, grs
<1> QED BY <1>1, <1>2, <1>3, RbacSafe

LEMMA RemoveRolesSafe ==
  ASSUME GrantInv, UNCHANGED late, NEW r \in RoleIds,
         (\E u \in Users : remove_user_role(u, r)) \/ (\E g \in Groups : remove_group_role(g, r))
  PROVE  GrantInv' /\ WorkspacesStay
<1>1. PICK urs \in SUBSET userRole, grs \in SUBSET groupRole :
        RbacChange(registered, roleAction, urs, grs) /\ UNCHANGED roleWs
  BY DEF remove_user_role, remove_group_role
<1>2. roleWs' \in [RoleIds -> Workspaces \cup {None, Gone}] /\ registered \in SUBSET (Names \X ActionNames)
      /\ roleAction \in SUBSET (RoleIds \X registered)
  BY <1>1 DEF GrantInv, GrantTypes
<1> QED BY <1>1, <1>2, RbacSafe

(* Groups and memberships. *)
LEMMA CreateGroupSafe ==
  ASSUME GrantInv, UNCHANGED late, NEW g \in Groups, NEW w \in Workspaces, create_group(g, w)
  PROVE  GrantInv' /\ WorkspacesStay
<1> USE AccessAssumption
<1>1. /\ groupWs[g] = None /\ groupWs' = [groupWs EXCEPT ![g] = w]
      /\ UNCHANGED <<member, inGroup, userRole, groupRole, share, roleWs, registered, roleAction, perm>>
  BY DEF create_group, GroupChange
<1>2. GrantTypes'
  BY <1>1 DEF GrantInv, GrantTypes
<1>3. \A h \in Groups : groupWs'[h] = groupWs[h] \/ (h = g /\ groupWs[h] = None)
  BY <1>1 DEF GrantInv, GrantTypes
<1>4. RolesKept /\ GroupsKept /\ GroupRolesKept
  BY <1>1, <1>3 DEF RolesKept, GroupsKept, GroupRolesKept, GrantInv, GroupsAreJoined, GroupRolesMatch, IsGroup, Member
<1>5. SharesKeptOK
  <2> SUFFICES ASSUME NEW x \in PermIds, NEW h \in Groups, share[x][h] # None, groupWs[h] = perm[x].ws
               PROVE  groupWs'[h] = groupWs[h]
    BY <1>1 DEF SharesKeptOK, Member, GrantInv, SharesAreHeld, IsPerm
  <2>1. perm[x] \in PermRow
    BY DEF GrantInv, GrantTypes, SharesAreHeld, IsPerm
  <2>2. perm[x].ws \in Workspaces
    BY <2>1 DEF PermRow
  <2> QED BY <1>3, <2>2
<1>6. WorkspacesStay
  BY <1>1, <1>3 DEF WorkspacesStay
<1> QED BY <1>1, <1>2, <1>4, <1>5, <1>6, GrantsStay DEF Kept

LEMMA DeleteGroupSafe ==
  ASSUME GrantInv, UNCHANGED late, NEW g \in Groups, delete_group(g)
  PROVE  GrantInv' /\ WorkspacesStay
<1> USE AccessAssumption, ScopesAssumption
<1>1. /\ groupWs' = [groupWs EXCEPT ![g] = Gone] /\ inGroup' = {x \in inGroup : x[1] # g}
      /\ groupRole' = {x \in groupRole : x[1] # g}
      /\ share' = [x \in PermIds |-> [share[x] EXCEPT ![g] = None]]
      /\ UNCHANGED <<member, userRole, roleWs, registered, roleAction, perm>>
  BY DEF delete_group, GroupChange, SharesWithout
<1>2. share \in [PermIds -> [Users \cup Groups -> Levels \cup {None}]]
  BY DEF GrantInv, GrantTypes
<1>3. /\ share' \in [PermIds -> [Users \cup Groups -> Levels \cup {None}]]
      /\ \A x \in PermIds, h \in Users \cup Groups : share'[x][h] # None => share[x][h] # None /\ h # g
  <2>1. ASSUME NEW x \in PermIds
        PROVE  /\ share'[x] \in [Users \cup Groups -> Levels \cup {None}]
               /\ share'[x][g] = None
               /\ \A h \in Users \cup Groups : h # g => share'[x][h] = share[x][h]
    BY <1>1, <1>2
  <2> QED BY <1>1, <1>2, <2>1
<1>4. groupWs' \in [Groups -> Workspaces \cup {None, Gone}] /\ groupWs'[g] = Gone
      /\ \A h \in Groups : h # g => groupWs'[h] = groupWs[h]
  BY <1>1 DEF GrantInv, GrantTypes
<1>5. GrantTypes'
  BY <1>1, <1>3, <1>4 DEF GrantInv, GrantTypes
<1>6. RolesKept /\ GroupsKept /\ GroupRolesKept
  BY <1>1, <1>4 DEF RolesKept, GroupsKept, GroupRolesKept, Member
<1>7. SharesKeptOK
  BY <1>1, <1>3, <1>4 DEF SharesKeptOK, GrantInv, SharesAreHeld, IsPerm, Member
<1>8. WorkspacesStay
  BY <1>1, <1>4 DEF WorkspacesStay
<1> QED BY <1>1, <1>5, <1>6, <1>7, <1>8, GrantsStay DEF Kept

LEMMA LeaveGroupSafe ==
  ASSUME GrantInv, UNCHANGED late, NEW g \in Groups, NEW u \in Users, remove_group_member(g, u)
  PROVE  GrantInv' /\ WorkspacesStay
<1>1. /\ inGroup' \subseteq inGroup
      /\ UNCHANGED <<member, groupWs, userRole, groupRole, share, roleWs, registered, roleAction, perm>>
  BY DEF remove_group_member, GroupChange
<1>2. GrantTypes' /\ WorkspacesStay
  BY <1>1 DEF GrantInv, GrantTypes, WorkspacesStay
<1>3. RolesKept /\ GroupsKept /\ GroupRolesKept
  BY <1>1 DEF RolesKept, GroupsKept, GroupRolesKept, Member
<1>4. SharesKeptOK
  BY <1>1 DEF SharesKeptOK, GrantInv, SharesAreHeld, IsPerm, Member
<1> QED BY <1>2, <1>3, <1>4, GrantsStay DEF Kept

(* A removal takes what the member had in that workspace, and nothing else
   rests on that membership. *)
LEMMA RemoveMemberOfSafe ==
  ASSUME GrantInv, UNCHANGED late, NEW w \in Workspaces, NEW u \in Users, remove_member_of(w, u)
  PROVE  GrantInv' /\ WorkspacesStay
<1> USE AccessAssumption
<1>1. /\ member' = [member EXCEPT ![w][u] = None]
      /\ inGroup' = {x \in inGroup : ~(x[2] = u /\ groupWs[x[1]] = w)}
      /\ userRole' = {x \in userRole : ~(x[1] = u /\ roleWs[x[2]] = w)}
      /\ share' = [x \in PermIds |-> IF IsPerm(x) /\ perm[x].ws = w THEN [share[x] EXCEPT ![u] = None]
                                     ELSE share[x]]
      /\ UNCHANGED <<groupWs, groupRole, roleWs, registered, roleAction, perm>>
  BY DEF remove_member_of, GroupChange
<1>2. /\ share \in [PermIds -> [Users \cup Groups -> Levels \cup {None}]]
      /\ member \in [Workspaces -> [Users -> WsRoles \cup {None}]]
  BY DEF GrantInv, GrantTypes
<1>3. /\ member' \in [Workspaces -> [Users -> WsRoles \cup {None}]]
      /\ \A v \in Workspaces, q \in Users : ~(v = w /\ q = u) => member'[v][q] = member[v][q]
  BY <1>1, <1>2
<1>4. ASSUME NEW x \in PermIds
      PROVE  /\ share'[x] \in [Users \cup Groups -> Levels \cup {None}]
             /\ \A h \in Users \cup Groups : share'[x][h] # None => share[x][h] # None
             /\ IsPerm(x) /\ perm[x].ws = w => share'[x][u] = None
  <2>1. share[x] \in [Users \cup Groups -> Levels \cup {None}]
    BY <1>2
  <2>2. CASE IsPerm(x) /\ perm[x].ws = w
    <3>1. share'[x] = [share[x] EXCEPT ![u] = None]
      BY <1>1, <2>2
    <3> QED BY <2>1, <3>1
  <2>3. CASE ~(IsPerm(x) /\ perm[x].ws = w)
    <3>1. share'[x] = share[x]
      BY <1>1, <2>3
    <3> QED BY <2>1, <2>3, <3>1
  <2> QED BY <2>2, <2>3
<1>5. share' \in [PermIds -> [Users \cup Groups -> Levels \cup {None}]]
  BY <1>1, <1>4
<1>6. GrantTypes' /\ WorkspacesStay
  BY <1>1, <1>3, <1>5 DEF GrantInv, GrantTypes, WorkspacesStay
<1>7. RolesKept
  BY <1>1, <1>3 DEF RolesKept, Member, GrantInv, RolesAreHeld, IsRole
<1>8. GroupsKept
  BY <1>1, <1>3 DEF GroupsKept, Member, GrantInv, GroupsAreJoined, IsGroup
<1>9. GroupRolesKept
  BY <1>1 DEF GroupRolesKept
<1>10. SharesKeptOK
  <2> SUFFICES ASSUME NEW x \in PermIds, NEW h \in Users \cup Groups, share'[x][h] # None
               PROVE  /\ share[x][h] # None /\ IsPerm(x)
                      /\ h \in Users /\ Member(perm[x].ws, h) => member'[perm[x].ws][h] # None
    BY <1>1 DEF SharesKeptOK, IsPerm
  <2>1. share[x][h] # None /\ IsPerm(x)
    BY <1>4 DEF GrantInv, SharesAreHeld
  <2>2. perm[x] \in PermRow
    BY <2>1 DEF GrantInv, GrantTypes, IsPerm
  <2>3. perm[x].ws \in Workspaces
    BY <2>2 DEF PermRow
  <2>4. ~(perm[x].ws = w /\ h = u)
    BY <1>4, <2>1
  <2> QED BY <1>3, <2>1, <2>3, <2>4 DEF Member
<1> QED BY <1>6, <1>7, <1>8, <1>9, <1>10, GrantsStay DEF Kept

LEMMA JoinWorkspaceSafe ==
  ASSUME GrantInv, UNCHANGED late, NEW w \in Workspaces, NEW u \in Users, JoinWorkspace(w, u, "viewer")
  PROVE  GrantInv' /\ WorkspacesStay
<1> USE AccessAssumption
<1>1. /\ member' = [member EXCEPT ![w][u] = "viewer"]
      /\ UNCHANGED <<groupWs, inGroup, userRole, groupRole, share, roleWs, registered, roleAction, perm>>
  BY DEF JoinWorkspace, GroupChange
<1>2. member \in [Workspaces -> [Users -> WsRoles \cup {None}]]
  BY DEF GrantInv, GrantTypes
<1>3. "viewer" \in WsRoles
  BY DEF WsRoles
<1>4. "viewer" # None
  BY <1>3
<1>5. /\ member' \in [Workspaces -> [Users -> WsRoles \cup {None}]]
      /\ \A v \in Workspaces, q \in Users : member[v][q] # None => member'[v][q] # None
  BY <1>1, <1>2, <1>3, <1>4
<1>6. GrantTypes' /\ WorkspacesStay
  BY <1>1, <1>5 DEF GrantInv, GrantTypes, WorkspacesStay
<1>7. RolesKept
  BY <1>1, <1>5 DEF RolesKept, Member, GrantInv, RolesAreHeld, IsRole
<1>8. GroupsKept
  BY <1>1, <1>5 DEF GroupsKept, Member, GrantInv, GroupsAreJoined, IsGroup
<1>9. GroupRolesKept
  BY <1>1 DEF GroupRolesKept
<1>10. SharesKeptOK
  <2> SUFFICES ASSUME NEW x \in PermIds, NEW h \in Users \cup Groups, share[x][h] # None
               PROVE  IsPerm(x) /\ (h \in Users /\ Member(perm[x].ws, h) => member'[perm[x].ws][h] # None)
    BY <1>1 DEF SharesKeptOK, IsPerm
  <2>1. IsPerm(x)
    BY DEF GrantInv, SharesAreHeld
  <2>2. perm[x] \in PermRow
    BY <2>1 DEF GrantInv, GrantTypes, IsPerm
  <2>3. perm[x].ws \in Workspaces
    BY <2>2 DEF PermRow
  <2> QED BY <1>5, <2>1, <2>3 DEF Member
<1> QED BY <1>6, <1>7, <1>8, <1>9, <1>10, GrantsStay DEF Kept

-----------------------------------------------------------------------------
(* THE REQUESTS between a check and an insert *)

LEMMA IdleOK == NoAsk \in Ask /\ NoAsk.pc = "idle"
BY DEF NoAsk, Ask

LEMMA IdleAskOK == AskOK(NoAsk)
BY IdleOK DEF AskOK

(* Others moved: a request keeps only what nobody can undo. *)
LEMMA MarkedAsk ==
  ASSUME NEW q \in Ask, AskOK(q), WorkspacesStay,
         groupWs' \in [Groups -> Workspaces \cup {None, Gone}],
         roleWs' \in [RoleIds -> Workspaces \cup {None, Gone}]
  PROVE  AskOK([q EXCEPT !.moved = TRUE])' /\ [q EXCEPT !.moved = TRUE] \in Ask
<1> DEFINE z == [q EXCEPT !.moved = TRUE]
<1>1. z \in Ask /\ z.moved /\ z.pc = q.pc /\ z.pm = q.pm /\ z.row = q.row /\ z.who = q.who
      /\ z.level = q.level /\ z.role = q.role /\ z.group = q.group
  BY DEF Ask
<1> HIDE DEF z
<1>2. q.pc = "group_role" =>
        /\ q.role \in RoleIds /\ q.group \in Groups
        /\ groupWs'[q.group] # None /\ roleWs'[q.role] # None
        /\ groupWs'[q.group] \in Workspaces /\ roleWs'[q.role] \in Workspaces
             => groupWs'[q.group] = roleWs'[q.role]
  BY DEF AskOK, WorkspacesStay, IsGroup, IsRole
<1>3. AskOK(z)'
  BY <1>1, <1>2 DEF AskOK, IsGroup, IsRole
<1> QED BY <1>1, <1>3 DEF z

LEMMA AsksMarked ==
  ASSUME GrantInv', AskInv, WorkspacesStay,
         ask' = [c \in Callers |-> IF ask[c].pc = "idle" THEN NoAsk ELSE [ask[c] EXCEPT !.moved = TRUE]]
  PROVE  AskInv'
<1>1. /\ groupWs' \in [Groups -> Workspaces \cup {None, Gone}]
      /\ roleWs' \in [RoleIds -> Workspaces \cup {None, Gone}]
  BY DEF GrantInv, GrantTypes
<1>2. ASSUME NEW c \in Callers, NEW q, q = ask[c], NEW z, z = ask'[c]
      PROVE  z \in Ask /\ AskOK(z)'
  <2>1. q \in Ask /\ AskOK(q)
    BY <1>2 DEF AskInv
  <2>2. CASE q.pc = "idle"
    <3>1. z = NoAsk
      BY <1>2, <2>2
    <3> QED BY <3>1, IdleOK DEF AskOK
  <2>3. CASE q.pc # "idle"
    <3>1. z = [q EXCEPT !.moved = TRUE]
      BY <1>2, <2>3
    <3> QED BY <1>1, <2>1, <3>1, MarkedAsk
  <2> QED BY <2>2, <2>3
<1>3. ASSUME NEW c \in Callers PROVE ask'[c] \in Ask /\ AskOK(ask[c])'
  BY <1>2 DEF AskOK
<1> QED BY <1>3 DEF AskInv

(* Inserts leave everything that a check looks at. *)
LEMMA AsksStand ==
  ASSUME AskInv, UNCHANGED <<member, groupWs, roleWs>>,
         \A x \in PermIds : IsPerm(x) => perm'[x] = perm[x],
         NEW c \in Callers, NEW k \in Ask, ask' = [ask EXCEPT ![c] = k], AskOK(k)'
  PROVE  AskInv'
<1>1. ask \in [Callers -> Ask]
  BY DEF AskInv
<1>2. ASSUME NEW d \in Callers, NEW z, z = ask'[d]
      PROVE  z \in Ask /\ AskOK(z)'
  <2>1. CASE d = c
    BY <1>1, <1>2, <2>1
  <2>2. CASE d # c
    <3>1. z = ask[d] /\ z \in Ask
      BY <1>1, <1>2, <2>2
    <3>2. AskOK(z)
      BY <3>1 DEF AskInv
    <3> QED BY <3>1, <3>2 DEF AskOK, IsPerm, IsGroup, IsRole, Reaches, Member
  <2> QED BY <2>1, <2>2
<1>3. ASSUME NEW d \in Callers PROVE ask'[d] \in Ask /\ AskOK(ask[d])'
  BY <1>2 DEF AskOK
<1> QED BY <1>1, <1>3 DEF AskInv

LEMMA AsksUntouched ==
  ASSUME AskInv, UNCHANGED <<member, groupWs, roleWs, perm, ask>>
  PROVE  AskInv'
BY DEF AskInv, AskOK, IsPerm, IsGroup, IsRole, Reaches, Member

LEMMA GrantsUntouched ==
  ASSUME GrantInv, UNCHANGED <<grants, late>>
  PROVE  GrantInv'
<1>1. GrantTypes'
  BY DEF GrantInv, GrantTypes, grants
<1>2. Kept
  BY DEF Kept, RolesKept, GroupsKept, GroupRolesKept, SharesKeptOK, grants, GrantInv, SharesAreHeld, IsPerm, Member
<1> QED BY <1>1, <1>2, GrantsStay

(* A request has checked: what it found is so. *)
Found(q) ==
  \/ q.pc = "register" /\ q.row \in PermRow
  \/ /\ q.pc = "share" /\ q.pm \in PermIds /\ q.who \in Users \cup Groups /\ q.level \in Levels
     /\ IsPerm(q.pm) /\ Reaches(q.pm, q.who)
  \/ /\ q.pc = "user_role" /\ q.role \in RoleIds /\ q.who \in Users
     /\ IsRole(q.role) /\ Member(roleWs[q.role], q.who)
  \/ /\ q.pc = "group_role" /\ q.role \in RoleIds /\ q.group \in Groups
     /\ IsGroup(q.group) /\ IsRole(q.role) /\ groupWs[q.group] = roleWs[q.role]
  \/ /\ q.pc = "group_member" /\ q.group \in Groups /\ q.who \in Users
     /\ IsGroup(q.group) /\ Member(groupWs[q.group], q.who)

LEMMA ChecksSafe ==
  ASSUME GrantInv, AskInv, NEW c \in Callers, NEW q \in Ask, Found(q), Checks(c, q)
  PROVE  GrantInv' /\ AskInv' /\ UNCHANGED late
<1> USE AccessAssumption
<1>1. ask' = [ask EXCEPT ![c] = q] /\ UNCHANGED <<grants, late>>
  BY DEF Checks
<1>2. AskOK(q)
  BY DEF Found, AskOK, IsGroup, IsRole
<1>3. AskOK(q)'
  BY <1>1, <1>2 DEF grants, AskOK, IsPerm, IsGroup, IsRole, Reaches, Member
<1>4. AskInv'
  BY <1>1, <1>3, AsksStand DEF grants
<1> QED BY <1>1, <1>4, GrantsUntouched

LEMMA RegisterChecks ==
  ASSUME GrantInv, AskInv, NEW c \in Callers, NEW a \in Apps, NEW row \in PermRow, register_resource(c, a, row)
  PROVE  GrantInv' /\ AskInv' /\ UNCHANGED late
<1> DEFINE q == [NoAsk EXCEPT !.pc = "register", !.row = row]
<1>1. q \in Ask /\ q.pc = "register" /\ q.row = row
  BY DEF NoAsk, Ask
<1>2. Checks(c, q)
  BY DEF register_resource
<1> HIDE DEF q
<1> QED BY <1>1, <1>2, ChecksSafe DEF Found

LEMMA ShareChecks ==
  ASSUME GrantInv, AskInv, NEW c \in Callers, NEW x \in PermIds, NEW g \in Users \cup Groups, NEW level \in Levels,
         share_resource(c, x, g, level)
  PROVE  GrantInv' /\ AskInv' /\ UNCHANGED late
<1> DEFINE q == [NoAsk EXCEPT !.pc = "share", !.pm = x, !.who = g, !.level = level]
<1>1. q \in Ask /\ q.pc = "share" /\ q.pm = x /\ q.who = g /\ q.level = level
  BY DEF NoAsk, Ask
<1>2. Checks(c, q) /\ IsPerm(x) /\ Reaches(x, g)
  BY DEF share_resource, Reaches
<1> HIDE DEF q
<1> QED BY <1>1, <1>2, ChecksSafe DEF Found

LEMMA RoleChecks ==
  ASSUME GrantInv, AskInv, NEW c \in Callers, NEW r \in RoleIds,
         (\E u \in Users : assign_user_role(c, r, u)) \/ (\E g \in Groups : assign_group_role(c, g, r))
  PROVE  GrantInv' /\ AskInv' /\ UNCHANGED late
<1>1. ASSUME NEW u \in Users, assign_user_role(c, r, u) PROVE GrantInv' /\ AskInv' /\ UNCHANGED late
  <2> DEFINE q == [NoAsk EXCEPT !.pc = "user_role", !.role = r, !.who = u]
  <2>1. q \in Ask /\ q.pc = "user_role" /\ q.role = r /\ q.who = u
    BY DEF NoAsk, Ask
  <2>2. Checks(c, q) /\ IsRole(r) /\ Member(roleWs[r], u)
    BY <1>1 DEF assign_user_role, AssignAllowed
  <2> HIDE DEF q
  <2> QED BY <2>1, <2>2, ChecksSafe DEF Found
<1>2. ASSUME NEW g \in Groups, assign_group_role(c, g, r) PROVE GrantInv' /\ AskInv' /\ UNCHANGED late
  <2> DEFINE q == [NoAsk EXCEPT !.pc = "group_role", !.role = r, !.group = g]
  <2>1. q \in Ask /\ q.pc = "group_role" /\ q.role = r /\ q.group = g
    BY DEF NoAsk, Ask
  <2>2. Checks(c, q) /\ IsRole(r) /\ IsGroup(g) /\ groupWs[g] = roleWs[r]
    BY <1>2 DEF assign_group_role
  <2> HIDE DEF q
  <2> QED BY <2>1, <2>2, ChecksSafe DEF Found
<1> QED BY <1>1, <1>2

LEMMA GroupChecks ==
  ASSUME GrantInv, AskInv, NEW c \in Callers, NEW g \in Groups, NEW u \in Users, add_group_member(c, g, u)
  PROVE  GrantInv' /\ AskInv' /\ UNCHANGED late
<1> DEFINE q == [NoAsk EXCEPT !.pc = "group_member", !.group = g, !.who = u]
<1>1. q \in Ask /\ q.pc = "group_member" /\ q.group = g /\ q.who = u
  BY DEF NoAsk, Ask
<1>2. Checks(c, q) /\ IsGroup(g) /\ Member(groupWs[g], u)
  BY DEF add_group_member
<1> HIDE DEF q
<1> QED BY <1>1, <1>2, ChecksSafe DEF Found

-----------------------------------------------------------------------------
(* THE INSERTS: what a request grants now still has its ground, or others moved
   and whoever is granted it is late *)

LEMMA InsertedAsks ==
  ASSUME AskInv, UNCHANGED <<member, groupWs, roleWs>>, NEW c \in Callers, ask' = [ask EXCEPT ![c] = NoAsk],
         \A x \in PermIds : IsPerm(x) => perm'[x] = perm[x]
  PROVE  AskInv'
<1>1. AskOK(NoAsk)'
  BY IdleOK DEF AskOK
<1> QED BY <1>1, IdleOK, AsksStand

LEMMA InsertPermSafe ==
  ASSUME GrantInv, AskInv, NEW c \in Callers, InsertPerm(c)
  PROVE  GrantInv' /\ AskInv' /\ late \subseteq late'
<1> DEFINE row == ask[c].row
           free == {x \in PermIds : perm[x] = None}
           new == CHOOSE x \in free : TRUE
<1>1. /\ ask[c].pc = "register" /\ free # {}
      /\ perm' = IF get_resource_permission(row.svc, row.res) # {} THEN perm ELSE [perm EXCEPT ![new] = row]
      /\ UNCHANGED <<member, groupWs, inGroup, roleWs, registered, roleAction, userRole, groupRole, share>>
      /\ ask' = [ask EXCEPT ![c] = NoAsk] /\ late \subseteq late'
  BY DEF InsertPerm, Inserted
<1>2. row \in PermRow
  BY <1>1 DEF AskInv, AskOK
<1>3. new \in PermIds /\ perm[new] = None
  BY <1>1
<1> HIDE DEF new, free
<1>4. perm \in [PermIds -> PermRow \cup {None, Gone}]
  BY DEF GrantInv, GrantTypes
<1>5. /\ perm' \in [PermIds -> PermRow \cup {None, Gone}]
      /\ \A x \in PermIds : IsPerm(x) => perm'[x] = perm[x]
  <2>1. CASE perm' = perm
    BY <1>4, <2>1
  <2>2. CASE perm' = [perm EXCEPT ![new] = row]
    BY <1>2, <1>3, <1>4, <2>2 DEF IsPerm
  <2> QED BY <1>1, <2>1, <2>2
<1>6. GrantTypes'
  BY <1>1, <1>5 DEF GrantInv, GrantTypes
<1>7. Kept
  BY <1>1, <1>5 DEF Kept, RolesKept, GroupsKept, GroupRolesKept, SharesKeptOK, GrantInv, SharesAreHeld, IsPerm, Member
<1>8. AskInv'
  BY <1>1, <1>5, InsertedAsks
<1> QED BY <1>1, <1>6, <1>7, <1>8, GrantsStay

LEMMA InsertShareSafe ==
  ASSUME GrantInv, AskInv, NEW c \in Callers, InsertShare(c)
  PROVE  GrantInv' /\ AskInv' /\ late \subseteq late'
<1> USE AccessAssumption
<1> DEFINE q == ask[c]
<1>1. /\ q.pc = "share"
      /\ share' = IF IsPerm(q.pm) THEN [share EXCEPT ![q.pm][q.who] = q.level] ELSE share
      /\ UNCHANGED <<member, groupWs, inGroup, roleWs, registered, roleAction, userRole, groupRole, perm>>
      /\ ask' = [ask EXCEPT ![c] = NoAsk] /\ late' = IF q.moved THEN late \cup {q.who} ELSE late
  BY DEF InsertShare, Inserted
<1>2. /\ q.pm \in PermIds /\ q.who \in Users \cup Groups /\ q.level \in Levels
      /\ q.moved \/ (IsPerm(q.pm) /\ Reaches(q.pm, q.who))
  BY <1>1 DEF AskInv, AskOK
<1>3. late \subseteq late' /\ (q.moved => q.who \in late')
  BY <1>1
<1> HIDE DEF q
<1>4. share \in [PermIds -> [Users \cup Groups -> Levels \cup {None}]]
  BY DEF GrantInv, GrantTypes
<1>5. /\ share' \in [PermIds -> [Users \cup Groups -> Levels \cup {None}]]
      /\ \A x \in PermIds, g \in Users \cup Groups :
           \/ share'[x][g] = share[x][g]
           \/ x = q.pm /\ g = q.who /\ IsPerm(x)
  <2>1. CASE IsPerm(q.pm)
    <3>1. share' = [share EXCEPT ![q.pm][q.who] = q.level]
      BY <1>1, <2>1
    <3> QED BY <1>2, <1>4, <2>1, <3>1
  <2>2. CASE ~IsPerm(q.pm)
    BY <1>1, <1>4, <2>2
  <2> QED BY <2>1, <2>2
<1>6. GrantTypes'
  BY <1>1, <1>5 DEF GrantInv, GrantTypes
<1>7. RolesKept /\ GroupsKept /\ GroupRolesKept
  BY <1>1 DEF RolesKept, GroupsKept, GroupRolesKept, Member
<1>8. RolesAreHeld' /\ GroupsAreJoined' /\ GroupRolesMatch'
  BY <1>3, <1>7, RolesStay, GroupsStay, GroupRolesStay
<1>9. SharesAreHeld'
  BY <1>1, <1>2, <1>3, <1>5 DEF GrantInv, SharesAreHeld, IsPerm, Reaches, Member
<1>10. AskInv'
  BY <1>1, InsertedAsks
<1> QED BY <1>3, <1>6, <1>8, <1>9, <1>10 DEF GrantInv

LEMMA InsertUserRoleSafe ==
  ASSUME GrantInv, AskInv, NEW c \in Callers, InsertUserRole(c)
  PROVE  GrantInv' /\ AskInv' /\ late \subseteq late'
<1> DEFINE q == ask[c]
<1>1. /\ q.pc = "user_role"
      /\ userRole' = IF IsRole(q.role) THEN userRole \cup {<<q.who, q.role>>} ELSE userRole
      /\ UNCHANGED <<member, groupWs, inGroup, roleWs, registered, roleAction, groupRole, perm, share>>
      /\ ask' = [ask EXCEPT ![c] = NoAsk] /\ late' = IF q.moved THEN late \cup {q.who} ELSE late
  BY DEF InsertUserRole, RbacChange, Inserted
<1>2. /\ q.role \in RoleIds /\ q.who \in Users
      /\ q.moved \/ (IsRole(q.role) /\ Member(roleWs[q.role], q.who))
  BY <1>1 DEF AskInv, AskOK
<1>3. late \subseteq late' /\ (q.moved => q.who \in late')
  BY <1>1
<1> HIDE DEF q
<1>4. GrantTypes'
  <2>1. userRole \in SUBSET (Users \X RoleIds)
    BY DEF GrantInv, GrantTypes
  <2>2. userRole' \in SUBSET (Users \X RoleIds)
    BY <1>1, <1>2, <2>1
  <2> QED BY <1>1, <2>2 DEF GrantInv, GrantTypes
<1>5. GroupsKept /\ GroupRolesKept /\ SharesKeptOK
  BY <1>1 DEF GroupsKept, GroupRolesKept, SharesKeptOK, GrantInv, SharesAreHeld, IsPerm, Member
<1>6. GroupsAreJoined' /\ GroupRolesMatch' /\ SharesAreHeld'
  BY <1>3, <1>5, GroupsStay, GroupRolesStay, SharesStay
<1>7. RolesAreHeld'
  BY <1>1, <1>2, <1>3 DEF GrantInv, RolesAreHeld, IsRole, Member
<1>8. AskInv'
  BY <1>1, InsertedAsks
<1> QED BY <1>3, <1>4, <1>6, <1>7, <1>8 DEF GrantInv

LEMMA InsertGroupRoleSafe ==
  ASSUME GrantInv, AskInv, NEW c \in Callers, InsertGroupRole(c)
  PROVE  GrantInv' /\ AskInv' /\ late \subseteq late'
<1> DEFINE q == ask[c]
<1>1. /\ q.pc = "group_role"
      /\ groupRole' = IF IsRole(q.role) /\ IsGroup(q.group) THEN groupRole \cup {<<q.group, q.role>>} ELSE groupRole
      /\ UNCHANGED <<member, groupWs, inGroup, roleWs, registered, roleAction, userRole, perm, share>>
      /\ ask' = [ask EXCEPT ![c] = NoAsk] /\ late \subseteq late'
  BY DEF InsertGroupRole, RbacChange, Inserted
<1>2. /\ q.role \in RoleIds /\ q.group \in Groups
      /\ IsGroup(q.group) /\ IsRole(q.role) => groupWs[q.group] = roleWs[q.role]
  BY <1>1 DEF AskInv, AskOK
<1> HIDE DEF q
<1>3. GrantTypes'
  <2>1. groupRole \in SUBSET (Groups \X RoleIds)
    BY DEF GrantInv, GrantTypes
  <2>2. groupRole' \in SUBSET (Groups \X RoleIds)
    BY <1>1, <1>2, <2>1
  <2> QED BY <1>1, <2>2 DEF GrantInv, GrantTypes
<1>4. RolesKept /\ GroupsKept /\ SharesKeptOK
  BY <1>1 DEF RolesKept, GroupsKept, SharesKeptOK, GrantInv, SharesAreHeld, IsPerm, Member
<1>5. RolesAreHeld' /\ GroupsAreJoined' /\ SharesAreHeld'
  BY <1>1, <1>4, RolesStay, GroupsStay, SharesStay
<1>6. GroupRolesMatch'
  BY <1>1, <1>2 DEF GrantInv, GroupRolesMatch, IsRole, IsGroup
<1>7. AskInv'
  BY <1>1, InsertedAsks
<1> QED BY <1>1, <1>3, <1>5, <1>6, <1>7 DEF GrantInv

LEMMA InsertGroupMemberSafe ==
  ASSUME GrantInv, AskInv, NEW c \in Callers, InsertGroupMember(c)
  PROVE  GrantInv' /\ AskInv' /\ late \subseteq late'
<1> DEFINE q == ask[c]
<1>1. /\ q.pc = "group_member"
      /\ inGroup' = IF IsGroup(q.group) THEN inGroup \cup {<<q.group, q.who>>} ELSE inGroup
      /\ UNCHANGED <<member, groupWs, userRole, groupRole, share, roleWs, registered, roleAction, perm>>
      /\ ask' = [ask EXCEPT ![c] = NoAsk] /\ late' = IF q.moved THEN late \cup {q.who} ELSE late
  BY DEF InsertGroupMember, GroupChange, Inserted
<1>2. /\ q.group \in Groups /\ q.who \in Users
      /\ q.moved \/ (IsGroup(q.group) /\ Member(groupWs[q.group], q.who))
  BY <1>1 DEF AskInv, AskOK
<1>3. late \subseteq late' /\ (q.moved => q.who \in late')
  BY <1>1
<1> HIDE DEF q
<1>4. GrantTypes'
  <2>1. inGroup \in SUBSET (Groups \X Users)
    BY DEF GrantInv, GrantTypes
  <2>2. inGroup' \in SUBSET (Groups \X Users)
    BY <1>1, <1>2, <2>1
  <2> QED BY <1>1, <2>2 DEF GrantInv, GrantTypes
<1>5. RolesKept /\ GroupRolesKept /\ SharesKeptOK
  BY <1>1 DEF RolesKept, GroupRolesKept, SharesKeptOK, GrantInv, SharesAreHeld, IsPerm, Member
<1>6. RolesAreHeld' /\ GroupRolesMatch' /\ SharesAreHeld'
  BY <1>3, <1>5, RolesStay, GroupRolesStay, SharesStay
<1>7. GroupsAreJoined'
  BY <1>1, <1>2, <1>3 DEF GrantInv, GroupsAreJoined, IsGroup, Member
<1>8. AskInv'
  BY <1>1, InsertedAsks
<1> QED BY <1>3, <1>4, <1>6, <1>7, <1>8 DEF GrantInv

(* Who is late is a user or a group. *)
LEMMA LateTyped ==
  ASSUME AskInv, NEW c \in Callers,
         InsertPerm(c) \/ InsertShare(c) \/ InsertUserRole(c) \/ InsertGroupRole(c) \/ InsertGroupMember(c),
         late \in SUBSET (Users \cup Groups)
  PROVE  late' \in SUBSET (Users \cup Groups)
<1>1. AskOK(ask[c])
  BY DEF AskInv
<1> QED BY <1>1 DEF AskOK, InsertPerm, InsertShare, InsertUserRole, InsertGroupRole, InsertGroupMember, Inserted

-----------------------------------------------------------------------------
(* EVERY STEP *)

(* What is written through a key goes under the scope it resolved to. *)
ActedOK == acted' = acted \/ \E a \in Apps : IsApp(a) /\ acted' = acted \cup {<<a, ScopeOf(a)>>}

LEMMA ActedIsHeld ==
  ASSUME RegistryInv, RegistryMoves, acted \subseteq held, ActedOK
  PROVE  RegistryInv' /\ acted' \subseteq held'
BY RegistryStep, ScopeIsHeld DEF ActedOK

LEMMA ServiceSafe ==
  ASSUME NEW a \in Apps, NEW s, ByService(a, s)
  PROVE  RegistryMoves /\ ActedOK
BY DEF ByService, Asks, RegistryMoves, ActedOK, require_service_key, verify_service_scope

LEMMA QuietRegistry ==
  ASSUME UNCHANGED <<registry, acted>>
  PROVE  RegistryMoves /\ ActedOK
BY DEF RegistryMoves, ActedOK

LEMMA CountedRequest ==
  ASSUME RecordInv, arrived < on.requests, arrived' = arrived + 1, on' = on
  PROVE  arrived' \in 0 .. on'.requests /\ on' \in Scenarios
<1>1. on.requests \in Nat
  BY AccessAssumption DEF RecordInv
<1> QED BY <1>1 DEF RecordInv

LEMMA MovesSafe ==
  ASSUME IInv, Moves, RegistryMoves, ActedOK, GrantInv', WorkspacesStay
  PROVE  IInv'
<1>1. RegistryInv' /\ acted' \subseteq held'
  BY ActedIsHeld DEF IInv, RecordInv
<1>2. AskInv'
  BY AsksMarked DEF IInv, Moves
<1>3. arrived' \in 0 .. on'.requests /\ on' \in Scenarios
  BY CountedRequest DEF Moves, IInv
<1>4. RecordInv'
  BY <1>1, <1>3 DEF Moves, IInv, RecordInv, audit
<1> QED BY <1>1, <1>2, <1>4 DEF IInv

LEMMA AdminMovesSafe ==
  ASSUME IInv, AdminMoves, GrantInv', WorkspacesStay
  PROVE  IInv'
BY QuietRegistry, MovesSafe DEF AdminMoves

LEMMA CheckedSafe ==
  ASSUME IInv, NEW c \in Callers, NEW q, Checks(c, q), RegistryMoves, ActedOK, GrantInv', AskInv'
  PROVE  IInv'
<1>1. RegistryInv' /\ acted' \subseteq held'
  BY ActedIsHeld DEF IInv, RecordInv
<1>2. arrived' \in 0 .. on'.requests /\ on' \in Scenarios
  BY CountedRequest DEF Checks, IInv
<1>3. RecordInv'
  BY <1>1, <1>2 DEF Checks, IInv, RecordInv, audit
<1> QED BY <1>1, <1>3 DEF IInv

LEMMA ServiceCallsSafe ==
  ASSUME IInv, ServiceCalls
  PROVE  IInv'
<1>1. PICK a \in Apps :
        \/ \E c \in Callers, row \in PermRow : register_resource(c, a, row)
        \/ \E x \in PermIds, g \in Users \cup Groups :
             \/ \E c \in Callers, u \in Users, claimed \in {"owner", "viewer"}, level \in Levels :
                  ShareByUser(c, a, x, u, claimed, g, level)
             \/ IsPerm(x) /\ RevokeShare(a, x, g) /\ Moves
        \/ \E x \in PermIds : /\ IsPerm(x) /\ Moves
                              /\ (\E vis \in {"private", "workspace"} : UpdateVisibility(a, x, vis)) \/ Deregister(a, x)
        \/ \E s \in Names, names \in SUBSET ActionNames : register_actions(a, s, names) /\ Moves
  BY DEF ServiceCalls
<1>2. GrantInv /\ AskInv
  BY DEF IInv
<1>3. ASSUME NEW c \in Callers, NEW row \in PermRow, register_resource(c, a, row) PROVE IInv'
  <2>1. ByService(a, row.svc) /\ Checks(c, [NoAsk EXCEPT !.pc = "register", !.row = row])
    BY <1>3 DEF register_resource
  <2> QED BY <1>2, <1>3, <2>1, ServiceSafe, RegisterChecks, CheckedSafe
<1>4. ASSUME NEW x \in PermIds, NEW g \in Users \cup Groups, NEW c \in Callers, NEW u \in Users,
             NEW claimed \in {"owner", "viewer"}, NEW level \in Levels, ShareByUser(c, a, x, u, claimed, g, level)
      PROVE  IInv'
  <2>1. ByService(a, perm[x].svc) /\ share_resource(c, x, g, level)
        /\ Checks(c, [NoAsk EXCEPT !.pc = "share", !.pm = x, !.who = g, !.level = level])
    BY <1>4 DEF ShareByUser, share_resource
  <2> QED BY <1>2, <2>1, ServiceSafe, ShareChecks, CheckedSafe
<1>5. ASSUME NEW x \in PermIds, NEW g \in Users \cup Groups, RevokeShare(a, x, g), Moves PROVE IInv'
  <2>1. ByService(a, perm[x].svc) /\ revoke_share(x, g) /\ UNCHANGED late
    BY <1>5 DEF RevokeShare, Moves
  <2> QED BY <1>2, <1>5, <2>1, ServiceSafe, RevokeShareSafe, MovesSafe
<1>6. ASSUME NEW x \in PermIds, Moves, NEW vis \in {"private", "workspace"}, UpdateVisibility(a, x, vis) PROVE IInv'
  <2>1. ByService(a, perm[x].svc) /\ update_visibility(x, vis) /\ UNCHANGED late
    BY <1>6 DEF UpdateVisibility, Moves
  <2> QED BY <1>2, <1>6, <2>1, ServiceSafe, UpdateVisibilitySafe, MovesSafe
<1>7. ASSUME NEW x \in PermIds, Moves, Deregister(a, x) PROVE IInv'
  <2>1. ByService(a, perm[x].svc) /\ DeleteRows({x}) /\ UNCHANGED late
    BY <1>7 DEF Deregister, deregister_resource, Moves
  <2> QED BY <1>2, <1>7, <2>1, ServiceSafe, DeleteRowsSafe, MovesSafe
<1>8. ASSUME NEW s \in Names, NEW names \in SUBSET ActionNames, register_actions(a, s, names), Moves PROVE IInv'
  <2>1. /\ ByService(a, s) /\ UNCHANGED late /\ UNCHANGED roleWs
        /\ RbacChange(registered \cup {<<s, n>> : n \in names}, roleAction, userRole, groupRole)
    BY <1>8 DEF register_actions, Moves
  <2>2. RegistryMoves /\ ActedOK
    BY <2>1, ServiceSafe
  <2>3. GrantInv' /\ WorkspacesStay
    BY <1>2, <2>1, RegisterActionsSafe
  <2> QED BY <1>8, <2>2, <2>3, MovesSafe
<1> QED BY <1>1, <1>3, <1>4, <1>5, <1>6, <1>7, <1>8

LEMMA AdminCallsSafe ==
  ASSUME IInv, AdminCalls
  PROVE  IInv'
<1>1. GrantInv /\ AskInv
  BY DEF IInv
<1>2. ASSUME NEW x \in PermIds, NEW vis \in {"private", "workspace"}, AdminUpdateVisibility(x, vis) PROVE IInv'
  <2>1. update_visibility(x, vis) /\ AdminMoves /\ UNCHANGED late
    BY <1>2 DEF AdminUpdateVisibility, AdminMoves, Moves
  <2> QED BY <1>1, <2>1, UpdateVisibilitySafe, AdminMovesSafe
<1>3. ASSUME NEW x \in PermIds, NEW g \in Users \cup Groups, AdminRevokeShare(x, g) PROVE IInv'
  <2>1. revoke_share(x, g) /\ AdminMoves /\ UNCHANGED late
    BY <1>3 DEF AdminRevokeShare, AdminMoves, Moves
  <2> QED BY <1>1, <2>1, RevokeShareSafe, AdminMovesSafe
<1>4. ASSUME NEW x \in PermIds, NEW g \in Users \cup Groups, NEW c \in Callers, NEW level \in Levels,
             share_permission(c, x, g, level)
      PROVE  IInv'
  <2>1. share_resource(c, x, g, level) /\ UNCHANGED <<registry, acted>>
        /\ Checks(c, [NoAsk EXCEPT !.pc = "share", !.pm = x, !.who = g, !.level = level])
    BY <1>4 DEF share_permission, share_resource
  <2> QED BY <1>1, <2>1, QuietRegistry, ShareChecks, CheckedSafe
<1>5. ASSUME NEW s \in Names, AdminPurge(s) PROVE IInv'
  <2>1. AdminMoves /\ UNCHANGED late /\ DeleteRows({x \in PermIds : IsPerm(x) /\ perm[x].svc = s})
    BY <1>5 DEF AdminPurge, AdminMoves, Moves, purge_service_permissions
  <2>2. GrantInv' /\ WorkspacesStay
    BY <1>1, <2>1, DeleteRowsSafe
  <2> QED BY <2>1, <2>2, AdminMovesSafe
<1>6. ASSUME NEW p \in Procs, NEW a \in Apps, DeleteServiceApp(p, a), Moves, UNCHANGED acted PROVE IInv'
  <2>1. /\ delete_service_app(p, a) /\ UNCHANGED late
        /\ DeleteRows({x \in PermIds : IsPerm(x) /\ perm[x].svc = service[a].name})
    BY <1>6 DEF DeleteServiceApp, Moves, purge_service_permissions
  <2>2. GrantInv' /\ WorkspacesStay
    BY <1>1, <2>1, DeleteRowsSafe
  <2>3. RegistryMoves /\ ActedOK
    BY <1>6, <2>1 DEF RegistryMoves, ActedOK
  <2> QED BY <1>6, <2>2, <2>3, MovesSafe
<1> QED BY <1>2, <1>3, <1>4, <1>5, <1>6 DEF AdminCalls

LEMMA RbacStepSafe ==
  ASSUME IInv, Rbac
  PROVE  IInv'
<1>1. GrantInv /\ AskInv
  BY DEF IInv
<1>2. ASSUME NEW act \in registered, AdminDeleteAction(act) PROVE IInv'
  <2>1. delete_service_action(act) /\ AdminMoves /\ UNCHANGED late
    BY <1>2 DEF AdminDeleteAction, AdminMoves, Moves
  <2> QED BY <1>1, <2>1, DeleteActionSafe, AdminMovesSafe
<1>3. ASSUME NEW r \in RoleIds, NEW w \in Workspaces, AdminCreateRole(r, w) PROVE IInv'
  <2>1. create_role(r, w) /\ AdminMoves /\ UNCHANGED late
    BY <1>3 DEF AdminCreateRole, AdminMoves, Moves
  <2> QED BY <1>1, <2>1, CreateRoleSafe, AdminMovesSafe
<1>4. ASSUME NEW r \in RoleIds, AdminDeleteRole(r) PROVE IInv'
  <2>1. delete_role(r) /\ AdminMoves /\ UNCHANGED late
    BY <1>4 DEF AdminDeleteRole, AdminMoves, Moves
  <2> QED BY <1>1, <2>1, DeleteRoleSafe, AdminMovesSafe
<1>5. ASSUME NEW r \in RoleIds, \/ \E acts \in SUBSET registered : AdminAddRoleActions(r, acts)
                                \/ \E act \in registered : AdminRemoveRoleAction(r, act)
      PROVE  IInv'
  <2>1. /\ \/ \E acts \in SUBSET registered : add_role_actions(r, acts)
           \/ \E act \in registered : remove_role_action(r, act)
        /\ AdminMoves /\ UNCHANGED late
    BY <1>5 DEF AdminAddRoleActions, AdminRemoveRoleAction, AdminMoves, Moves
  <2> QED BY <1>1, <2>1, RoleActionsSafe, AdminMovesSafe
<1>6. ASSUME NEW r \in RoleIds, (\E u \in Users : AdminRemoveRole(u, r)) \/ (\E g \in Groups : AdminUnassignGroup(g, r))
      PROVE  IInv'
  <2>1. /\ (\E u \in Users : remove_user_role(u, r)) \/ (\E g \in Groups : remove_group_role(g, r))
        /\ AdminMoves /\ UNCHANGED late
    BY <1>6 DEF AdminRemoveRole, AdminUnassignGroup, AdminMoves, Moves
  <2> QED BY <1>1, <2>1, RemoveRolesSafe, AdminMovesSafe
<1>7. ASSUME NEW r \in RoleIds, NEW u \in Users, NEW c \in Callers, AdminAssignRole(c, r, u) PROVE IInv'
  <2>1. assign_user_role(c, r, u) /\ UNCHANGED <<registry, acted>>
        /\ Checks(c, [NoAsk EXCEPT !.pc = "user_role", !.role = r, !.who = u])
    BY <1>7 DEF AdminAssignRole, assign_user_role
  <2> QED BY <1>1, <2>1, QuietRegistry, RoleChecks, CheckedSafe
<1>8. ASSUME NEW r \in RoleIds, NEW g \in Groups, NEW c \in Callers, AdminAssignGroup(c, g, r) PROVE IInv'
  <2>1. assign_group_role(c, g, r) /\ UNCHANGED <<registry, acted>>
        /\ Checks(c, [NoAsk EXCEPT !.pc = "group_role", !.role = r, !.group = g])
    BY <1>8 DEF AdminAssignGroup, assign_group_role
  <2> QED BY <1>1, <2>1, QuietRegistry, RoleChecks, CheckedSafe
<1> QED BY <1>2, <1>3, <1>4, <1>5, <1>6, <1>7, <1>8 DEF Rbac

LEMMA MembershipSafe ==
  ASSUME IInv, Membership
  PROVE  IInv'
<1>1. GrantInv /\ AskInv
  BY DEF IInv
<1>2. ASSUME NEW g \in Groups, NEW w \in Workspaces,
             AdminCreateGroup(g, w) \/ \E k \in Claims : ApiCreateGroup(k, g, w)
      PROVE  IInv'
  <2>1. create_group(g, w) /\ AdminMoves /\ UNCHANGED late
    BY <1>2 DEF AdminCreateGroup, ApiCreateGroup, AdminMoves, Moves
  <2> QED BY <1>1, <2>1, CreateGroupSafe, AdminMovesSafe
<1>3. ASSUME NEW g \in Groups, AdminDeleteGroup(g) \/ \E k \in Claims : ApiDeleteGroup(k, g) PROVE IInv'
  <2>1. delete_group(g) /\ AdminMoves /\ UNCHANGED late
    BY <1>3 DEF AdminDeleteGroup, ApiDeleteGroup, AdminMoves, Moves
  <2> QED BY <1>1, <2>1, DeleteGroupSafe, AdminMovesSafe
<1>4. ASSUME NEW g \in Groups, NEW u \in Users,
             AdminRemoveFromGroup(g, u) \/ \E k \in Claims : ApiRemoveFromGroup(k, g, u)
      PROVE  IInv'
  <2>1. remove_group_member(g, u) /\ AdminMoves /\ UNCHANGED late
    BY <1>4 DEF AdminRemoveFromGroup, ApiRemoveFromGroup, AdminMoves, Moves
  <2> QED BY <1>1, <2>1, LeaveGroupSafe, AdminMovesSafe
<1>5. ASSUME NEW g \in Groups, NEW u \in Users, NEW c \in Callers,
             AdminAddToGroup(c, g, u) \/ \E k \in Claims : ApiAddToGroup(k, c, g, u)
      PROVE  IInv'
  <2>1. add_group_member(c, g, u) /\ UNCHANGED <<registry, acted>>
        /\ Checks(c, [NoAsk EXCEPT !.pc = "group_member", !.group = g, !.who = u])
    BY <1>5 DEF AdminAddToGroup, ApiAddToGroup, add_group_member
  <2> QED BY <1>1, <2>1, QuietRegistry, GroupChecks, CheckedSafe
<1>6. ASSUME AdminMoves, NEW w \in Workspaces, NEW u \in Users, remove_member_of(w, u) \/ JoinWorkspace(w, u, "viewer")
      PROVE  IInv'
  <2>1. UNCHANGED late
    BY <1>6 DEF AdminMoves, Moves
  <2> QED BY <1>1, <1>6, <2>1, RemoveMemberOfSafe, JoinWorkspaceSafe, AdminMovesSafe
<1> QED BY <1>2, <1>3, <1>4, <1>5, <1>6 DEF Membership

LEMMA InsertsSafe ==
  ASSUME IInv, NEW c \in Callers, Inserts(c)
  PROVE  IInv'
<1>1. GrantInv /\ AskInv /\ RegistryInv /\ RecordInv
  BY DEF IInv
<1>2. UNCHANGED <<registry, acted, audit, arrived, on>>
  BY DEF Inserts, InsertPerm, InsertShare, InsertUserRole, InsertGroupRole, InsertGroupMember, Inserted, AskDies
<1>3. RegistryInv' /\ acted' \subseteq held'
  BY <1>1, <1>2, QuietRegistry, ActedIsHeld DEF RecordInv
<1>4. GrantInv' /\ AskInv' /\ late' \in SUBSET (Users \cup Groups)
  <2>1. CASE AskDies(c)
    <3>1. UNCHANGED <<grants, late>> /\ ask' = [ask EXCEPT ![c] = NoAsk]
      BY <2>1 DEF AskDies
    <3>2. GrantInv'
      BY <1>1, <3>1, GrantsUntouched
    <3>3. AskInv'
      BY <1>1, <3>1, InsertedAsks DEF grants
    <3> QED BY <1>1, <3>1, <3>2, <3>3 DEF RecordInv
  <2>2. CASE InsertPerm(c) \/ InsertShare(c) \/ InsertUserRole(c) \/ InsertGroupRole(c) \/ InsertGroupMember(c)
    <3>1. late' \in SUBSET (Users \cup Groups)
      BY <1>1, <2>2, LateTyped DEF RecordInv
    <3> QED BY <1>1, <2>2, <3>1, InsertPermSafe, InsertShareSafe, InsertUserRoleSafe, InsertGroupRoleSafe,
               InsertGroupMemberSafe
  <2> QED BY <2>1, <2>2 DEF Inserts
<1>5. RecordInv'
  BY <1>1, <1>2, <1>3, <1>4 DEF RecordInv, audit
<1> QED BY <1>3, <1>4, <1>5 DEF IInv

(* A denial is written down only when its flag is first set, and the flag and
   the record end together. *)
LEMMA AuditSafe ==
  ASSUME IInv, WindowEnds \/ \E a \in Apps, u \in Users, w \in Workspaces, s \in Names, n \in ActionNames :
                                CheckAction(a, u, w, s, n)
  PROVE  IInv'
<1>1. GrantInv /\ AskInv /\ RegistryInv /\ RecordInv
  BY DEF IInv
<1>2. UNCHANGED <<grants, ask, late, acted, on>>
  BY DEF WindowEnds, CheckAction
<1>3. RegistryMoves /\ ActedOK
  BY <1>2 DEF WindowEnds, CheckAction, RegistryMoves, Asks, ActedOK
<1>4. RegistryInv' /\ acted' \subseteq held'
  BY <1>1, <1>3, ActedIsHeld DEF RecordInv
<1>5. GrantInv' /\ AskInv'
  BY <1>1, <1>2, GrantsUntouched, AsksUntouched DEF grants
<1>6. denied' \in SUBSET Denial /\ logged' \in SUBSET denied' /\ twice' = {}
  <2>1. CASE WindowEnds
    BY <1>1, <2>1 DEF WindowEnds, RecordInv
  <2>2. ASSUME NEW a \in Apps, NEW u \in Users, NEW w \in Workspaces, NEW s \in Names, NEW n \in ActionNames,
               CheckAction(a, u, w, s, n)
        PROVE  denied' \in SUBSET Denial /\ logged' \in SUBSET denied' /\ twice' = {}
    <3>1. <<u, w, s, n>> \in Denial
      BY DEF Denial
    <3>2. UNCHANGED audit \/ record_action_check(<<u, w, s, n>>)
      BY <2>2 DEF CheckAction
    <3> QED BY <1>1, <3>1, <3>2 DEF RecordInv, audit, record_action_check, _first_denial_in_window
  <2> QED BY <2>1, <2>2
<1>7. arrived' \in 0 .. on'.requests /\ on' \in Scenarios
  BY <1>1, CountedRequest DEF WindowEnds, CheckAction, RecordInv
<1>8. RecordInv'
  BY <1>1, <1>2, <1>4, <1>6, <1>7 DEF RecordInv
<1> QED BY <1>4, <1>5, <1>8 DEF IInv

LEMMA RegistryOnlySafe ==
  ASSUME IInv, RegistryCalls \/ RegistrySteps, UNCHANGED <<grants, ask, late, acted, audit, on>>,
         arrived' = arrived \/ (arrived < on.requests /\ arrived' = arrived + 1)
  PROVE  IInv'
<1>1. GrantInv /\ AskInv /\ RegistryInv /\ RecordInv
  BY DEF IInv
<1>2. RegistryInv' /\ acted' \subseteq held'
  BY <1>1, ActedIsHeld DEF RegistryMoves, ActedOK, RecordInv
<1>3. GrantInv' /\ AskInv'
  BY <1>1, GrantsUntouched, AsksUntouched DEF grants
<1>4. arrived' \in 0 .. on'.requests /\ on' \in Scenarios
  BY <1>1, CountedRequest DEF RecordInv
<1>5. RecordInv'
  BY <1>1, <1>2, <1>4 DEF RecordInv, audit
<1> QED BY <1>2, <1>3, <1>5 DEF IInv

LEMMA Initially == ASSUME Init PROVE IInv
BY RegistryInit, GrantInit DEF Init, IInv

LEMMA Preserved == ASSUME IInv, [Next]_vars PROVE IInv'
<1>1. CASE RegistryCalls /\ arrived < on.requests /\ arrived' = arrived + 1
           /\ UNCHANGED <<grants, ask, late, acted, audit, on>>
  BY <1>1, RegistryOnlySafe
<1>2. CASE RegistrySteps /\ UNCHANGED <<grants, ask, late, acted, audit, arrived, on>>
  BY <1>2, RegistryOnlySafe
<1>3. CASE UNCHANGED vars
  <2>1. GrantInv /\ AskInv /\ RegistryInv /\ RecordInv
    BY DEF IInv
  <2>2. RegistryInv' /\ acted' \subseteq held'
    BY <1>3, <2>1, QuietRegistry, ActedIsHeld DEF vars, RecordInv
  <2>3. GrantInv' /\ AskInv'
    BY <1>3, <2>1, GrantsUntouched, AsksUntouched DEF vars, grants
  <2>4. RecordInv'
    BY <1>3, <2>1, <2>2 DEF vars, RecordInv, audit
  <2> QED BY <2>2, <2>3, <2>4 DEF IInv
<1> QED BY <1>1, <1>2, <1>3, ServiceCallsSafe, AdminCallsSafe, RbacStepSafe, MembershipSafe, AuditSafe, InsertsSafe DEF Next

LEMMA Invariant == Spec => []IInv
BY Initially, Preserved, PTL DEF Spec

-----------------------------------------------------------------------------
(* THEOREMS *)

LEMMA InvariantTypes == ASSUME IInv PROVE TypeOK
<1>1. late \in SUBSET (Users \cup Groups) /\ acted \subseteq held /\ logged \in SUBSET denied
  BY DEF IInv, RecordInv
<1>2. acted \in SUBSET (Apps \X Names)
  BY <1>1 DEF IInv, RegistryInv, ScopesTypeOK
<1> QED BY <1>1, <1>2 DEF IInv, RegistryInv, GrantInv, GrantTypes, AskInv, RecordInv, TypeOK

(* Every variable of access control keeps to its type: the locals of requests,
   the rows and their owners, the grants. *)
THEOREM AccessIsTyped == Spec => []TypeOK
BY Invariant, InvariantTypes, PTL

(* Nobody reaches into another trust domain: a slug is never also an app's name,
   since both creations look under the lock on that name; and a key acts only
   under scopes that its app had, since what the cache answers was once so.
   (create_service_app, create_realm, ServiceKeyContext.effective_scope) *)
THEOREM DomainsStayApart == Spec => []TrustDomainsApart
<1>1. IInv => TrustDomainsApart
  BY DEF IInv, RegistryInv, CacheHoldsScopes, RecordInv, TrustDomainsApart, ScopesWereHeld
<1> QED BY <1>1, Invariant, PTL

(* No action and no share outlives the membership it rests on, but for what was
   inserted after others had moved.  (role_service._granted_stmt,
   permission_service.share_resource, group_service.delete_group) *)
THEOREM GrantsEndWithMembership == Spec => []NothingOutlivesMembership
<1>1. ASSUME IInv, NEW u \in Users, NEW w \in Workspaces, NEW s \in Names, NEW x \in _granted(u, w, s)
      PROVE  Member(w, u) \/ u \in late
  <2>1. PICK r \in RoleIds :
          /\ roleWs[r] = w
          /\ <<u, r>> \in userRole \/ \E g \in Groups : <<g, r>> \in groupRole /\ <<g, u>> \in inGroup
    BY <1>1 DEF _granted
  <2>2. CASE <<u, r>> \in userRole
    BY <1>1, <2>1, <2>2 DEF IInv, GrantInv, RolesAreHeld
  <2>3. CASE \E g \in Groups : <<g, r>> \in groupRole /\ <<g, u>> \in inGroup
    BY <1>1, <2>1, <2>3 DEF IInv, GrantInv, GroupRolesMatch, GroupsAreJoined
  <2> QED BY <2>1, <2>2, <2>3
<1>2. IInv => ActionsNeedMembership
  BY <1>1 DEF ActionsNeedMembership, get_user_actions
<1>3. IInv => SharesReachSomeone
  BY DEF IInv, GrantInv, SharesAreHeld, SharesReachSomeone, Reaches
<1>4. IInv => NothingOutlivesMembership
  BY <1>2, <1>3 DEF NothingOutlivesMembership
<1> QED BY <1>4, Invariant, PTL

(* A share's level is compared in one, and looked for in a set in the other. *)
LEMMA LevelsAgree ==
  ASSUME NEW level \in Levels \cup {None}, NEW action \in Levels
  PROVE  ViewOrEdit(level, action) <=> level \in (IF action = "view" THEN Levels ELSE {"edit"})
BY AccessAssumption DEF ViewOrEdit, Levels

(* Whoever asks about one row and whoever lists them all get the same answer,
   for every user, workspace, role, set of groups and action.
   (permission_service.check_permission, lookup_accessible_resources) *)
THEOREM ChecksMatchLookups == Spec => []CheckAgreesWithLookup
<1>1. ASSUME TypeOK, NEW x \in PermIds, IsPerm(x), NEW u \in Users, NEW w \in Workspaces, NEW role \in WsRoles,
             NEW groups \in SUBSET Groups, NEW action \in Levels
      PROVE  check_permission(u, w, role, groups, perm[x].svc, perm[x].res, action)
               <=> perm[x].res \in lookup_accessible_resources(u, w, role, groups, perm[x].svc, action).ids
  <2> DEFINE s == perm[x].svc
             res == perm[x].res
             here(y) == IsPerm(y) /\ perm[y].svc = s /\ perm[y].ws = w
             open(y) == \/ perm[y].owner = u
                        \/ role \in Privileged
                        \/ /\ perm[y].vis = "workspace"
                           /\ action = "view" \/ (action = "edit" /\ role = "editor")
                        \/ ViewOrEdit(share[y][u], action)
                        \/ GroupShares(y, groups, action)
             listed(y) == \/ role \in Privileged
                          \/ perm[y].owner = u
                          \/ perm[y].vis = "workspace" /\ (action = "view" \/ role = "editor")
                          \/ \E g \in {u} \cup groups :
                               share[y][g] \in (IF action = "view" THEN Levels ELSE {"edit"})
  <2>1. check_permission(u, w, role, groups, s, res, action)
          <=> \E y \in PermIds : here(y) /\ perm[y].res = res /\ open(y)
    BY DEF check_permission, get_resource_permission
  <2>2. res \in lookup_accessible_resources(u, w, role, groups, s, action).ids
          <=> \E y \in PermIds : here(y) /\ perm[y].res = res /\ listed(y)
    BY DEF lookup_accessible_resources
  <2>3. ASSUME NEW y \in PermIds PROVE open(y) <=> listed(y)
    <3>1. share[y] \in [Users \cup Groups -> Levels \cup {None}]
      BY <1>1 DEF TypeOK
    <3>2. \A g \in {u} \cup groups :
            ViewOrEdit(share[y][g], action) <=> share[y][g] \in (IF action = "view" THEN Levels ELSE {"edit"})
      BY <3>1, LevelsAgree
    <3>3. action \in {"view", "edit"}
      BY DEF Levels
    <3> QED BY <3>2, <3>3 DEF GroupShares
  <2> QED BY <2>1, <2>2, <2>3
<1>2. TypeOK => CheckAgreesWithLookup
  BY <1>1 DEF CheckAgreesWithLookup
<1> QED BY <1>2, AccessIsTyped, PTL

-----------------------------------------------------------------------------
(* SIGNALS *)

(* A job has a country at the steps that use one, and a notice to give where it
   gives one. *)
Holds(q) ==
  /\ q.pc \in {"ctx_get", "ctx_set", "get", "set", "scard", "seen"} => q.country \in Countries
  /\ q.then # "done" => q.country \in Countries
  /\ q.pc = "damp" => q.notice \in Damped
  /\ q.pc \in {"flush", "commit"} => q.notice \in Notices
JobsHold == \A j \in Jobs : Holds(job[j])

(* A notice that was given is marked; and as long as somebody is giving it, it
   was not given and nobody else gives it. *)
Writes(j, x) == job[j].pc \in {"flush", "commit"} /\ job[j].notice = x
Marked(x) == IF x[1] = "new" THEN x[2] \in seen ELSE x \in dampers
Once(x) ==
  /\ rows[x] > 0 => rows[x] = 1 /\ Marked(x)
  /\ \A j \in Jobs : Writes(j, x) =>
       rows[x] = 0 /\ Marked(x) /\ \A k \in Jobs : Writes(k, x) => k = j
Uncounted == {x \in Notices : x[1] # "context"}
NoticesOnce == \A x \in Uncounted : Once(x)

(* Failures and changed contexts are no more than the jobs that began, less those
   that have still to count one. *)
Failing == {j \in Jobs : job[j].pc = "incr"}
Changing == {j \in Jobs : \/ job[j].pc \in {"ctx_get", "ctx_set"}
                          \/ job[j].pc \in {"flush", "commit"} /\ job[j].notice[1] = "context"}
Context(c) == <<"context", c>>
Counts == /\ fails.n + Cardinality(Failing) <= begun
          /\ \A c \in Countries : rows[Context(c)] + Cardinality(Changing) <= begun

SignalsTyped ==
  /\ fails \in [n : Nat, ttl : BOOLEAN] /\ emails \in [set : SUBSET Emails, ttl : BOOLEAN]
  /\ rctx \in Countries \cup {Unknown} /\ geo \in Countries \cup {Unknown}
  /\ seen \in SUBSET Countries /\ dampers \in SUBSET Damped
  /\ job \in [Jobs -> Job]
  /\ rows \in [Notices -> Nat] /\ streamed \in [Notices -> Nat]
  /\ stuck \in BOOLEAN /\ begun \in 0..MaxJobs
SignalsInv ==
  /\ SignalsTyped /\ JobsHold /\ NoticesOnce /\ NoPhantoms /\ CountersEnd /\ Counts

LEMMA NoticeKinds ==
  /\ \A x \in Damped : x \in Notices /\ x[1] \in {"stuffing", "travel"}
  /\ \A c \in Countries : <<"new", c>> \in Notices /\ <<"context", c>> \in Notices
  /\ \A x \in Notices : x[1] \in {"new", "context"} => x[2] \in Countries /\ x = <<x[1], x[2]>>
  /\ \A x \in Notices : x[1] \notin {"new", "context"} => x \in Damped
BY DEF Notices, Damped

LEMMA Contexts == \A c \in Countries : Context(c) \in Notices /\ Context(c)[1] = "context"
BY DEF Context, Notices

LEMMA WayIsDamped ==
  ASSUME NEW a \in Countries, NEW b \in Countries, a # b PROVE <<"travel", {a, b}>> \in Damped
<1>1. IsFiniteSet({b}) /\ Cardinality({b}) = 1
  BY FS_Singleton
<1>2. Cardinality({b} \cup {a}) = 2
  BY <1>1, FS_AddElement
<1>3. {a, b} = {b} \cup {a}
  OBVIOUS
<1> QED BY <1>2, <1>3 DEF Damped, Ways

(* What a job holds after a step. *)
LEMMA JobMoves ==
  ASSUME job \in [Jobs -> Job], NEW j \in Jobs, NEW pc \in Steps \cup {"done"}, NEW local \in Job,
         Goes(j, pc, local)
  PROVE  /\ job' \in [Jobs -> Job]
         /\ \A k \in Jobs : k # j => job'[k] = job[k]
         /\ pc = "done" => job'[j] = NoJob
         /\ pc # "done" => /\ job'[j].pc = pc /\ job'[j].then = local.then
                           /\ job'[j].notice = local.notice /\ job'[j].country = local.country
<1> DEFINE next == IF pc = "done" THEN NoJob ELSE [local EXCEPT !.pc = pc]
<1>1. NoJob \in Job
  BY DEF NoJob, Job
<1>2. pc # "done" => /\ [local EXCEPT !.pc = pc] \in Job
                     /\ [local EXCEPT !.pc = pc].pc = pc /\ [local EXCEPT !.pc = pc].then = local.then
                     /\ [local EXCEPT !.pc = pc].notice = local.notice
                     /\ [local EXCEPT !.pc = pc].country = local.country
  BY DEF Job
<1>3. next \in Job
  BY <1>1, <1>2
<1>4. job' = [job EXCEPT ![j] = next]
  BY DEF Goes
<1>5. job' \in [Jobs -> Job] /\ job'[j] = next /\ \A k \in Jobs : k # j => job'[k] = job[k]
  BY <1>3, <1>4
<1> QED BY <1>2, <1>5

LEMMA Begins ==
  ASSUME job \in [Jobs -> Job], NEW j \in Jobs, NEW local \in Job, Starts(j, local)
  PROVE  /\ job' \in [Jobs -> Job] /\ job'[j] = local /\ job[j] = NoJob
         /\ \A k \in Jobs : k # j => job'[k] = job[k]
BY DEF Starts

(* One job moves: the marks stay, and it gives no notice that it did not give. *)
LEMMA OnceStays ==
  ASSUME SignalsInv, NEW j \in Jobs, job' \in [Jobs -> Job],
         \A k \in Jobs : k # j => job'[k] = job[k],
         \A x \in Uncounted : Writes(j, x)' => Writes(j, x),
         UNCHANGED <<rows, streamed>>, seen \subseteq seen', dampers \subseteq dampers'
  PROVE  NoticesOnce' /\ NoPhantoms'
<1>1. ASSUME NEW x \in Uncounted PROVE Once(x)'
  <2>1. Marked(x) => Marked(x)'
    BY DEF Marked
  <2>2. \A k \in Jobs : Writes(k, x)' => Writes(k, x)
    BY DEF Writes
  <2> QED BY <1>1, <2>1, <2>2 DEF SignalsInv, NoticesOnce, Once
<1> QED BY <1>1 DEF NoticesOnce, Uncounted, SignalsInv, NoPhantoms

LEMMA Counted ==
  ASSUME NEW S \in SUBSET Jobs, NEW T \in SUBSET Jobs, NEW j \in Jobs,
         NEW n \in Nat, NEW m \in Nat, NEW b \in Nat, NEW c \in Nat, n + Cardinality(S) <= b,
         \/ T \subseteq S /\ m <= n /\ b <= c
         \/ j \in S /\ T \subseteq S \ {j} /\ m <= n + 1 /\ b <= c
         \/ T \subseteq S \cup {j} /\ m <= n /\ b + 1 <= c
  PROVE  m + Cardinality(T) <= c
<1>1. IsFiniteSet(S) /\ IsFiniteSet(T)
  BY FS_Subset, SignalsAssumption
<1>2. Cardinality(S) \in Nat /\ Cardinality(T) \in Nat
  BY <1>1, FS_CardinalityType
<1>3. CASE T \subseteq S /\ m <= n /\ b <= c
  BY <1>1, <1>2, <1>3, FS_Subset
<1>4. CASE j \in S /\ T \subseteq S \ {j} /\ m <= n + 1 /\ b <= c
  <2>1. IsFiniteSet(S \ {j}) /\ Cardinality(S \ {j}) = Cardinality(S) - 1
    BY <1>1, <1>4, FS_RemoveElement
  <2>2. Cardinality(T) <= Cardinality(S) - 1
    BY <1>4, <2>1, FS_Subset
  <2> QED BY <1>2, <1>4, <2>2
<1>5. CASE T \subseteq S \cup {j} /\ m <= n /\ b + 1 <= c
  <2>1. IsFiniteSet(S \cup {j}) /\ Cardinality(S \cup {j}) <= Cardinality(S) + 1
    <3>1. IsFiniteSet(S \cup {j})
      BY <1>1, FS_AddElement
    <3>2. Cardinality(S \cup {j}) = IF j \in S THEN Cardinality(S) ELSE Cardinality(S) + 1
      BY <1>1, FS_AddElement
    <3> QED BY <1>2, <3>1, <3>2
  <2>2. Cardinality(T) <= Cardinality(S) + 1
    <3>1. Cardinality(T) <= Cardinality(S \cup {j})
      BY <1>5, <2>1, FS_Subset
    <3>2. Cardinality(S \cup {j}) \in Nat
      BY <2>1, FS_CardinalityType
    <3> QED BY <1>2, <2>1, <3>1, <3>2
  <2> QED BY <1>2, <1>5, <2>2
<1> QED BY <1>3, <1>4, <1>5

LEMMA CountsStay ==
  ASSUME SignalsInv, NEW j \in Jobs, \A k \in Jobs : k # j => job'[k] = job[k],
         fails'.n \in Nat, begun' \in Nat, rows' \in [Notices -> Nat],
         \/ (j \in Failing' => j \in Failing) /\ fails'.n <= fails.n /\ begun <= begun'
         \/ j \in Failing /\ j \notin Failing' /\ fails'.n <= fails.n + 1 /\ begun <= begun'
         \/ fails'.n <= fails.n /\ begun + 1 <= begun',
         \/ /\ (j \in Changing' => j \in Changing) /\ begun <= begun'
            /\ \A c \in Countries : rows'[Context(c)] <= rows[Context(c)]
         \/ /\ j \in Changing /\ j \notin Changing' /\ begun <= begun'
            /\ \A c \in Countries : rows'[Context(c)] <= rows[Context(c)] + 1
         \/ /\ begun + 1 <= begun'
            /\ \A c \in Countries : rows'[Context(c)] <= rows[Context(c)]
  PROVE  Counts'
<1>1. /\ Failing \in SUBSET Jobs /\ Failing' \in SUBSET Jobs
      /\ Changing \in SUBSET Jobs /\ Changing' \in SUBSET Jobs
  BY DEF Failing, Changing
<1>2. /\ Failing' \subseteq Failing \cup {j} /\ (j \notin Failing' => Failing' \subseteq Failing \ {j})
      /\ (j \in Failing => Failing' \subseteq Failing)
  BY DEF Failing
<1>3. /\ Changing' \subseteq Changing \cup {j} /\ (j \notin Changing' => Changing' \subseteq Changing \ {j})
      /\ (j \in Changing => Changing' \subseteq Changing)
  BY DEF Changing
<1>4. begun \in Nat /\ fails.n \in Nat /\ fails.n + Cardinality(Failing) <= begun
  BY SignalsAssumption DEF SignalsInv, SignalsTyped, Counts
<1>5. fails'.n + Cardinality(Failing') <= begun'
  <2>1. CASE (j \in Failing' => j \in Failing) /\ fails'.n <= fails.n /\ begun <= begun'
    <3>1. Failing' \subseteq Failing
      BY <1>2, <2>1
    <3> QED BY <1>1, <1>4, <2>1, <3>1, Counted
  <2>2. CASE j \in Failing /\ j \notin Failing' /\ fails'.n <= fails.n + 1 /\ begun <= begun'
    BY <1>1, <1>2, <1>4, <2>2, Counted
  <2>3. CASE fails'.n <= fails.n /\ begun + 1 <= begun'
    BY <1>1, <1>2, <1>4, <2>3, Counted
  <2> QED BY <2>1, <2>2, <2>3
<1>6. ASSUME NEW c \in Countries
      PROVE  rows'[Context(c)] + Cardinality(Changing') <= begun'
  <2>1. /\ rows[Context(c)] \in Nat /\ rows'[Context(c)] \in Nat
        /\ rows[Context(c)] + Cardinality(Changing) <= begun
    BY Contexts DEF SignalsInv, SignalsTyped, Counts
  <2>2. CASE (j \in Changing' => j \in Changing) /\ begun <= begun'
             /\ rows'[Context(c)] <= rows[Context(c)]
    <3>1. Changing' \subseteq Changing
      BY <1>3, <2>2
    <3> QED BY <1>1, <1>4, <2>1, <2>2, <3>1, Counted
  <2>3. CASE j \in Changing /\ j \notin Changing' /\ begun <= begun'
             /\ rows'[Context(c)] <= rows[Context(c)] + 1
    <3>1. Changing' \subseteq Changing \ {j}
      BY <1>3, <2>3
    <3>2. ASSUME NEW n \in Nat, NEW m \in Nat, n + Cardinality(Changing) <= begun, m <= n + 1
          PROVE  m + Cardinality(Changing') <= begun'
      BY <1>1, <1>4, <2>3, <3>1, <3>2, Counted
    <3> QED BY <2>1, <2>3, <3>2
  <2>4. CASE begun + 1 <= begun' /\ rows'[Context(c)] <= rows[Context(c)]
    BY <1>1, <1>3, <1>4, <2>1, <2>4, Counted
  <2> QED BY <2>2, <2>3, <2>4
<1> QED BY <1>5, <1>6 DEF Counts

LEMMA EndStays ==
  ASSUME SignalsInv, NEW j \in Jobs, \A k \in Jobs : k # j => job'[k] = job[k], UNCHANGED fails,
         stuck => stuck', job[j].pc = "expire" => stuck'
  PROVE  CountersEnd'
BY DEF SignalsInv, CountersEnd, At

(* A job between two steps that neither counts, nor begins, nor gives a notice. *)
LEMMA PlainMove ==
  ASSUME SignalsInv, NEW j \in Jobs, job' \in [Jobs -> Job], Holds(job'[j]),
         \A k \in Jobs : k # j => job'[k] = job[k],
         job'[j].pc \in {"flush", "commit"} =>
           \/ job[j].pc = "flush" /\ job'[j].notice = job[j].notice
           \/ job[j].pc = "ctx_set" /\ job'[j].notice[1] = "context",
         job'[j].pc = "ctx_set" => job[j].pc = "ctx_get",
         job'[j].pc \notin {"incr", "ctx_get"},
         UNCHANGED <<fails, rows, streamed, begun>>, seen \subseteq seen', dampers \subseteq dampers',
         emails' \in [set : SUBSET Emails, ttl : BOOLEAN],
         rctx' \in Countries \cup {Unknown}, geo' \in Countries \cup {Unknown},
         seen' \in SUBSET Countries, dampers' \in SUBSET Damped,
         stuck' \in BOOLEAN, stuck => stuck', job[j].pc = "expire" => stuck'
  PROVE  SignalsInv'
<1>1. SignalsTyped'
  BY DEF SignalsInv, SignalsTyped
<1>2. JobsHold'
  BY DEF SignalsInv, JobsHold
<1>3. \A x \in Uncounted : Writes(j, x)' => Writes(j, x)
  BY DEF Uncounted, Writes
<1>4. NoticesOnce' /\ NoPhantoms'
  BY <1>3, OnceStays
<1>5. CountersEnd'
  BY EndStays
<1>6. (j \in Failing' => j \in Failing) /\ (j \in Changing' => j \in Changing)
  BY DEF Failing, Changing
<1>7. /\ fails'.n \in Nat /\ begun' \in Nat /\ rows' \in [Notices -> Nat]
      /\ fails'.n <= fails.n /\ begun <= begun'
      /\ \A c \in Countries : rows'[Context(c)] <= rows[Context(c)]
  BY Contexts, SignalsAssumption DEF SignalsInv, SignalsTyped
<1>8. Counts'
  BY <1>6, <1>7, CountsStay
<1> QED BY <1>1, <1>2, <1>4, <1>5, <1>8 DEF SignalsInv

LEMMA BeginsOK ==
  ASSUME SignalsInv, NEW j \in Jobs, NEW local \in Job, Starts(j, local), Holds(local),
         local.pc \in {"incr", "get", "ctx_get"}
  PROVE  SignalsInv'
<1>1. /\ job' \in [Jobs -> Job] /\ job'[j] = local /\ job[j] = NoJob
      /\ \A k \in Jobs : k # j => job'[k] = job[k]
  BY Begins DEF SignalsInv, SignalsTyped
<1>2. /\ UNCHANGED <<fails, emails, rctx, geo, seen, dampers, rows, streamed, stuck>>
      /\ begun < MaxJobs /\ begun' = begun + 1
  BY DEF Starts
<1>3. SignalsTyped'
  <2>1. begun' \in 0..MaxJobs
    BY <1>2, SignalsAssumption DEF SignalsInv, SignalsTyped
  <2> QED BY <1>1, <1>2, <2>1 DEF SignalsInv, SignalsTyped
<1>4. JobsHold'
  BY <1>1 DEF SignalsInv, JobsHold
<1>5. \A x \in Uncounted : Writes(j, x)' => Writes(j, x)
  BY <1>1 DEF Writes
<1>6. NoticesOnce' /\ NoPhantoms'
  BY <1>1, <1>2, <1>5, OnceStays
<1>7. CountersEnd'
  <2>1. job[j].pc # "expire"
    BY <1>1 DEF NoJob
  <2> QED BY <1>1, <1>2, <2>1, EndStays
<1>8. Counts'
  <2>1. /\ fails'.n \in Nat /\ begun' \in Nat /\ rows' \in [Notices -> Nat]
        /\ fails'.n <= fails.n /\ begun + 1 <= begun'
        /\ \A c \in Countries : rows'[Context(c)] <= rows[Context(c)]
    <3>1. begun \in Nat /\ fails.n \in Nat /\ rows \in [Notices -> Nat]
      BY SignalsAssumption DEF SignalsInv, SignalsTyped
    <3> QED BY <1>2, <3>1, Contexts
  <2> QED BY <1>1, <2>1, CountsStay
<1> QED BY <1>3, <1>4, <1>6, <1>7, <1>8 DEF SignalsInv

LEMMA SignInsOK ==
  ASSUME SignalsInv, NEW j \in Jobs, on_login_failure(j) \/ on_login_success(j)
  PROVE  SignalsInv'
<1>1. ASSUME NEW email \in Emails \cup {Unknown}, NEW local,
             local = [NoJob EXCEPT !.pc = "incr", !.email = email]
      PROVE  local \in Job /\ Holds(local) /\ local.pc = "incr"
  BY <1>1 DEF NoJob, Job, Holds, Steps
<1>2. ASSUME NEW c \in Countries, NEW local,
             local = [NoJob EXCEPT !.pc = "get", !.country = c, !.then = "scard"]
      PROVE  local \in Job /\ Holds(local) /\ local.pc = "get"
  BY <1>2 DEF NoJob, Job, Holds, Steps
<1>3. CASE on_login_failure(j)
  BY <1>1, <1>3, BeginsOK DEF on_login_failure
<1>4. CASE on_login_success(j)
  BY <1>2, <1>4, BeginsOK DEF on_login_success
<1> QED BY <1>3, <1>4

LEMMA IncrOK ==
  ASSUME SignalsInv, NEW j \in Jobs, Incr(j) PROVE SignalsInv'
<1> DEFINE local == [job[j] EXCEPT !.n = fails'.n]
           pc == IF fails'.n = 1 THEN "expire" ELSE "sadd"
<1>1. /\ fails.n \in Nat /\ fails' \in [n : Nat, ttl : BOOLEAN]
      /\ fails'.n = fails.n + 1 /\ fails'.ttl = fails.ttl
  BY DEF Incr, SignalsInv, SignalsTyped
<1>2. /\ local \in Job /\ local.then = job[j].then /\ local.notice = job[j].notice
      /\ local.country = job[j].country
  BY <1>1 DEF SignalsInv, SignalsTyped, Job
<1>3. pc \in Steps \cup {"done"} /\ pc # "done" /\ Goes(j, pc, local)
  BY DEF Steps, Incr
<1> HIDE DEF local, pc
<1>4. /\ job' \in [Jobs -> Job] /\ \A k \in Jobs : k # j => job'[k] = job[k]
      /\ job'[j].pc = pc /\ job'[j].then = job[j].then /\ job'[j].country = job[j].country
  BY <1>2, <1>3, JobMoves DEF SignalsInv, SignalsTyped
<1>5. job[j].pc = "incr" /\ UNCHANGED <<emails, rctx, geo, seen, dampers, rows, streamed, stuck, begun>>
  BY DEF Incr, At, signalGhosts
<1>6. SignalsTyped'
  BY <1>1, <1>4, <1>5 DEF SignalsInv, SignalsTyped
<1>7. JobsHold'
  BY <1>4 DEF SignalsInv, JobsHold, Holds, pc
<1>8. \A x \in Uncounted : Writes(j, x)' => Writes(j, x)
  BY <1>4 DEF Writes, pc
<1>9. NoticesOnce' /\ NoPhantoms'
  BY <1>4, <1>5, <1>8, OnceStays
<1>10. CountersEnd'
  <2>1. CASE fails'.n = 1
    BY <1>4, <2>1 DEF CountersEnd, At, pc
  <2>2. CASE fails'.n # 1
    BY <1>1, <1>4, <1>5, <2>2 DEF SignalsInv, CountersEnd, At
  <2> QED BY <2>1, <2>2
<1>11. Counts'
  <2>1. j \in Failing /\ j \notin Failing' /\ j \notin Changing'
    BY <1>4, <1>5 DEF Failing, Changing, pc
  <2>2. /\ fails'.n \in Nat /\ begun' \in Nat /\ rows' \in [Notices -> Nat]
        /\ fails'.n <= fails.n + 1 /\ begun <= begun'
        /\ \A c \in Countries : rows'[Context(c)] <= rows[Context(c)]
    BY <1>1, <1>5, Contexts, SignalsAssumption DEF SignalsInv, SignalsTyped
  <2> QED BY <1>4, <2>1, <2>2, CountsStay
<1> QED BY <1>6, <1>7, <1>9, <1>10, <1>11 DEF SignalsInv

LEMMA ExpireOK ==
  ASSUME SignalsInv, NEW j \in Jobs, Expire(j) PROVE SignalsInv'
<1>1. /\ job[j].pc = "expire" /\ fails.n \in Nat /\ fails' \in [n : Nat, ttl : BOOLEAN]
      /\ fails'.n = fails.n /\ fails'.ttl = (fails.n > 0)
      /\ UNCHANGED <<emails, rctx, geo, seen, dampers, rows, streamed, stuck, begun>>
  <2> DEFINE positive == fails.n > 0
  <2>1. fails \in [n : Nat, ttl : BOOLEAN] /\ positive \in BOOLEAN
    BY DEF SignalsInv, SignalsTyped
  <2>2. fails' = [fails EXCEPT !.ttl = positive]
    BY DEF Expire
  <2> HIDE DEF positive
  <2>3. fails' \in [n : Nat, ttl : BOOLEAN] /\ fails'.n = fails.n /\ fails'.ttl = positive
    BY <2>1, <2>2
  <2> QED BY <2>1, <2>3 DEF Expire, At, signalGhosts, positive
<1>2. /\ job' \in [Jobs -> Job] /\ \A k \in Jobs : k # j => job'[k] = job[k]
      /\ job'[j].pc = "sadd" /\ job'[j].then = job[j].then /\ job'[j].country = job[j].country
  BY JobMoves DEF Expire, GoesOn, Steps, SignalsInv, SignalsTyped
<1>3. SignalsTyped'
  BY <1>1, <1>2 DEF SignalsInv, SignalsTyped
<1>4. JobsHold'
  BY <1>2 DEF SignalsInv, JobsHold, Holds
<1>5. \A x \in Uncounted : Writes(j, x)' => Writes(j, x)
  BY <1>2 DEF Writes
<1>6. NoticesOnce' /\ NoPhantoms'
  BY <1>1, <1>2, <1>5, OnceStays
<1>7. CountersEnd'
  BY <1>1 DEF CountersEnd
<1>8. Counts'
  <2>1. j \notin Failing' /\ j \notin Changing'
    BY <1>2 DEF Failing, Changing
  <2>2. /\ fails'.n \in Nat /\ begun' \in Nat /\ rows' \in [Notices -> Nat]
        /\ fails'.n <= fails.n /\ begun <= begun'
        /\ \A c \in Countries : rows'[Context(c)] <= rows[Context(c)]
    BY <1>1, Contexts, SignalsAssumption DEF SignalsInv, SignalsTyped
  <2> QED BY <1>2, <2>1, <2>2, CountsStay
<1> QED BY <1>3, <1>4, <1>6, <1>7, <1>8 DEF SignalsInv

(* A step of a job, by where it goes and what it holds then. *)
LEMMA PlainStep ==
  ASSUME SignalsInv, NEW j \in Jobs, NEW pc \in Steps \cup {"done"}, NEW local \in Job,
         Goes(j, pc, local),
         pc # "done" => Holds([local EXCEPT !.pc = pc]),
         pc \in {"flush", "commit"} => \/ job[j].pc = "flush" /\ local.notice = job[j].notice
                                       \/ job[j].pc = "ctx_set" /\ local.notice[1] = "context",
         pc = "ctx_set" => job[j].pc = "ctx_get", pc \notin {"incr", "ctx_get"},
         UNCHANGED <<fails, rows, streamed, begun>>, seen \subseteq seen', dampers \subseteq dampers',
         emails' \in [set : SUBSET Emails, ttl : BOOLEAN],
         rctx' \in Countries \cup {Unknown}, geo' \in Countries \cup {Unknown},
         seen' \in SUBSET Countries, dampers' \in SUBSET Damped,
         stuck' \in BOOLEAN, stuck => stuck', job[j].pc = "expire" => stuck'
  PROVE  SignalsInv'
<1>1. /\ job' \in [Jobs -> Job] /\ \A k \in Jobs : k # j => job'[k] = job[k]
      /\ pc = "done" => job'[j] = NoJob
      /\ pc # "done" => /\ job'[j].pc = pc /\ job'[j].then = local.then
                        /\ job'[j].notice = local.notice /\ job'[j].country = local.country
  BY JobMoves DEF SignalsInv, SignalsTyped
<1>2. pc # "done" => /\ [local EXCEPT !.pc = pc].pc = pc /\ [local EXCEPT !.pc = pc].then = local.then
                     /\ [local EXCEPT !.pc = pc].notice = local.notice
                     /\ [local EXCEPT !.pc = pc].country = local.country
  BY DEF Job
<1>3. Holds(job'[j])
  BY <1>1, <1>2 DEF Holds, NoJob
<1>4. /\ job'[j].pc \in {"flush", "commit"} =>
           \/ job[j].pc = "flush" /\ job'[j].notice = job[j].notice
           \/ job[j].pc = "ctx_set" /\ job'[j].notice[1] = "context"
      /\ job'[j].pc = "ctx_set" => job[j].pc = "ctx_get"
      /\ job'[j].pc \notin {"incr", "ctx_get"}
  BY <1>1 DEF NoJob
<1> QED BY <1>1, <1>3, <1>4, PlainMove

LEMMA LastStep ==
  ASSUME SignalsInv, NEW j \in Jobs, GoesOn(j, "done"),
         UNCHANGED <<fails, emails, dampers, rows, streamed, begun>>, seen \subseteq seen',
         rctx' \in Countries \cup {Unknown}, geo' \in Countries \cup {Unknown},
         seen' \in SUBSET Countries,
         stuck' \in BOOLEAN, stuck => stuck', job[j].pc = "expire" => stuck'
  PROVE  SignalsInv'
<1>1. /\ job' \in [Jobs -> Job] /\ \A k \in Jobs : k # j => job'[k] = job[k]
      /\ job'[j] = NoJob
  BY JobMoves DEF SignalsInv, SignalsTyped, GoesOn
<1>2. Holds(job'[j]) /\ job'[j].pc = "idle"
  BY <1>1 DEF Holds, NoJob
<1> QED BY <1>1, <1>2, PlainMove DEF SignalsInv, SignalsTyped

LEMMA FailuresOK ==
  ASSUME SignalsInv, NEW j \in Jobs, AddEmail(j) \/ Judge(j) PROVE SignalsInv'
<1>1. /\ UNCHANGED <<fails, rctx, geo, seen, dampers, rows, streamed, stuck, begun>>
      /\ emails' \in [set : SUBSET Emails, ttl : BOOLEAN]
      /\ job[j].pc \in {"sadd", "emails_ttl", "judge"}
  <2> DEFINE some == emails.set # {}
  <2>1. /\ emails \in [set : SUBSET Emails, ttl : BOOLEAN] /\ some \in BOOLEAN
        /\ job[j].email \in Emails \cup {Unknown}
    BY DEF SignalsInv, SignalsTyped, Job
  <2>2. \/ emails' = emails
        \/ emails' = [emails EXCEPT !.set = @ \cup {job[j].email}] /\ job[j].email # Unknown
        \/ emails' = [emails EXCEPT !.ttl = some]
    BY DEF AddEmail, Judge
  <2> HIDE DEF some
  <2>3. emails' \in [set : SUBSET Emails, ttl : BOOLEAN]
    BY <2>1, <2>2
  <2> QED BY <2>3 DEF AddEmail, Judge, At, signalGhosts
<1>2. PICK pc \in {"judge", "emails_ttl", "damp", "done"} : \E local \in Job :
        /\ Goes(j, pc, local) /\ local.then = job[j].then /\ local.country = job[j].country
        /\ pc = "damp" => local.notice \in Damped
  <2>1. job[j] \in Job
    BY DEF SignalsInv, SignalsTyped
  <2>2. CASE AddEmail(j)
    BY <2>1, <2>2 DEF AddEmail, GoesOn
  <2>3. CASE Judge(j) /\ GoesOn(j, "done")
    BY <2>1, <2>3 DEF GoesOn
  <2>4. CASE Judge(j) /\ ~GoesOn(j, "done")
    <3> DEFINE local == [job[j] EXCEPT !.notice = <<"stuffing">>]
    <3>1. <<"stuffing">> \in Damped
      BY DEF Damped
    <3>2. /\ local \in Job /\ local.then = job[j].then /\ local.country = job[j].country
          /\ local.notice = <<"stuffing">>
      BY <2>1, <3>1, NoticeKinds DEF Job
    <3> QED BY <2>4, <3>1, <3>2 DEF Judge
  <2> QED BY <2>2, <2>3, <2>4
<1>3. PICK local \in Job :
        /\ Goes(j, pc, local) /\ local.then = job[j].then /\ local.country = job[j].country
        /\ pc = "damp" => local.notice \in Damped
  BY <1>2
<1>4. pc # "done" => Holds([local EXCEPT !.pc = pc])
  BY <1>3 DEF SignalsInv, JobsHold, Holds, Job
<1>5. pc \in Steps \cup {"done"}
  BY DEF Steps
<1> QED BY <1>1, <1>3, <1>4, <1>5, PlainStep DEF SignalsInv, SignalsTyped

LEMMA swap_refresh_contextOK ==
  ASSUME SignalsInv, NEW j \in Jobs, swap_refresh_context(j) PROVE SignalsInv'
<1>1. CASE \E c \in Countries : Starts(j, [NoJob EXCEPT !.pc = "ctx_get", !.country = c])
  <2>1. ASSUME NEW c \in Countries, NEW local, local = [NoJob EXCEPT !.pc = "ctx_get", !.country = c]
        PROVE  local \in Job /\ Holds(local) /\ local.pc = "ctx_get"
    BY <2>1 DEF NoJob, Job, Holds, Steps
  <2> QED BY <1>1, <2>1, BeginsOK
<1>2. CASE /\ At(j, "ctx_get") /\ Goes(j, "ctx_set", [job[j] EXCEPT !.old = rctx])
           /\ UNCHANGED <<fails, emails, rctx, geo, seen, dampers, signalGhosts>>
  <2> DEFINE local == [job[j] EXCEPT !.old = rctx]
  <2>1. local \in Job /\ local.then = job[j].then /\ local.country = job[j].country
    BY DEF SignalsInv, SignalsTyped, Job
  <2>2. Holds([local EXCEPT !.pc = "ctx_set"])
    <3>1. Holds(job[j])
      BY DEF SignalsInv, JobsHold
    <3> HIDE DEF local
    <3> QED BY <1>2, <2>1, <3>1 DEF Holds, Job, At
  <2>3. "ctx_set" \in Steps \cup {"done"}
    BY DEF Steps
  <2> QED BY <1>2, <2>1, <2>2, <2>3, PlainStep DEF SignalsInv, SignalsTyped, At, signalGhosts
<1>3. CASE /\ At(j, "ctx_set") /\ rctx' = job[j].country
           /\ IF job[j].old \in {Unknown, job[j].country} THEN GoesOn(j, "done")
              ELSE Goes(j, "flush", [job[j] EXCEPT !.notice = <<"context", job[j].country>>, !.then = "get"])
           /\ UNCHANGED <<fails, emails, geo, seen, dampers, signalGhosts>>
  <2>1. job[j] \in Job /\ Holds(job[j]) /\ job[j].pc = "ctx_set" /\ job[j].country \in Countries
    BY <1>3 DEF SignalsInv, SignalsTyped, JobsHold, Holds, At
  <2>2. CASE GoesOn(j, "done")
    BY <1>3, <2>1, <2>2, LastStep DEF SignalsInv, SignalsTyped, signalGhosts
  <2>3. CASE ~GoesOn(j, "done")
    <3> DEFINE notice == <<"context", job[j].country>>
               local == [job[j] EXCEPT !.notice = notice, !.then = "get"]
    <3>1. notice \in Notices /\ notice[1] = "context"
      BY <2>1, NoticeKinds
    <3> HIDE DEF notice
    <3>2. local \in Job /\ local.then = "get" /\ local.country = job[j].country /\ local.notice = notice
      BY <2>1, <3>1 DEF Job
    <3>3. Goes(j, "flush", local)
      BY <1>3, <2>3 DEF notice
    <3> HIDE DEF local
    <3>4. Holds([local EXCEPT !.pc = "flush"])
      BY <2>1, <3>1, <3>2 DEF Holds, Job
    <3>5. "flush" \in Steps \cup {"done"}
      BY DEF Steps
    <3> QED BY <1>3, <2>1, <3>1, <3>2, <3>3, <3>4, <3>5, PlainStep DEF SignalsInv, SignalsTyped, signalGhosts
  <2> QED BY <2>2, <2>3
<1> QED BY <1>1, <1>2, <1>3 DEF swap_refresh_context

LEMMA _check_travelOK ==
  ASSUME SignalsInv, NEW j \in Jobs, _check_travel(j) PROVE SignalsInv'
<1>1. job[j] \in Job /\ Holds(job[j])
  BY DEF SignalsInv, SignalsTyped, JobsHold
<1>2. CASE At(j, "get")
  <2> DEFINE then == IF job[j].then = "scard" THEN "scard" ELSE "done"
             local == [job[j] EXCEPT !.old = geo, !.then = then]
  <2>1. /\ Goes(j, "set", local)
        /\ UNCHANGED <<fails, emails, rctx, geo, seen, dampers, signalGhosts>>
    BY <1>2 DEF _check_travel, At
  <2>2. then \in {"done", "scard"}
    OBVIOUS
  <2> HIDE DEF then
  <2>3. local \in Job /\ local.country = job[j].country /\ job[j].country \in Countries
    BY <1>1, <1>2, <2>2 DEF SignalsInv, SignalsTyped, Job, Holds, At
  <2> HIDE DEF local
  <2>4. Holds([local EXCEPT !.pc = "set"])
    BY <2>3 DEF Holds, Job
  <2>5. "set" \in Steps \cup {"done"}
    BY DEF Steps
  <2> QED BY <1>2, <2>1, <2>3, <2>4, <2>5, PlainStep DEF SignalsInv, SignalsTyped, signalGhosts, At
<1>3. CASE At(j, "set")
  <2>1. /\ geo' = job[j].country /\ geo' \in Countries
        /\ UNCHANGED <<fails, emails, rctx, seen, dampers, rows, streamed, stuck, begun>>
        /\ \/ GoesOn(j, job[j].then)
           \/ /\ job[j].old \notin {Unknown, job[j].country}
              /\ Goes(j, "damp", [job[j] EXCEPT !.notice = <<"travel", {job[j].old, job[j].country}>>])
    BY <1>1, <1>3 DEF _check_travel, At, Holds, signalGhosts
  <2>2. CASE GoesOn(j, job[j].then)
    <3>1. job[j].then \in {"done", "get", "scard"} /\ job[j].then \in Steps \cup {"done"}
      BY <1>1 DEF Job, Steps
    <3>2. job[j].then # "done" => Holds([job[j] EXCEPT !.pc = job[j].then])
      BY <1>1, <3>1 DEF Holds, Job
    <3> QED BY <1>1, <1>3, <2>1, <2>2, <3>1, <3>2, PlainStep DEF SignalsInv, SignalsTyped, GoesOn, At
  <2>3. CASE /\ job[j].old \notin {Unknown, job[j].country}
             /\ Goes(j, "damp", [job[j] EXCEPT !.notice = <<"travel", {job[j].old, job[j].country}>>])
    <3> DEFINE notice == <<"travel", {job[j].old, job[j].country}>>
               local == [job[j] EXCEPT !.notice = notice]
    <3>1. notice \in Damped /\ notice \in Notices
      BY <1>1, <2>1, <2>3, WayIsDamped, NoticeKinds DEF Job
    <3>2. Goes(j, "damp", local)
      BY <2>3
    <3> HIDE DEF notice
    <3>3. /\ local \in Job /\ local.then = job[j].then /\ local.country = job[j].country
          /\ local.notice = notice
      BY <1>1, <3>1 DEF Job
    <3> HIDE DEF local
    <3>4. Holds([local EXCEPT !.pc = "damp"])
      BY <1>1, <2>1, <3>1, <3>3 DEF Holds, Job
    <3>5. "damp" \in Steps \cup {"done"}
      BY DEF Steps
    <3> QED BY <1>3, <2>1, <3>2, <3>3, <3>4, <3>5, PlainStep DEF SignalsInv, SignalsTyped, At
  <2> QED BY <2>1, <2>2, <2>3
<1> QED BY <1>2, <1>3 DEF _check_travel

(* A notice that nobody has given is marked, and given by one who found it unmarked. *)
LEMMA OnceBegins ==
  ASSUME SignalsInv, NEW j \in Jobs, NEW x \in Uncounted, ~Marked(x), Marked(x)',
         \A k \in Jobs : k # j => job'[k] = job[k],
         \A y \in Uncounted : y # x => ~Writes(j, y)',
         UNCHANGED <<rows, streamed>>, seen \subseteq seen', dampers \subseteq dampers'
  PROVE  NoticesOnce' /\ NoPhantoms'
<1>1. ASSUME NEW y \in Uncounted PROVE Once(y)'
  <2>1. Once(y) /\ rows'[y] = rows[y] /\ rows[y] \in Nat
    BY DEF SignalsInv, NoticesOnce, SignalsTyped, Uncounted
  <2>2. CASE y = x
    <3>1. rows[y] = 0 /\ \A k \in Jobs : ~Writes(k, y)
      BY <2>1, <2>2 DEF Once
    <3>2. \A k \in Jobs : Writes(k, y)' => k = j
      BY <3>1 DEF Writes
    <3> QED BY <2>1, <2>2, <3>1, <3>2 DEF Once
  <2>3. CASE y # x
    <3>1. Marked(y) => Marked(y)'
      BY DEF Marked
    <3>2. \A k \in Jobs : Writes(k, y)' => Writes(k, y)
      BY <1>1, <2>3 DEF Writes
    <3> QED BY <2>1, <3>1, <3>2 DEF Once
  <2> QED BY <2>2, <2>3
<1> QED BY <1>1 DEF NoticesOnce, Uncounted, SignalsInv, NoPhantoms

(* A job that is the first to give a notice. *)
LEMMA FirstStep ==
  ASSUME SignalsInv, NEW j \in Jobs, NEW local \in Job, Goes(j, "flush", local),
         local.then # "done" => local.country \in Countries,
         NEW x \in Uncounted, local.notice = x, ~Marked(x), Marked(x)', job[j].pc # "expire",
         UNCHANGED <<fails, emails, rctx, geo, rows, streamed, stuck, begun>>,
         seen \subseteq seen', dampers \subseteq dampers',
         seen' \in SUBSET Countries, dampers' \in SUBSET Damped
  PROVE  SignalsInv'
<1>1. /\ job' \in [Jobs -> Job] /\ \A k \in Jobs : k # j => job'[k] = job[k]
      /\ job'[j].pc = "flush" /\ job'[j].then = local.then
      /\ job'[j].notice = x /\ job'[j].country = local.country
  BY JobMoves DEF SignalsInv, SignalsTyped, Steps
<1>2. SignalsTyped'
  BY <1>1 DEF SignalsInv, SignalsTyped
<1>3. JobsHold'
  BY <1>1 DEF SignalsInv, JobsHold, Holds, Uncounted
<1>4. \A y \in Uncounted : y # x => ~Writes(j, y)'
  BY <1>1 DEF Writes
<1>5. NoticesOnce' /\ NoPhantoms'
  BY <1>1, <1>4, OnceBegins
<1>6. CountersEnd'
  BY <1>1, EndStays
<1>7. j \notin Failing' /\ j \notin Changing'
  BY <1>1 DEF Failing, Changing, Uncounted
<1>8. /\ fails'.n \in Nat /\ begun' \in Nat /\ rows' \in [Notices -> Nat]
      /\ fails'.n <= fails.n /\ begun <= begun'
      /\ \A c \in Countries : rows'[Context(c)] <= rows[Context(c)]
  BY Contexts, SignalsAssumption DEF SignalsInv, SignalsTyped
<1>9. Counts'
  BY <1>1, <1>7, <1>8, CountsStay
<1> QED BY <1>2, <1>3, <1>5, <1>6, <1>9 DEF SignalsInv

LEMMA _check_first_seenOK ==
  ASSUME SignalsInv, NEW j \in Jobs, _check_first_seen(j) PROVE SignalsInv'
<1>1. job[j] \in Job /\ Holds(job[j])
  BY DEF SignalsInv, SignalsTyped, JobsHold
<1>2. CASE At(j, "scard")
  <2> DEFINE empty == seen = {}
             local == [job[j] EXCEPT !.empty = empty]
  <2>1. /\ Goes(j, "seen", local)
        /\ UNCHANGED <<fails, emails, rctx, geo, seen, dampers, signalGhosts>>
    BY <1>2 DEF _check_first_seen, At
  <2>2. empty \in BOOLEAN
    OBVIOUS
  <2> HIDE DEF empty
  <2>3. local \in Job /\ local.country = job[j].country /\ local.then = job[j].then
        /\ job[j].country \in Countries
    BY <1>1, <1>2, <2>2 DEF Job, Holds, At
  <2> HIDE DEF local
  <2>4. Holds([local EXCEPT !.pc = "seen"])
    BY <1>1, <2>3 DEF Holds, Job
  <2>5. "seen" \in Steps \cup {"done"}
    BY DEF Steps
  <2> QED BY <1>2, <2>1, <2>3, <2>4, <2>5, PlainStep DEF SignalsInv, SignalsTyped, signalGhosts, At
<1>3. CASE At(j, "seen")
  <2>1. /\ seen' = seen \cup {job[j].country} /\ job[j].country \in Countries
        /\ UNCHANGED <<fails, emails, rctx, geo, dampers, rows, streamed, stuck, begun>>
        /\ IF job[j].empty \/ job[j].country \in seen THEN GoesOn(j, "done")
           ELSE Goes(j, "flush", [job[j] EXCEPT !.notice = <<"new", job[j].country>>, !.then = "done"])
    BY <1>1, <1>3 DEF _check_first_seen, At, Holds, signalGhosts
  <2>2. seen' \in SUBSET Countries /\ seen \subseteq seen'
    BY <2>1 DEF SignalsInv, SignalsTyped
  <2>3. CASE job[j].empty \/ job[j].country \in seen
    BY <1>3, <2>1, <2>2, <2>3, LastStep DEF SignalsInv, SignalsTyped, At
  <2>4. CASE ~(job[j].empty \/ job[j].country \in seen)
    <3>1. PICK c \in Countries : c = job[j].country
      BY <2>1
    <3> DEFINE x == <<"new", c>>
               local == [job[j] EXCEPT !.notice = x, !.then = "done"]
    <3>2. x \in Uncounted /\ x \in Notices
      BY NoticeKinds DEF Uncounted
    <3>3. ~Marked(x) /\ Marked(x)'
      BY <2>1, <2>4, <3>1 DEF Marked
    <3>4. Goes(j, "flush", local)
      BY <2>1, <2>4, <3>1
    <3> HIDE DEF x
    <3>5. local \in Job /\ local.notice = x /\ local.then = "done"
      BY <1>1, <3>2 DEF Job
    <3> HIDE DEF local
    <3> QED BY <1>3, <2>1, <2>2, <3>2, <3>3, <3>4, <3>5, FirstStep DEF SignalsInv, SignalsTyped, At
  <2> QED BY <2>3, <2>4
<1> QED BY <1>2, <1>3 DEF _check_first_seen

LEMMA DampOK ==
  ASSUME SignalsInv, NEW j \in Jobs, Damp(j) PROVE SignalsInv'
<1>1. /\ job[j] \in Job /\ Holds(job[j]) /\ job[j].pc = "damp" /\ job[j].notice \in Damped
      /\ dampers' = dampers \cup {job[j].notice}
      /\ UNCHANGED <<fails, emails, rctx, geo, seen, rows, streamed, stuck, begun>>
  BY DEF Damp, At, SignalsInv, SignalsTyped, JobsHold, Holds, signalGhosts
<1>2. dampers' \in SUBSET Damped /\ dampers \subseteq dampers'
  BY <1>1 DEF SignalsInv, SignalsTyped
<1>3. CASE job[j].notice \in dampers
  <2>1. job[j].then \in {"done", "get", "scard"} /\ job[j].then \in Steps \cup {"done"}
    BY <1>1 DEF Job, Steps
  <2>2. job[j].then # "done" => Holds([job[j] EXCEPT !.pc = job[j].then])
    BY <1>1, <2>1 DEF Holds, Job
  <2>3. Goes(j, job[j].then, job[j])
    BY <1>3 DEF Damp, GoesOn
  <2> QED BY <1>1, <1>2, <2>1, <2>2, <2>3, PlainStep DEF SignalsInv, SignalsTyped
<1>4. CASE job[j].notice \notin dampers
  <2>1. PICK x \in Uncounted : x = job[j].notice /\ x[1] # "new"
    BY <1>1, NoticeKinds DEF Uncounted
  <2>2. ~Marked(x)
    BY <1>4, <2>1 DEF Marked
  <2>3. Marked(x)'
    BY <1>1, <2>1 DEF Marked
  <2>4. Goes(j, "flush", job[j])
    BY <1>4 DEF Damp, GoesOn
  <2> QED BY <1>1, <1>2, <2>1, <2>2, <2>3, <2>4, FirstStep DEF SignalsInv, SignalsTyped, Holds
<1> QED BY <1>3, <1>4

LEMMA log_activityOK ==
  ASSUME SignalsInv, NEW j \in Jobs, log_activity(j) PROVE SignalsInv'
<1>1. job[j] \in Job /\ Holds(job[j]) /\ job[j].pc = "flush" /\ Goes(j, "commit", job[j])
  BY DEF log_activity, At, SignalsInv, SignalsTyped, JobsHold, GoesOn
<1>2. Holds([job[j] EXCEPT !.pc = "commit"])
  BY <1>1 DEF Holds, Job
<1>3. "commit" \in Steps \cup {"done"}
  BY DEF Steps
<1>4. UNCHANGED <<fails, emails, rctx, geo, seen, dampers, rows, streamed, stuck, begun>>
  BY DEF log_activity, signalGhosts
<1> QED BY <1>1, <1>2, <1>3, <1>4, PlainStep DEF SignalsInv, SignalsTyped

LEMMA FailsOpenOK ==
  ASSUME SignalsInv, NEW j \in Jobs, FailsOpen(j) PROVE SignalsInv'
<1>1. /\ GoesOn(j, "done") /\ stuck' = (stuck \/ job[j].pc = "expire")
      /\ UNCHANGED <<fails, emails, rctx, geo, seen, dampers, rows, streamed, begun>>
  BY DEF FailsOpen, At
<1>2. stuck' \in BOOLEAN /\ (stuck => stuck') /\ (job[j].pc = "expire" => stuck')
  BY <1>1 DEF SignalsInv, SignalsTyped
<1> QED BY <1>1, <1>2, LastStep DEF SignalsInv, SignalsTyped

LEMMA _register_commit_flushOK ==
  ASSUME SignalsInv, NEW j \in Jobs, _register_commit_flush(j) PROVE SignalsInv'
<1> DEFINE x == job[j].notice
           then == job[j].then
<1>1. /\ job[j] \in Job /\ Holds(job[j]) /\ job[j].pc = "commit" /\ x \in Notices
      /\ Goes(j, then, job[j])
      /\ UNCHANGED <<fails, emails, rctx, geo, seen, dampers, stuck, begun>>
      /\ rows' = [rows EXCEPT ![x] = @ + 1]
      /\ \/ streamed' = [streamed EXCEPT ![x] = @ + 1]
         \/ streamed' = streamed
  BY DEF _register_commit_flush, At, SignalsInv, SignalsTyped, JobsHold, Holds, GoesOn
<1>2. /\ rows \in [Notices -> Nat] /\ streamed \in [Notices -> Nat]
      /\ rows' \in [Notices -> Nat] /\ streamed' \in [Notices -> Nat]
      /\ rows'[x] = rows[x] + 1 /\ streamed'[x] \in {streamed[x], streamed[x] + 1}
      /\ \A y \in Notices : y # x => rows'[y] = rows[y] /\ streamed'[y] = streamed[y]
  BY <1>1 DEF SignalsInv, SignalsTyped
<1>3. then \in {"done", "get", "scard"} /\ then \in Steps \cup {"done"}
  BY <1>1 DEF Job, Steps
<1>4. /\ job' \in [Jobs -> Job] /\ \A k \in Jobs : k # j => job'[k] = job[k]
      /\ then = "done" => job'[j] = NoJob
      /\ then # "done" => /\ job'[j].pc = then /\ job'[j].then = then
                          /\ job'[j].notice = x /\ job'[j].country = job[j].country
  BY <1>1, <1>3, JobMoves DEF SignalsInv, SignalsTyped
<1>5. job'[j].pc \in {"idle", "get", "scard"}
  BY <1>3, <1>4 DEF NoJob
<1>6. SignalsTyped'
  BY <1>1, <1>2, <1>4 DEF SignalsInv, SignalsTyped
<1>7. JobsHold'
  <2>1. Holds(job'[j])
    BY <1>1, <1>3, <1>4 DEF Holds, NoJob
  <2> QED BY <1>4, <2>1 DEF SignalsInv, JobsHold
<1>8. NoticesOnce'
  <2>1. \A k \in Jobs, y \in Notices : Writes(k, y)' => Writes(k, y) /\ k # j
    BY <1>4, <1>5 DEF Writes
  <2>2. \A y \in Notices : Marked(y)' <=> Marked(y)
    BY <1>1 DEF Marked
  <2>3. Writes(j, x)
    BY <1>1 DEF Writes
  <2>4. ASSUME NEW y \in Uncounted PROVE Once(y)'
    <3>1. Once(y) /\ y \in Notices
      BY <2>4 DEF SignalsInv, NoticesOnce, Uncounted
    <3>2. CASE y = x
      BY <1>2, <2>1, <2>2, <2>3, <3>1, <3>2 DEF Once
    <3>3. CASE y # x
      BY <1>2, <2>1, <2>2, <3>1, <3>3 DEF Once
    <3> QED BY <3>2, <3>3
  <2> QED BY <2>4 DEF NoticesOnce, Uncounted
<1>9. NoPhantoms'
  <2>1. \A y \in Notices : streamed[y] <= rows[y] /\ streamed[y] \in Nat /\ rows[y] \in Nat
    BY <1>2 DEF SignalsInv, NoPhantoms
  <2> QED BY <1>2, <2>1 DEF NoPhantoms
<1>10. CountersEnd'
  BY <1>1, <1>4, EndStays
<1>11. Counts'
  <2>1. j \notin Failing' /\ j \notin Changing' /\ (x[1] = "context" => j \in Changing)
    BY <1>1, <1>5 DEF Failing, Changing
  <2>2. /\ fails'.n \in Nat /\ fails'.n <= fails.n /\ begun' \in Nat /\ begun <= begun'
    BY <1>1, SignalsAssumption DEF SignalsInv, SignalsTyped
  <2>3. \A c \in Countries : rows'[Context(c)] <= rows[Context(c)] + 1
    BY <1>2, Contexts
  <2>4. x[1] # "context" =>
          \A c \in Countries : rows'[Context(c)] <= rows[Context(c)]
    BY <1>2, Contexts
  <2>5. CASE x[1] = "context"
    BY <1>2, <1>4, <2>1, <2>2, <2>3, <2>5, CountsStay
  <2>6. CASE x[1] # "context"
    BY <1>2, <1>4, <2>1, <2>2, <2>4, <2>6, CountsStay
  <2> QED BY <2>5, <2>6
<1> QED BY <1>6, <1>7, <1>8, <1>9, <1>10, <1>11 DEF SignalsInv

LEMMA CountersExpireOK ==
  ASSUME SignalsInv, CountersExpire PROVE SignalsInv'
<1>1. /\ UNCHANGED <<rctx, geo, seen, dampers, job, rows, streamed, stuck, begun>>
      /\ emails' \in [set : SUBSET Emails, ttl : BOOLEAN]
      /\ fails' \in [n : Nat, ttl : BOOLEAN] /\ (fails'.n = 0 \/ fails' = fails)
  <2>1. fails \in [n : Nat, ttl : BOOLEAN] /\ emails \in [set : SUBSET Emails, ttl : BOOLEAN]
    BY DEF SignalsInv, SignalsTyped
  <2>2. /\ [n |-> 0, ttl |-> FALSE] \in [n : Nat, ttl : BOOLEAN] /\ [n |-> 0, ttl |-> FALSE].n = 0
        /\ [set |-> {}, ttl |-> FALSE] \in [set : SUBSET Emails, ttl : BOOLEAN]
    OBVIOUS
  <2> QED BY <2>1, <2>2 DEF CountersExpire, signalGhosts
<1>2. SignalsTyped'
  BY <1>1 DEF SignalsInv, SignalsTyped
<1>3. JobsHold' /\ NoticesOnce' /\ NoPhantoms'
  BY <1>1 DEF SignalsInv, JobsHold, NoticesOnce, Once, Marked, Writes, Uncounted, NoPhantoms
<1>4. CountersEnd'
  BY <1>1 DEF SignalsInv, CountersEnd, At
<1>5. Counts'
  <2>1. Failing' = Failing /\ Changing' = Changing
    BY <1>1 DEF Failing, Changing
  <2>2. IsFiniteSet(Failing)
    BY FS_Subset, SignalsAssumption DEF Failing
  <2>3. Cardinality(Failing) \in Nat
    BY <2>2, FS_CardinalityType
  <2>4. fails'.n + Cardinality(Failing) <= begun
    BY <1>1, <2>3, SignalsAssumption DEF SignalsInv, SignalsTyped, Counts
  <2> QED BY <1>1, <2>1, <2>4 DEF SignalsInv, Counts
<1> QED BY <1>2, <1>3, <1>4, <1>5 DEF SignalsInv

LEMMA DamperExpiresOK ==
  ASSUME SignalsInv, NEW d \in Damped, DamperExpires(d) PROVE SignalsInv'
<1>1. /\ \A j \in Jobs : job[j] # NoJob => job[j].notice # d
      /\ dampers' = dampers \ {d}
      /\ rows' = [rows EXCEPT ![d] = 0] /\ streamed' = [streamed EXCEPT ![d] = 0]
      /\ UNCHANGED <<fails, emails, rctx, geo, seen, job, stuck, begun>>
  BY DEF DamperExpires
<1>2. d \in Notices /\ d[1] \in {"stuffing", "travel"}
  BY NoticeKinds
<1>3. /\ rows' \in [Notices -> Nat] /\ streamed' \in [Notices -> Nat]
      /\ rows'[d] = 0 /\ streamed'[d] = 0
      /\ \A y \in Notices : y # d => rows'[y] = rows[y] /\ streamed'[y] = streamed[y]
  BY <1>1, <1>2 DEF SignalsInv, SignalsTyped
<1>4. SignalsTyped'
  BY <1>1, <1>3 DEF SignalsInv, SignalsTyped
<1>5. JobsHold' /\ CountersEnd'
  BY <1>1 DEF SignalsInv, JobsHold, CountersEnd, At
<1>6. \A j \in Jobs : ~Writes(j, d)
  BY <1>1 DEF Writes, NoJob
<1>7. NoticesOnce'
  <2>1. ASSUME NEW y \in Uncounted PROVE Once(y)'
    <3>1. Once(y) /\ y \in Notices
      BY <2>1 DEF SignalsInv, NoticesOnce, Uncounted
    <3>2. \A k \in Jobs : Writes(k, y)' <=> Writes(k, y)
      BY <1>1 DEF Writes
    <3>3. CASE y = d
      BY <1>3, <1>6, <3>2, <3>3 DEF Once
    <3>4. CASE y # d
      <4>1. Marked(y)' <=> Marked(y)
        BY <1>1, <3>4 DEF Marked
      <4> QED BY <1>3, <3>1, <3>2, <3>4, <4>1 DEF Once
    <3> QED BY <3>3, <3>4
  <2> QED BY <2>1 DEF NoticesOnce, Uncounted
<1>8. NoPhantoms'
  BY <1>3 DEF SignalsInv, NoPhantoms
<1>9. Counts'
  <2>1. Failing' = Failing /\ Changing' = Changing
    BY <1>1 DEF Failing, Changing
  <2>2. \A c \in Countries : rows'[Context(c)] = rows[Context(c)]
    BY <1>2, <1>3, Contexts
  <2> QED BY <1>1, <2>1, <2>2 DEF SignalsInv, Counts
<1> QED BY <1>4, <1>5, <1>7, <1>8, <1>9 DEF SignalsInv

LEMMA SignalsInitially == ASSUME SignalsInit PROVE SignalsInv
<1>1. NoJob \in Job /\ Holds(NoJob)
  BY DEF NoJob, Job, Holds
<1>2. SignalsTyped
  <2>1. begun \in 0..MaxJobs
    BY SignalsAssumption DEF SignalsInit
  <2>2. job \in [Jobs -> Job] /\ rows \in [Notices -> Nat] /\ streamed \in [Notices -> Nat]
    BY <1>1 DEF SignalsInit
  <2>3. fails \in [n : Nat, ttl : BOOLEAN] /\ emails \in [set : SUBSET Emails, ttl : BOOLEAN]
    BY DEF SignalsInit
  <2> QED BY <2>1, <2>2, <2>3 DEF SignalsInit, SignalsTyped
<1>3. \A j \in Jobs : job[j] = NoJob
  BY DEF SignalsInit
<1>4. JobsHold /\ NoticesOnce /\ NoPhantoms /\ CountersEnd
  BY <1>1, <1>3 DEF SignalsInit, JobsHold, NoticesOnce, Once, Uncounted, Writes, NoJob, NoPhantoms, CountersEnd
<1>5. Failing = {} /\ Changing = {}
  BY <1>3 DEF Failing, Changing, NoJob
<1>6. Counts
  <2>1. Cardinality(Failing) = 0 /\ Cardinality(Changing) = 0
    BY <1>5, FS_EmptySet
  <2>2. /\ fails.n = 0 /\ begun = 0 /\ \A c \in Countries : rows[Context(c)] = 0
    BY Contexts DEF SignalsInit
  <2> QED BY <2>1, <2>2 DEF Counts
<1> QED BY <1>2, <1>4, <1>6 DEF SignalsInv

LEMMA SignalsPreserved ==
  ASSUME SignalsInv, [SignalsNext]_<<signalVars, signalGhosts>> PROVE SignalsInv'
<1>1. CASE UNCHANGED <<signalVars, signalGhosts>>
  BY <1>1 DEF signalVars, signalGhosts, SignalsInv, SignalsTyped, JobsHold, NoticesOnce, Once, Marked,
              Writes, Uncounted, NoPhantoms, CountersEnd, At, Counts, Failing, Changing
<1>2. CASE CountersExpire \/ \E d \in Damped : DamperExpires(d)
  BY <1>2, CountersExpireOK, DamperExpiresOK
<1>3. ASSUME NEW j \in Jobs,
             \/ on_login_failure(j) \/ Incr(j) \/ Expire(j) \/ AddEmail(j) \/ Judge(j)
             \/ on_login_success(j) \/ swap_refresh_context(j) \/ _check_travel(j) \/ _check_first_seen(j)
             \/ Damp(j) \/ log_activity(j) \/ _register_commit_flush(j) \/ FailsOpen(j)
      PROVE  SignalsInv'
  BY <1>3, SignInsOK, IncrOK, ExpireOK, FailuresOK, swap_refresh_contextOK, _check_travelOK,
     _check_first_seenOK, DampOK, log_activityOK, _register_commit_flushOK, FailsOpenOK
<1> QED BY <1>1, <1>2, <1>3 DEF SignalsNext

(* No counter exceeds the jobs that began. *)
LEMMA SignalsTypes == ASSUME SignalsInv PROVE SignalsTypeOK
<1>1. /\ MaxJobs \in Nat \ {0} /\ begun \in 0..MaxJobs /\ fails.n \in Nat
      /\ rows \in [Notices -> Nat] /\ streamed \in [Notices -> Nat]
  BY SignalsAssumption DEF SignalsInv, SignalsTyped
<1>2. IsFiniteSet(Failing) /\ IsFiniteSet(Changing)
  BY FS_Subset, SignalsAssumption DEF Failing, Changing
<1>3. Cardinality(Failing) \in Nat /\ Cardinality(Changing) \in Nat
  BY <1>2, FS_CardinalityType
<1>4. fails.n <= MaxJobs
  BY <1>1, <1>3 DEF SignalsInv, Counts
<1>5. ASSUME NEW x \in Notices PROVE rows[x] <= MaxJobs
  <2>1. CASE x[1] = "context"
    <3>1. PICK c \in Countries : x = Context(c)
      BY <2>1, NoticeKinds DEF Context
    <3>2. rows[x] + Cardinality(Changing) <= begun
      BY <3>1 DEF SignalsInv, Counts
    <3> QED BY <1>1, <1>3, <3>2
  <2>2. CASE x[1] # "context"
    <3>1. rows[x] \in Nat /\ (rows[x] > 0 => rows[x] = 1)
      BY <1>1, <2>2 DEF SignalsInv, NoticesOnce, Once, Uncounted
    <3> QED BY <1>1, <3>1
  <2> QED BY <2>1, <2>2
<1>6. \A x \in Notices : rows[x] \in 0..MaxJobs /\ streamed[x] \in 0..MaxJobs
  BY <1>1, <1>5 DEF SignalsInv, NoPhantoms
<1>7. fails \in [n : 0..MaxJobs, ttl : BOOLEAN]
  BY <1>1, <1>4 DEF SignalsInv, SignalsTyped
<1> QED BY <1>1, <1>6, <1>7 DEF SignalsInv, SignalsTyped, SignalsTypeOK

(* The run's behaviours are behaviours of both parts. *)
SignalsSpec == SignalsInit /\ [][SignalsNext]_<<signalVars, signalGhosts>>

LEMMA BothParts == MCSpec => Spec /\ SignalsSpec
<1>1. MCInit => Init /\ SignalsInit
  BY DEF MCInit
<1>2. [MCNext]_<<vars, signalVars, signalGhosts, part>> =>
        [Next]_vars /\ [SignalsNext]_<<signalVars, signalGhosts>>
  BY DEF MCNext
<1> QED BY <1>1, <1>2, PTL DEF MCSpec, Spec, SignalsSpec

LEMMA SignalsInvariant == MCSpec => []SignalsInv
BY BothParts, SignalsInitially, SignalsPreserved, PTL DEF SignalsSpec

(* However many sign-ins and refreshes find the same at once, and wherever they
   fail: one row per notice and window, no line in the stream without its row,
   and no counter without an end.  (on_login_failure, _check_travel,
   _check_first_seen, _register_commit_flush) *)
THEOREM SignalsAreSparse == MCSpec => []NoticesAreSparse
<1>1. IInv /\ SignalsInv => NoticesAreSparse
  <2> SUFFICES ASSUME IInv, SignalsInv PROVE NoticesAreSparse
    OBVIOUS
  <2>1. OneDenialPerWindow
    BY DEF IInv, RecordInv, OneDenialPerWindow
  <2>2. OneSignalPerWindow
    BY DEF SignalsInv, SignalsTyped, NoticesOnce, Once, Uncounted, OneSignalPerWindow
  <2> QED BY <2>1, <2>2 DEF SignalsInv, NoticesAreSparse
<1> QED BY <1>1, BothParts, Invariant, SignalsInvariant, PTL

(* Both parts keep to their types; among it: no counter exceeds the sign-ins and
   refreshes there were. *)
THEOREM RunIsTyped == MCSpec => []TypesOK
BY InvariantTypes, SignalsTypes, BothParts, Invariant, SignalsInvariant, PTL DEF TypesOK

=============================================================================
