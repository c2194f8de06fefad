---------------------------- MODULE SignInProofs ----------------------------
(***************************************************************************)
(* Theorems of SignIn and HostedPages: accounts, codes, tokens and the     *)
(* browser's cookie, for any users, identities, services, apps, logins,    *)
(* tabs and requests, and every scenario.                                  *)
(***************************************************************************)
EXTENDS HostedPages, OrganizationsProofs, FiniteSetTheorems

-----------------------------------------------------------------------------
(* THE SERVICE *)

(* Between Redis and the commit a deactivated user is flagged already, and a
   reactivated one is no longer. *)
AccountsOK ==
  /\ linked \in [Subjects -> Users \cup {None}]
  /\ active \in SUBSET Users /\ flagged \in SUBSET Users /\ admins \in SUBSET Users
  /\ status \in [Users -> {None, TRUE, FALSE}]
  /\ members \in SUBSET (Workspaces \X Users)
  /\ \A u \in Users : status[u] = FALSE => u \in flagged
  /\ \A u \in Users : status[u] = None => u \in active \cup flagged

LinksOK ==
  /\ \A k \in Subjects : linked[k] # None => linked[k] \in known
  /\ AccountsAreOwned

(* What a sign-in looked up is still so: accounts stay, and an account without a
   social one stays without, unless another sign-in has committed, which marks
   it (moved).  Whoever exchanges a code has consumed it, and alone. *)
FoundOK(q) ==
  /\ q.subject \in Subjects /\ q.user \in Users
  /\ q.path \in {"known", "link", "create", "conflict"}
  /\ q.path = "known" => q.user \in known
  /\ q.path = "link" /\ ~q.moved => ~HasSocial(q.user)
  /\ q.path = "create" /\ q.flow = "admin" => q.user \in AdminEmails
ExchangeOK(q) == q.code \in Codes /\ codes[q.code] = Gone /\ spent[q.code] = 0
Serving(q) ==
  /\ q.pc \in {"found", "done"} /\ q.flow = "authz" => q.svc \in Services
  /\ q.pc = "found" => FoundOK(q)
  /\ q.pc \in {"done", "exchange"} => q.user \in known
  /\ q.pc = "exchange" => q.ws \in Workspaces /\ ExchangeOK(q)
RequestsOK ==
  /\ signin \in [Procs -> Request]
  /\ \A p \in Procs : Serving(signin[p])
  /\ \A p, r \in Procs : /\ signin[p].pc = "exchange" /\ signin[r].pc = "exchange"
                         /\ signin[p].code = signin[r].code
                         => p = r

Code == [user: Users, challenge: Maybe(Logins), app: Maybe(Logins), redirect: Maybe(Logins)]
CodesOK ==
  /\ codes \in [Codes -> Code \cup {None, Gone}]
  /\ \A c \in Codes : IsCode(c) => codes[c].user \in known
  /\ LoginsDontMix
  /\ spent \in [Codes -> {0, 1}]
  /\ \A c \in Codes : spent[c] # 0 => codes[c] = Gone

TokensOK ==
  /\ tokens \in Seq(Token)
  /\ denied \in SUBSET DOMAIN tokens
  /\ \A j \in DOMAIN tokens :
       tokens[j].kind = "authz" => <<tokens[j].svc, tokens[j].user>> \in brought

ServiceOK == OrgOK /\ AccountsOK /\ LinksOK /\ RequestsOK /\ CodesOK /\ TokensOK

-----------------------------------------------------------------------------
(* THE BROWSER *)

Form == [user: Maybe(Users), csrf: Nat]
Waiting == {t \in Procs : sent[t] # None}
FormOf(j) == [user |-> j.user, csrf |-> j.csrf]

(* Everything that holds a user and a csrf token. *)
Holders ==
  {FormOf(jar)} \cup {page[t] : t \in Procs}
    \cup {FormOf(sent[t].jar) : t \in Waiting} \cup {sent[t].form : t \in Waiting}

(* A csrf token names one user, wherever it is held. *)
NamesOneUser == \A a, b \in Holders : a.csrf = b.csrf /\ a.csrf # 0 => a.user = b.user

(* A request that still carries a user after a sign-out is older than it. *)
StaysOut ==
  out /\ ~revived =>
    jar.user = None /\ \A t \in Waiting : sent[t].old \/ sent[t].jar.user = None

(* What a login leaves in a cookie, it leaves together. *)
CookieOK(j) ==
  /\ j \in Jar
  /\ j.redirect = j.challenge /\ j.app = j.challenge
  /\ j.idp_redirect = j.idp_state

BrowserTypes ==
  /\ CookieOK(jar)
  /\ sent \in [Procs -> Sent \cup {None}]
  /\ \A t \in Waiting : CookieOK(sent[t].jar)
  /\ page \in [Procs -> Form]
  /\ out \in BOOLEAN /\ revived \in BOOLEAN
CountersOK == enabledApps \in SUBSET Apps /\ arrived \in 0 .. on.requests /\ on \in Scenarios

BrowserOK ==
  /\ BrowserTypes /\ CountersOK
  /\ NamesOneUser /\ StaysOut
  /\ misled = {} /\ TokensGoHome

IInv == ServiceOK /\ BrowserOK

-----------------------------------------------------------------------------
(* What stands still. *)

LEMMA SameOrgs == OrgOK /\ UNCHANGED tenancy => OrgOK'
  BY DEF OrgOK, OrganizationsTypeOK, tenancy

LEMMA SameAccounts == AccountsOK /\ UNCHANGED accounts => AccountsOK'
  BY DEF AccountsOK, accounts

LEMMA SameLinks == LinksOK /\ UNCHANGED <<known, linked, byAdmin, crossed>> => LinksOK'
  BY DEF LinksOK, AccountsAreOwned, OneSubjectPerAccount, AdminFlowCreatesNobody

LEMMA SameRequests == RequestsOK /\ UNCHANGED <<signin, known, linked, codes, spent>> => RequestsOK'
  BY DEF RequestsOK, Serving, FoundOK, ExchangeOK, HasSocial

LEMMA SameCodes == CodesOK /\ UNCHANGED <<codes, spent, known>> => CodesOK'
  BY DEF CodesOK, LoginsDontMix, IsCode

LEMMA SameTokens == TokensOK /\ UNCHANGED <<tokens, denied, brought>> => TokensOK'
  BY DEF TokensOK

LEMMA SameService == ServiceOK /\ UNCHANGED identity => ServiceOK'
<1> SUFFICES ASSUME ServiceOK, UNCHANGED identity PROVE ServiceOK'
  OBVIOUS
<1> USE DEF identity, tenancy, accounts, history
<1> QED BY SameOrgs, SameAccounts, SameLinks, SameRequests, SameCodes, SameTokens DEF ServiceOK

-----------------------------------------------------------------------------
(* One request moves. *)

LEMMA KnownAreUsers == OrgOK => known \in SUBSET Users
  BY DEF OrgOK, OrganizationsTypeOK

GoneStays == \A c \in Codes : codes[c] = Gone => codes'[c] = Gone

LEMMA ServingKept ==
  ASSUME NEW z, Serving(z), known \subseteq known', linked' = linked, GoneStays,
         z.pc = "exchange" => spent'[z.code] = spent[z.code]
  PROVE  Serving(z)'
  BY DEF Serving, FoundOK, ExchangeOK, HasSocial, GoneStays

LEMMA Becomes ==
  ASSUME RequestsOK, NEW p \in Procs, NEW q \in Request, Become(p, q), Serving(q)',
         \A r \in Procs : r # p => \A z \in Request : z = signin[r] => Serving(z)',
         \A r \in Procs : /\ r # p /\ q.pc = "exchange" /\ signin[r].pc = "exchange"
                          => signin[r].code # q.code
  PROVE  RequestsOK'
<1>1. signin' \in [Procs -> Request] /\ signin'[p] = q /\ \A r \in Procs : r # p => signin'[r] = signin[r]
  BY DEF RequestsOK, Become
<1>2. ASSUME NEW r \in Procs PROVE Serving(signin[r])'
  <2>1. \A z \in Request : z = signin'[r] => Serving(z)'
    BY <1>1 DEF RequestsOK
  <2>2. signin'[r] \in Request
    BY <1>1
  <2> QED BY <2>1, <2>2 DEF Serving, FoundOK, ExchangeOK, HasSocial
<1>3. ASSUME NEW s \in Procs, NEW r \in Procs, signin'[s].pc = "exchange", signin'[r].pc = "exchange",
             signin'[s].code = signin'[r].code
      PROVE  s = r
  BY <1>1, <1>3 DEF RequestsOK
<1> QED BY <1>1, <1>2, <1>3 DEF RequestsOK

LEMMA IdleServes == Idle \in Request /\ Serving(Idle)' /\ Idle.pc = "idle" /\ ~Idle.moved
  BY DEF Idle, Request, Serving, Maybe

(* It ends, and the accounts and the other requests' codes stay. *)
LEMMA Ends ==
  ASSUME RequestsOK, NEW p \in Procs, Become(p, Idle), UNCHANGED <<known, linked>>, GoneStays,
         \A r \in Procs : r # p /\ signin[r].pc = "exchange" => spent'[signin[r].code] = spent[signin[r].code]
  PROVE  RequestsOK'
<1>1. ASSUME NEW r \in Procs, r # p, NEW z \in Request, z = signin[r] PROVE Serving(z)'
  <2>1. Serving(z)
    BY <1>1 DEF RequestsOK
  <2> QED BY <1>1, <2>1, ServingKept
<1> QED BY <1>1, IdleServes, Becomes

(* The reads of a sign-in. *)
LEMMA BeginOK ==
  ASSUME ServiceOK, NEW p \in Procs, NEW flow \in Flows, NEW k \in Subjects, NEW e \in Users,
         NEW org \in Maybe(Orgs \cup {Public}), NEW svc \in Maybe(Services), NEW ws \in Maybe(Workspaces),
         Begin(p, flow, k, e, org, svc, ws), flow = "authz" => svc # None, flow = "admin" => AdminEligible(k, e)
  PROVE  ServiceOK'
<1> DEFINE path == Lookup(k, e)
           u == IF path = "known" THEN linked[k] ELSE e
           ok == path = "create" \/ u \in active
           admin == u \in admins
           q == [Idle EXCEPT !.pc = "found", !.flow = flow, !.subject = k, !.path = path, !.user = u,
                            !.org = org, !.ok = ok, !.admin = admin, !.svc = svc, !.ws = ws]
<1>1. path \in {"known", "link", "create", "conflict"}
  BY DEF Lookup
<1>2. path = "known" => linked[k] # None
  BY DEF Lookup, Social
<1>3. path = "known" => u \in known
  BY <1>2 DEF ServiceOK, LinksOK
<1>4. u \in Users
  BY <1>3, KnownAreUsers DEF ServiceOK
<1>5. path = "link" => u = e /\ ~HasSocial(e)
  BY DEF Lookup
<1>6. path = "create" /\ flow = "admin" => u = e /\ e \in AdminEmails
  BY DEF Lookup, AdminEligible
<1>7. Become(p, q) /\ UNCHANGED <<tenancy, accounts, codes, tokens, denied, history>>
  BY DEF Begin
<1>0. ok \in BOOLEAN /\ admin \in BOOLEAN
  OBVIOUS
<1> HIDE DEF path, u, ok, admin
<1>8. q \in Request
  BY <1>0, <1>1, <1>4 DEF Idle, Request, Maybe
<1>9. /\ q.pc = "found" /\ q.flow = flow /\ q.subject = k /\ q.path = path /\ q.user = u
      /\ q.svc = svc /\ ~q.moved
  BY DEF Idle
<1> HIDE DEF q
<1>10. Serving(q)
  BY <1>1, <1>3, <1>4, <1>5, <1>6, <1>9 DEF Serving, FoundOK, Maybe
<1>11. known' = known /\ linked' = linked /\ codes' = codes /\ spent' = spent
  BY <1>7 DEF tenancy, accounts, history
<1>12. ASSUME NEW z, Serving(z) PROVE Serving(z)'
  BY <1>11, <1>12, ServingKept DEF GoneStays
<1>13. ASSUME NEW r \in Procs, NEW z \in Request, z = signin[r] PROVE Serving(z)'
  BY <1>12, <1>13 DEF ServiceOK, RequestsOK
<1>14. RequestsOK'
  BY <1>7, <1>8, <1>9, <1>10, <1>12, <1>13, Becomes DEF ServiceOK
<1> USE <1>7 DEF tenancy, accounts, history
<1> QED BY <1>14, SameOrgs, SameAccounts, SameLinks, SameCodes, SameTokens DEF ServiceOK

LEMMA EndsOK ==
  ASSUME ServiceOK, NEW p \in Procs, Become(p, Idle),
         UNCHANGED <<tenancy, accounts, codes, tokens, denied, history>>
  PROVE  ServiceOK'
<1> USE DEF tenancy, accounts, history
<1>1. RequestsOK'
  BY Ends DEF ServiceOK, GoneStays
<1> QED BY <1>1, SameOrgs, SameAccounts, SameLinks, SameCodes, SameTokens DEF ServiceOK

-----------------------------------------------------------------------------
(* The commit of a sign-in. *)

LEMMA FoundFields ==
  ASSUME ServiceOK, NEW p \in Procs, signin[p].pc = "found"
  PROVE  /\ signin[p] \in Request /\ FoundOK(signin[p])
         /\ signin[p].org \in Maybe(Orgs \cup {Public}) /\ signin[p].admin \in BOOLEAN
  BY DEF ServiceOK, RequestsOK, Serving, Request

LEMMA CommitOrgs ==
  ASSUME OrgOK, NEW q, q.user \in Users, q.org \in Maybe(Orgs \cup {Public}), Committed(q)
  PROVE  OrgOK' /\ known' = known \cup {q.user}
<1>1. orgOf' \in [Users -> Orgs \cup {Public, None}]
  BY DEF OrgOK, OrganizationsTypeOK, Committed, Maybe
<1> QED BY <1>1 DEF OrgOK, OrganizationsTypeOK, Committed

LEMMA CommitAccounts ==
  ASSUME AccountsOK, NEW q, q.user \in Users, Committed(q)
  PROVE  AccountsOK'
<1>1. linked' \in [Subjects -> Users \cup {None}]
  BY DEF AccountsOK, Committed
<1>2. admins' \in SUBSET Users
  BY DEF AccountsOK, Committed
<1> QED BY <1>1, <1>2 DEF AccountsOK, Committed

(* A second subject is linked to an account only by a sign-in that was told of
   another. *)
LEMMA CommitLinks ==
  ASSUME AccountsOK, LinksOK, NEW q, FoundOK(q), q.path # "conflict", CanCommit(q), Committed(q)
  PROVE  LinksOK'
<1> USE DEF FoundOK
<1>1. ASSUME NEW k \in Subjects, linked'[k] # None PROVE linked'[k] \in known'
  BY <1>1 DEF LinksOK, Committed, AccountsOK
<1>2. crossed \subseteq crossed'
  BY DEF Committed
<1>3. ASSUME NEW k \in Subjects, NEW m \in Subjects, k # m, linked'[k] # None, linked'[k] = linked'[m]
      PROVE  linked'[k] \in crossed'
  <2>1. CASE q.path = "known" \/ (k # q.subject /\ m # q.subject)
    <3>1. linked'[k] = linked[k] /\ linked'[m] = linked[m]
      BY <2>1 DEF Committed, AccountsOK
    <3> QED BY <1>2, <1>3, <3>1 DEF LinksOK, AccountsAreOwned, OneSubjectPerAccount
  <2>2. CASE q.path # "known" /\ (k = q.subject \/ m = q.subject)
    <3>1. PICK x \in Subjects : x # q.subject /\ linked[x] = q.user /\ linked'[k] = q.user
      BY <1>3, <2>2 DEF Committed, AccountsOK
    <3>2. q.user \in known /\ HasSocial(q.user)
      BY <3>1, OrganizationsAssumption DEF LinksOK, HasSocial
    <3>3. q.path = "link" /\ q.moved
      BY <2>2, <3>2 DEF CanCommit
    <3> QED BY <3>1, <3>3 DEF Committed
  <2> QED BY <2>1, <2>2
<1>4. byAdmin' \subseteq AdminEmails
  BY DEF LinksOK, AccountsAreOwned, AdminFlowCreatesNobody, Committed
<1> QED BY <1>1, <1>3, <1>4 DEF LinksOK, AccountsAreOwned, OneSubjectPerAccount, AdminFlowCreatesNobody

LEMMA CommitRequests ==
  ASSUME ServiceOK, NEW p \in Procs, signin[p].pc = "found", Committed(signin[p]), UNCHANGED <<codes, spent>>,
         NEW admin \in BOOLEAN,
         signin' = [Moved(p) EXCEPT ![p] = [signin[p] EXCEPT !.pc = "done", !.admin = admin]]
  PROVE  RequestsOK'
<1> DEFINE kept == [signin[p] EXCEPT !.pc = "done", !.admin = admin]
           told(r) == [signin[r] EXCEPT !.moved = signin[r].pc = "found"]
<1>1. signin \in [Procs -> Request]
  BY DEF ServiceOK, RequestsOK
<1>2. kept \in Request /\ kept.pc = "done" /\ kept.user = signin[p].user /\ kept.flow = signin[p].flow
      /\ kept.svc = signin[p].svc
  BY <1>1 DEF Request
<1>3. ASSUME NEW r \in Procs
      PROVE  /\ told(r) \in Request /\ told(r).pc = signin[r].pc /\ told(r).code = signin[r].code
             /\ told(r).user = signin[r].user /\ told(r).flow = signin[r].flow /\ told(r).svc = signin[r].svc
             /\ told(r).path = signin[r].path /\ told(r).subject = signin[r].subject
             /\ told(r).ws = signin[r].ws /\ (signin[r].pc = "found" => told(r).moved)
  BY <1>1 DEF Request
<1>4. signin'[p] = kept /\ \A r \in Procs : r # p => signin'[r] = told(r)
  BY DEF Moved
<1>5. signin' \in [Procs -> Request]
  <2>1. \A r \in Procs : signin'[r] \in Request
    BY <1>2, <1>3, <1>4
  <2>2. signin' = [r \in Procs |-> signin'[r]]
    BY DEF Moved
  <2> HIDE DEF kept, told
  <2> QED BY <2>1, <2>2
<1> HIDE DEF kept, told
<1>6. known \subseteq known' /\ signin[p].user \in known'
  BY DEF Committed
<1>7. ASSUME NEW r \in Procs PROVE Serving(signin[r])'
  <2>1. Serving(signin[r])
    BY DEF ServiceOK, RequestsOK
  <2>2. CASE r = p
    <3>1. Serving(signin[p])
      BY <2>1, <2>2
    <3> QED BY <1>2, <1>4, <1>6, <2>2, <3>1 DEF Serving
  <2>3. CASE r # p
    BY <1>3, <1>4, <1>6, <2>1, <2>3 DEF Serving, FoundOK, ExchangeOK
  <2> QED BY <2>2, <2>3
<1>8. ASSUME NEW r \in Procs, NEW s \in Procs, signin'[r].pc = "exchange", signin'[s].pc = "exchange",
             signin'[r].code = signin'[s].code
      PROVE  r = s
  BY <1>2, <1>3, <1>4, <1>8 DEF ServiceOK, RequestsOK
<1> QED BY <1>5, <1>7, <1>8 DEF RequestsOK

LEMMA CodesKept == CodesOK /\ known \subseteq known' /\ UNCHANGED <<codes, spent>> => CodesOK'
  BY DEF CodesOK, LoginsDontMix, IsCode

LEMMA FindOrCreateOK == ASSUME ServiceOK, NEW p \in Procs, find_or_create_user(p) PROVE ServiceOK'
<1>1. CASE signin[p].path # "conflict" /\ CanCommit(signin[p])
  <2> DEFINE q == signin[p]
             admin == q.admin \/ q.user \in admins' \ admins
  <2>1. q \in Request /\ FoundOK(q) /\ q.org \in Maybe(Orgs \cup {Public}) /\ q.admin \in BOOLEAN
    BY FoundFields DEF find_or_create_user
  <2>2. /\ Committed(q) /\ UNCHANGED <<codes, tokens, denied, spent, brought>>
        /\ signin' = [Moved(p) EXCEPT ![p] = [q EXCEPT !.pc = "done", !.admin = admin]]
    BY <1>1 DEF find_or_create_user
  <2>3. admin \in BOOLEAN
    BY <2>1
  <2> HIDE DEF admin
  <2>4. OrgOK' /\ known' = known \cup {q.user}
    BY <2>1, <2>2, CommitOrgs DEF ServiceOK, FoundOK
  <2>5. AccountsOK'
    BY <2>1, <2>2, CommitAccounts DEF ServiceOK, FoundOK
  <2>6. LinksOK'
    BY <1>1, <2>1, <2>2, CommitLinks DEF ServiceOK
  <2>7. RequestsOK'
    BY <2>2, <2>3, CommitRequests DEF find_or_create_user
  <2>8. CodesOK' /\ TokensOK'
    BY <2>2, <2>4, CodesKept, SameTokens DEF ServiceOK
  <2> QED BY <2>4, <2>5, <2>6, <2>7, <2>8 DEF ServiceOK
<1>2. CASE ~(signin[p].path # "conflict" /\ CanCommit(signin[p]))
  <2>1. Become(p, Idle) /\ UNCHANGED <<tenancy, accounts, codes, tokens, denied, history>>
    BY <1>2 DEF find_or_create_user, history
  <2> QED BY <2>1, EndsOK
<1> QED BY <1>1, <1>2

-----------------------------------------------------------------------------
(* What the flows end with. *)

LEMMA ServedFields ==
  ASSUME ServiceOK, NEW p \in Procs, signin[p].pc \in {"done", "exchange"}
  PROVE  /\ signin[p].user \in known /\ signin[p].user \in Users
         /\ signin[p].ws \in Maybe(Workspaces)
         /\ signin[p].pc = "done" /\ signin[p].flow = "authz" => signin[p].svc \in Services
  BY KnownAreUsers DEF ServiceOK, RequestsOK, Serving, Request

LEMMA MintOK ==
  ASSUME TokensOK, NEW t \in Token, Minted(t), UNCHANGED denied, brought \subseteq brought',
         t.kind = "authz" => <<t.svc, t.user>> \in brought'
  PROVE  TokensOK'
<1>1. tokens' \in Seq(Token) /\ tokens' = Append(tokens, t) /\ DOMAIN tokens = 1 .. Len(tokens)
      /\ DOMAIN tokens' = 1 .. Len(tokens) + 1 /\ Len(tokens) \in Nat
  BY DEF TokensOK, Minted
<1>0. tokens'[Len(tokens) + 1] = t
  BY DEF TokensOK, Minted
<1>2. ASSUME NEW j \in DOMAIN tokens', tokens'[j].kind = "authz"
      PROVE  <<tokens'[j].svc, tokens'[j].user>> \in brought'
  <2>1. CASE j \in DOMAIN tokens
    BY <1>1, <1>2, <2>1 DEF TokensOK
  <2>2. CASE j = Len(tokens) + 1
    BY <1>0, <1>2, <2>2
  <2>3. j \in 1 .. Len(tokens) + 1
    BY <1>1
  <2>4. j \in 1 .. Len(tokens) \/ j = Len(tokens) + 1
    BY <1>1, <2>3
  <2> QED BY <1>1, <2>1, <2>2, <2>4
<1>3. DOMAIN tokens \subseteq DOMAIN tokens'
  BY <1>1
<1> QED BY <1>1, <1>2, <1>3 DEF TokensOK

LEMMA BroughtOK == TokensOK /\ UNCHANGED <<tokens, denied>> /\ brought \subseteq brought' => TokensOK'
  BY DEF TokensOK

LEMMA AdminSignedInOK == ASSUME ServiceOK, NEW p \in Procs, AdminSignedIn(p) PROVE ServiceOK'
<1> DEFINE t == [kind |-> "admin", user |-> signin[p].user, ws |-> None, svc |-> None]
<1>1. Become(p, Idle) /\ UNCHANGED <<tenancy, accounts, codes, denied, history>> /\ Minted(t)
      /\ signin[p].pc = "done"
  BY DEF AdminSignedIn, Finished
<1>2. t \in Token /\ t.kind = "admin"
  BY <1>1, ServedFields DEF Token, Maybe
<1> HIDE DEF t
<1> USE <1>1 DEF tenancy, accounts, history
<1>3. TokensOK'
  BY <1>2, MintOK DEF ServiceOK
<1>4. RequestsOK'
  BY Ends DEF ServiceOK, GoneStays
<1> QED BY <1>3, <1>4, SameOrgs, SameAccounts, SameLinks, SameCodes DEF ServiceOK

LEMMA ResolveMintsOK == ASSUME ServiceOK, NEW p \in Procs, ResolveMints(p) PROVE ServiceOK'
<1> DEFINE q == signin[p]
           t == [kind |-> "authz", user |-> q.user, ws |-> q.ws, svc |-> ScopeOf[q.svc]]
<1>1. /\ Become(p, Idle) /\ q.pc = "done" /\ q.flow = "authz"
      /\ brought' = brought \cup {<<ScopeOf[q.svc], q.user>>}
      /\ UNCHANGED <<tenancy, accounts, codes, denied, spent, byAdmin, crossed>>
      /\ UNCHANGED tokens \/ Minted(t)
  BY DEF ResolveMints, Finished
<1>2. q.user \in Users /\ q.svc \in Services /\ q.ws \in Maybe(Workspaces)
  BY <1>1, ServedFields
<1>3. t \in Token /\ <<t.svc, t.user>> \in brought'
  BY <1>1, <1>2 DEF Token, Maybe
<1> HIDE DEF t, q
<1> USE <1>1 DEF tenancy, accounts, history
<1>4. TokensOK'
  BY <1>3, MintOK, BroughtOK DEF ServiceOK
<1>5. RequestsOK'
  BY Ends DEF ServiceOK, GoneStays
<1> QED BY <1>4, <1>5, SameOrgs, SameAccounts, SameLinks, SameCodes DEF ServiceOK

LEMMA SignInRefusedOK == ASSUME ServiceOK, NEW p \in Procs, SignInRefused(p) PROVE ServiceOK'
  BY EndsOK DEF SignInRefused

-----------------------------------------------------------------------------
(* Authorization codes. *)

LEMMA CodeFields ==
  ASSUME CodesOK, NEW c \in Codes, IsCode(c)
  PROVE  codes[c] \in Code /\ codes[c].user \in known /\ spent[c] = 0
  BY DEF CodesOK, IsCode

LEMMA GetDelOK ==
  ASSUME CodesOK, NEW c \in Codes, IsCode(c), GetDel(c), UNCHANGED <<spent, known>>
  PROVE  CodesOK' /\ GoneStays /\ codes'[c] = Gone
<1>1. codes' \in [Codes -> Code \cup {None, Gone}] /\ codes'[c] = Gone
      /\ \A d \in Codes : d # c => codes'[d] = codes[d]
  BY DEF CodesOK, GetDel
<1> QED BY <1>1 DEF CodesOK, GoneStays, LoginsDontMix, IsCode

(* A request to which nothing happens, while codes come and go. *)
LEMMA Stays ==
  ASSUME RequestsOK, UNCHANGED <<signin, known, linked, spent>>, GoneStays
  PROVE  RequestsOK'
<1>1. ASSUME NEW p \in Procs PROVE Serving(signin[p])'
  <2>1. \A z : Serving(z) => Serving(z)'
    BY ServingKept
  <2> QED BY <2>1 DEF RequestsOK, Serving, FoundOK, ExchangeOK, HasSocial
<1> QED BY <1>1 DEF RequestsOK

LEMMA CodeExpiresOK == ASSUME ServiceOK, NEW c \in Codes, CodeExpires(c) PROVE ServiceOK'
<1> USE DEF tenancy, accounts, history
<1>1. CodesOK' /\ GoneStays
  BY GetDelOK DEF ServiceOK, CodeExpires
<1>2. RequestsOK'
  BY <1>1, Stays DEF ServiceOK, CodeExpires
<1> QED BY <1>1, <1>2, SameOrgs, SameAccounts, SameLinks, SameTokens DEF ServiceOK, CodeExpires

LEMMA CreateCodeOK ==
  ASSUME CodesOK, NEW c \in Codes, NEW u \in known, u \in Users, NEW l \in Maybe(Logins),
         create_auth_code(c, u, l, l, l), UNCHANGED <<spent, known>>
  PROVE  CodesOK' /\ GoneStays
<1> DEFINE new == [user |-> u, challenge |-> l, app |-> l, redirect |-> l]
<1>1. new \in Code /\ new.user = u /\ new.challenge = l /\ new.app = l /\ new.redirect = l
  BY DEF Code
<1>2. codes[c] = None /\ codes' = [codes EXCEPT ![c] = new]
  BY DEF create_auth_code
<1> HIDE DEF new
<1>3. codes' \in [Codes -> Code \cup {None, Gone}] /\ codes'[c] = new
      /\ \A d \in Codes : d # c => codes'[d] = codes[d]
  BY <1>1, <1>2 DEF CodesOK
<1> QED BY <1>1, <1>2, <1>3, SignInAssumption DEF CodesOK, GoneStays, LoginsDontMix, IsCode

(* A callback answers with a code of its login, or with none. *)
LEMMA CallbackEndsOK ==
  ASSUME ServiceOK, NEW p \in Procs, signin[p].pc = "done", Become(p, Idle), NEW c \in Codes, NEW l \in Maybe(Logins),
         create_auth_code(c, signin[p].user, l, l, l) \/ UNCHANGED codes,
         UNCHANGED <<tenancy, accounts, tokens, denied, history>>
  PROVE  ServiceOK'
<1> USE DEF tenancy, accounts, history
<1>1. CodesOK' /\ GoneStays
  <2>1. CASE UNCHANGED codes
    BY <2>1, SameCodes DEF ServiceOK, GoneStays
  <2>2. CASE create_auth_code(c, signin[p].user, l, l, l)
    BY <2>2, ServedFields, CreateCodeOK DEF ServiceOK
  <2> QED BY <2>1, <2>2
<1>2. RequestsOK'
  BY <1>1, Ends DEF ServiceOK
<1> QED BY <1>1, <1>2, SameOrgs, SameAccounts, SameLinks, SameTokens DEF ServiceOK

LEMMA SelectWorkspaceOK ==
  ASSUME ServiceOK, NEW p \in Procs, NEW c \in Codes, NEW w \in Workspaces, NEW l \in Logins,
         select_workspace(p, c, w, l)
  PROVE  ServiceOK'
<1> DEFINE u == codes[c].user
           org == orgOf[u]
           q == [Idle EXCEPT !.pc = "exchange", !.user = u, !.code = c, !.ws = w, !.org = org]
<1>1. /\ IsCode(c) /\ GetDel(c) /\ UNCHANGED <<tenancy, accounts, tokens, denied, history>>
      /\ Become(p, q) \/ UNCHANGED signin
  BY DEF select_workspace, consume_auth_code
<1>2. u \in known /\ u \in Users /\ spent[c] = 0
  BY <1>1, CodeFields, KnownAreUsers DEF ServiceOK
<1>3. org \in Orgs \cup {Public, None}
  BY <1>2 DEF ServiceOK, OrgOK, OrganizationsTypeOK
<1> HIDE DEF u, org
<1>4. q \in Request
  BY <1>2, <1>3 DEF Idle, Request, Maybe
<1>5. q.pc = "exchange" /\ q.user = u /\ q.code = c /\ q.ws = w
  BY DEF Idle
<1> HIDE DEF q
<1> USE DEF tenancy, accounts, history
<1>6. CodesOK' /\ GoneStays /\ codes'[c] = Gone /\ known' = known /\ linked' = linked /\ spent' = spent
  BY <1>1, GetDelOK DEF ServiceOK
<1>7. RequestsOK'
  <2>1. CASE UNCHANGED signin
    BY <1>6, <2>1, Stays DEF ServiceOK
  <2>2. CASE Become(p, q)
    <3>1. ASSUME NEW z, z = q PROVE Serving(z)'
      BY <1>2, <1>5, <1>6, <3>1 DEF Serving, ExchangeOK
    <3>2. ASSUME NEW r \in Procs, r # p, NEW z \in Request, z = signin[r] PROVE Serving(z)'
      <4>1. Serving(z)
        BY <3>2 DEF ServiceOK, RequestsOK
      <4>2. known \subseteq known' /\ (z.pc = "exchange" => spent'[z.code] = spent[z.code])
        BY <1>6
      <4> QED BY <1>6, <4>1, <4>2, ServingKept
    <3>3. ASSUME NEW r \in Procs, signin[r].pc = "exchange" PROVE signin[r].code # c
      <4>1. codes[signin[r].code] = Gone
        BY <3>3 DEF ServiceOK, RequestsOK, Serving, ExchangeOK
      <4> QED BY <1>1, <4>1 DEF IsCode
    <3> QED BY <1>4, <1>5, <2>2, <3>1, <3>2, <3>3, Becomes DEF ServiceOK
  <2> QED BY <1>1, <2>1, <2>2
<1> QED BY <1>1, <1>6, <1>7, SameOrgs, SameAccounts, SameLinks, SameTokens DEF ServiceOK

LEMMA IssueTokensOK == ASSUME ServiceOK, NEW p \in Procs, issue_tokens(p) PROVE ServiceOK'
<1> DEFINE q == signin[p]
           t == [kind |-> "access", user |-> q.user, ws |-> q.ws, svc |-> None]
<1>1. /\ Become(p, Idle) /\ q.pc = "exchange" /\ Minted(t)
      /\ spent' = [spent EXCEPT ![q.code] = @ + 1]
      /\ UNCHANGED <<tenancy, accounts, codes, denied, brought, byAdmin, crossed>>
  BY DEF issue_tokens
<1>2. q.user \in Users /\ q.ws \in Maybe(Workspaces)
  BY <1>1, ServedFields
<1>3. q.code \in Codes /\ codes[q.code] = Gone /\ spent[q.code] = 0
  BY <1>1 DEF ServiceOK, RequestsOK, Serving, ExchangeOK
<1>4. t \in Token /\ t.kind = "access"
  BY <1>2 DEF Token, Maybe
<1>5. \A r \in Procs : r # p /\ signin[r].pc = "exchange" => signin[r].code \in Codes /\ signin[r].code # q.code
  BY <1>1 DEF ServiceOK, RequestsOK, Serving, ExchangeOK
<1> HIDE DEF t, q
<1> USE <1>1 DEF tenancy, accounts, history
<1>6. TokensOK'
  BY <1>4, MintOK DEF ServiceOK
<1>7. spent \in [Codes -> {0, 1}]
  BY DEF ServiceOK, CodesOK
<1>8. /\ spent' \in [Codes -> {0, 1}] /\ spent'[q.code] = 1
      /\ \A c \in Codes : c # q.code => spent'[c] = spent[c]
  BY <1>3, <1>7
<1>9. RequestsOK'
  BY <1>5, <1>8, Ends DEF ServiceOK, GoneStays
<1>10. CodesOK'
  BY <1>3, <1>8 DEF ServiceOK, CodesOK, LoginsDontMix, IsCode
<1> QED BY <1>6, <1>9, <1>10, SameOrgs, SameAccounts, SameLinks DEF ServiceOK

-----------------------------------------------------------------------------
(* Accounts and tokens change, and organizations. *)

LEMMA TokensOfThem == ASSUME NEW u, NEW kinds PROVE TokensOf(u, kinds) \subseteq DOMAIN tokens
  BY DEF TokensOf

LEMMA DeniedOK ==
  ASSUME TokensOK, UNCHANGED <<tokens, brought>>, denied' \subseteq DOMAIN tokens
  PROVE  TokensOK'
  BY DEF TokensOK

LEMMA AccountsMove ==
  ASSUME ServiceOK, AccountsOK', TokensOK', UNCHANGED <<tenancy, linked, signin, codes, tokens, history>>
  PROVE  ServiceOK'
<1> USE DEF tenancy, accounts, history
<1> QED BY SameOrgs, SameLinks, SameRequests, SameCodes DEF ServiceOK

LEMMA UpdateUserOK ==
  ASSUME ServiceOK, NEW u \in Users, NEW b \in BOOLEAN, update_user(u, b)
  PROVE  ServiceOK'
<1>1. UNCHANGED <<tenancy, linked, active, admins, members, signin, codes, tokens, history>>
  BY DEF update_user
<1>2. status \in [Users -> {None, TRUE, FALSE}] /\ flagged \in SUBSET Users
  BY DEF ServiceOK, AccountsOK
<1>3. status' = [status EXCEPT ![u] = b] /\ flagged' = (IF b THEN flagged \ {u} ELSE flagged \cup {u})
  BY DEF update_user
<1>4. status' \in [Users -> {None, TRUE, FALSE}] /\ status'[u] = b
      /\ \A x \in Users : x # u => status'[x] = status[x]
  BY <1>2, <1>3
<1>5. flagged' \in SUBSET Users /\ (b = FALSE => u \in flagged') /\ b # None
      /\ \A x \in Users : x # u => (x \in flagged' <=> x \in flagged)
  BY <1>2, <1>3, SignInAssumption
<1>6. AccountsOK'
  BY <1>1, <1>4, <1>5 DEF ServiceOK, AccountsOK
<1>7. TokensOK'
  BY <1>1, TokensOfThem, DeniedOK DEF update_user, history, ServiceOK, TokensOK
<1> QED BY <1>1, <1>6, <1>7, AccountsMove

LEMMA CommitStatusOK == ASSUME ServiceOK, NEW u \in Users, CommitStatus(u) PROVE ServiceOK'
<1>1. UNCHANGED <<tenancy, linked, flagged, admins, members, signin, codes, tokens, denied, history>>
  BY DEF CommitStatus
<1>2. status \in [Users -> {None, TRUE, FALSE}] /\ active \in SUBSET Users
  BY DEF ServiceOK, AccountsOK
<1>3. status' \in [Users -> {None, TRUE, FALSE}] /\ status'[u] = None
      /\ \A x \in Users : x # u => status'[x] = status[x]
  BY <1>2 DEF CommitStatus
<1>4. (status[u] = TRUE /\ active' = active \cup {u}) \/ (status[u] = FALSE /\ active' = active \ {u})
  BY <1>2 DEF CommitStatus
<1>5. status[u] = FALSE => u \in flagged
  BY DEF ServiceOK, AccountsOK
<1>6. active' \in SUBSET Users /\ u \in active' \cup flagged
      /\ \A x \in Users : x # u => (x \in active' <=> x \in active)
  BY <1>2, <1>4, <1>5
<1>7. None # FALSE
  BY SignInAssumption
<1>8. AccountsOK'
  BY <1>1, <1>3, <1>6, <1>7 DEF ServiceOK, AccountsOK
<1>9. TokensOK'
  BY <1>1, SameTokens DEF ServiceOK, history
<1> QED BY <1>1, <1>8, <1>9, AccountsMove

LEMMA SetAdminOK ==
  ASSUME ServiceOK, NEW u \in Users, NEW b \in BOOLEAN, SetAdmin(u, b)
  PROVE  ServiceOK'
<1>1. UNCHANGED <<tenancy, linked, active, flagged, status, members, signin, codes, tokens, history>>
  BY DEF SetAdmin
<1>2. AccountsOK'
  BY <1>1 DEF SetAdmin, ServiceOK, AccountsOK
<1>3. TokensOK'
  BY <1>1, TokensOfThem, DeniedOK DEF SetAdmin, history, ServiceOK, TokensOK
<1> QED BY <1>1, <1>2, <1>3, AccountsMove

LEMMA MembershipMovesOK ==
  ASSUME ServiceOK, NEW u \in Users, NEW w \in Workspaces, MembershipMoves(w, u)
  PROVE  ServiceOK'
<1>1. UNCHANGED <<tenancy, linked, active, flagged, admins, status, signin, codes, tokens, denied, history>>
  BY DEF MembershipMoves
<1>2. members' \in SUBSET (Workspaces \X Users)
  BY DEF MembershipMoves, ServiceOK, AccountsOK
<1>3. AccountsOK'
  BY <1>1, <1>2 DEF ServiceOK, AccountsOK
<1>4. TokensOK'
  BY <1>1, SameTokens DEF ServiceOK, history
<1> QED BY <1>1, <1>3, <1>4, AccountsMove

LEMMA LogoutOK ==
  ASSUME ServiceOK, NEW j \in DOMAIN tokens, logout(j) \/ admin_logout(j)
  PROVE  ServiceOK'
<1>1. UNCHANGED <<tenancy, accounts, signin, codes, tokens, history>>
  BY DEF logout, admin_logout
<1>2. denied' \subseteq DOMAIN tokens
  BY TokensOfThem DEF logout, admin_logout, ServiceOK, TokensOK
<1>3. TokensOK'
  BY <1>1, <1>2, DeniedOK DEF ServiceOK, history
<1> QED BY <1>1, <1>3, SameAccounts, AccountsMove DEF ServiceOK, accounts

LEMMA OrgsMove ==
  ASSUME ServiceOK, OrganizationsNext, UNCHANGED <<accounts, signin, codes, tokens, denied, history>>
  PROVE  ServiceOK'
<1> USE DEF accounts, history
<1> QED BY OrganizationsOK, UsersStay, SameAccounts, SameLinks, SameRequests, SameCodes, SameTokens DEF ServiceOK

LEMMA ChangesOK == ASSUME ServiceOK, Changes PROVE ServiceOK'
  BY OrgsMove, UpdateUserOK, SetAdminOK, MembershipMovesOK, LogoutOK DEF Changes

-----------------------------------------------------------------------------
(* Sign-ins arrive. *)

LEMMA SubjectsOfFlows == ASSUME NEW i \in Identities, NEW flow PROVE Subject(i, flow) \in Subjects
  BY DEF Subject, Subjects

LEMMA EmailsAreUsers == ASSUME NEW i \in Identities, NEW e \in Emails[i] PROVE e \in Users
  BY SignInAssumption

LEMMA ResolvedMaybe == OrgOK => \A u \in Users : resolve_organization(u) \in Maybe(Orgs \cup {Public})
  BY ResolvedOrg DEF Maybe

LEMMA CompleteLoginOK ==
  ASSUME ServiceOK, NEW p \in Procs, NEW i \in Identities, NEW e \in Emails[i], NEW claim,
         NEW flow \in {"user", "onboard"}, _complete_login(p, flow, i, e, claim)
  PROVE  ServiceOK'
<1>1. e \in Users /\ Subject(i, flow) \in Subjects
  BY EmailsAreUsers, SubjectsOfFlows
<1>2. Begin(p, flow, Subject(i, flow), e, resolve_organization(e), None, None)
  BY DEF _complete_login
<1>3. resolve_organization(e) \in Maybe(Orgs \cup {Public}) /\ flow \in Flows /\ flow # "authz" /\ flow # "admin"
  BY <1>1, ResolvedMaybe DEF ServiceOK, Flows
<1> QED BY <1>1, <1>2, <1>3, BeginOK DEF Maybe

LEMMA AdminCallbackOK ==
  ASSUME ServiceOK, NEW p \in Procs, NEW i \in Identities, NEW e \in Emails[i], NEW claim,
         admin_callback(p, i, e, claim)
  PROVE  ServiceOK'
<1>1. e \in Users /\ Subject(i, "admin") \in Subjects
  BY EmailsAreUsers, SubjectsOfFlows
<1>2. /\ AdminEligible(Subject(i, "admin"), e)
      /\ Begin(p, "admin", Subject(i, "admin"), e, resolve_organization(e), None, None)
  BY DEF admin_callback
<1>3. resolve_organization(e) \in Maybe(Orgs \cup {Public}) /\ "admin" \in Flows
  BY <1>1, ResolvedMaybe DEF ServiceOK, Flows
<1> QED BY <1>1, <1>2, <1>3, BeginOK DEF Maybe

LEMMA ResolveOK ==
  ASSUME ServiceOK, NEW p \in Procs, NEW s \in Services, NEW w \in Maybe(Workspaces), NEW i \in Identities,
         NEW e \in Emails[i], NEW claim, NEW aud, resolve(p, s, w, i, e, claim, aud)
  PROVE  ServiceOK'
<1>1. e \in Users /\ Subject(i, "authz") \in Subjects
  BY EmailsAreUsers, SubjectsOfFlows
<1>2. Begin(p, "authz", Subject(i, "authz"), e, resolve_organization(e), s, w)
  BY DEF resolve
<1>3. resolve_organization(e) \in Maybe(Orgs \cup {Public}) /\ "authz" \in Flows
  BY <1>1, ResolvedMaybe DEF ServiceOK, Flows
<1>4. s \in Maybe(Services) /\ s # None
  BY SignInAssumption DEF Maybe
<1> QED BY <1>1, <1>2, <1>3, <1>4, BeginOK

-----------------------------------------------------------------------------
(* Cookies, and what the handlers make of them. *)

Cookie == BrowserTypes /\ NamesOneUser /\ StaysOut

LEMMA MineOK ==
  ASSUME BrowserTypes, NEW t \in Procs, sent[t] # None
  PROVE  t \in Waiting /\ sent[t] \in Sent /\ CookieOK(Mine(t))
  BY DEF BrowserTypes, Waiting, Mine

LEMMA SentFields ==
  ASSUME NEW s \in Sent
  PROVE  /\ s.jar \in Jar /\ s.login \in Maybe(Logins) /\ s.old \in BOOLEAN /\ s.form \in Form
  BY DEF Sent, Form

(* A cookie that names the user the request's cookie named, or nobody. *)
Keeps(j, m) == (j.user = m.user /\ j.csrf = m.csrf) \/ (j.user = None /\ j.csrf = 0)

LEMMA ExtraOK ==
  ASSUME NEW j, CookieOK(j), NEW add \in SUBSET Extras, NEW drop
  PROVE  CookieOK(Extra(j, add, drop)) /\ Keeps(Extra(j, add, drop), j)
  BY DEF CookieOK, Extra, Jar, Keeps

LEMMA ClearOK ==
  ASSUME NEW j, CookieOK(j)
  PROVE  /\ CookieOK(_clear_onboard_session(j)) /\ Keeps(_clear_onboard_session(j), j)
         /\ _clear_onboard_session(j).user = None /\ _clear_onboard_session(j).csrf = 0
  BY DEF CookieOK, _clear_onboard_session, Jar, Keeps, Maybe

LEMMA RoundsOK ==
  ASSUME NEW j, CookieOK(j), NEW rs \in SUBSET Rounds
  PROVE  CookieOK([j EXCEPT !.oauth = rs]) /\ Keeps([j EXCEPT !.oauth = rs], j)
  BY DEF CookieOK, Jar, Keeps

LEMMA IdpOK ==
  ASSUME NEW j, CookieOK(j), NEW l \in Maybe(Logins)
  PROVE  LET m == [j EXCEPT !.idp_redirect = l, !.idp_state = l] IN CookieOK(m) /\ Keeps(m, j)
  BY DEF CookieOK, Jar, Keeps

-----------------------------------------------------------------------------
(* Who holds a user and a token. *)

LEMMA HoldersAre ==
  /\ FormOf(jar) \in Holders
  /\ \A t \in Procs : page[t] \in Holders
  /\ \A t \in Waiting : FormOf(sent[t].jar) \in Holders /\ sent[t].form \in Holders
  BY DEF Holders

LEMMA FewerHolders ==
  ASSUME NamesOneUser, \A h \in Holders' : h \in Holders \/ h.csrf = 0
  PROVE  NamesOneUser'
  BY DEF NamesOneUser

LEMMA KeepsHolder ==
  ASSUME NEW j, NEW m, Keeps(j, m), FormOf(m) \in Holders
  PROVE  FormOf(j) \in Holders \/ FormOf(j).csrf = 0
  BY DEF Keeps, FormOf

LEMMA HoldersThen ==
  ASSUME NEW h \in Holders'
  PROVE  \/ h = FormOf(jar') \/ \E t \in Procs : h = page'[t]
         \/ \E t \in Procs : sent'[t] # None /\ (h = FormOf(sent'[t].jar) \/ h = sent'[t].form)
  BY DEF Holders, Waiting, FormOf

(* A request is answered, with a cookie or without. *)
LEMMA AnsweredOK ==
  ASSUME Cookie, NEW t \in Procs, sent[t] # None, Answered(t), UNCHANGED <<page, out>>
  PROVE  Cookie'
<1> USE DEF Cookie
<1>1. sent' \in [Procs -> Sent \cup {None}] /\ sent'[t] = None /\ \A x \in Procs : x # t => sent'[x] = sent[x]
  BY DEF BrowserTypes, Answered
<1>2. jar' = jar /\ page' = page /\ revived' = revived /\ out' = out
  BY DEF Answered
<1>3. BrowserTypes'
  BY <1>1, <1>2 DEF BrowserTypes, Waiting, CookieOK
<1>4. \A h \in Holders' : h \in Holders \/ h.csrf = 0
  BY <1>1, <1>2, HoldersThen, HoldersAre DEF Waiting
<1>5. NamesOneUser'
  BY <1>4, FewerHolders
<1>6. StaysOut'
  BY <1>1, <1>2 DEF StaysOut, Waiting
<1> QED BY <1>3, <1>5, <1>6

LEMMA AnsweredWithOK ==
  ASSUME Cookie, NEW t \in Procs, sent[t] # None, NEW j, CookieOK(j), Keeps(j, Mine(t)), AnsweredWith(t, j),
         UNCHANGED out, UNCHANGED page \/ page' = [page EXCEPT ![t] = FormOf(Mine(t))]
  PROVE  Cookie'
<1> USE DEF Cookie
<1>0. t \in Waiting /\ sent[t] \in Sent /\ CookieOK(Mine(t))
  BY MineOK
<1>1. sent' \in [Procs -> Sent \cup {None}] /\ sent'[t] = None /\ \A x \in Procs : x # t => sent'[x] = sent[x]
  BY DEF BrowserTypes, AnsweredWith
<1>2. jar' = j /\ out' = out /\ revived' = (revived \/ (sent[t].old /\ j.user # None))
  BY DEF AnsweredWith
<1>3. FormOf(Mine(t)) \in Holders /\ FormOf(Mine(t)) \in Form
  BY <1>0, HoldersAre DEF Mine, FormOf, Form, CookieOK, Jar
<1>4. page' \in [Procs -> Form] /\ \A x \in Procs : page'[x] \in Holders
  <2>1. page \in [Procs -> Form] /\ \A x \in Procs : page[x] \in Holders
    BY HoldersAre DEF BrowserTypes
  <2>2. CASE UNCHANGED page
    BY <2>1, <2>2
  <2>3. CASE page' = [page EXCEPT ![t] = FormOf(Mine(t))]
    BY <1>3, <2>1, <2>3
  <2> QED BY <2>2, <2>3
<1>5. BrowserTypes'
  <2>1. CookieOK(jar)' /\ \A x \in Waiting' : CookieOK(sent[x].jar)'
    BY <1>1, <1>2 DEF BrowserTypes, Waiting, CookieOK
  <2>2. sent[t].old \in BOOLEAN
    BY <1>0 DEF Sent
  <2>3. revived' \in BOOLEAN /\ out' \in BOOLEAN
    BY <1>2, <2>2 DEF BrowserTypes
  <2> QED BY <1>1, <1>4, <2>1, <2>3 DEF BrowserTypes
<1>6. \A h \in Holders' : h \in Holders \/ h.csrf = 0
  BY <1>1, <1>2, <1>3, <1>4, KeepsHolder, HoldersThen, HoldersAre DEF Waiting
<1>7. NamesOneUser'
  BY <1>6, FewerHolders
<1>8. ASSUME out', ~revived'
      PROVE  jar'.user = None /\ \A x \in Waiting' : sent'[x].old \/ sent'[x].jar.user = None
  <2>1. out /\ ~revived /\ (sent[t].old => j.user = None)
    <3>1. revived' <=> revived \/ (sent[t].old /\ j.user # None)
      BY <1>2
    <3>2. ~revived /\ ~(sent[t].old /\ j.user # None)
      BY <1>8, <3>1
    <3> QED BY <1>2, <1>8, <3>2
  <2>2. \A x \in Waiting : sent[x].old \/ sent[x].jar.user = None
    BY <2>1 DEF StaysOut
  <2>3. j.user = None
    BY <1>0, <2>1, <2>2 DEF Keeps, Mine
  <2> QED BY <1>1, <1>2, <2>2, <2>3 DEF Waiting
<1>9. StaysOut'
  BY <1>8 DEF StaysOut
<1> QED BY <1>5, <1>7, <1>9

-----------------------------------------------------------------------------
(* There is a token that nobody holds. *)

LEMMA ImageBound ==
  ASSUME NEW S, IsFiniteSet(S), NEW f, DOMAIN f = S
  PROVE  LET T == {f[x] : x \in S} IN IsFiniteSet(T) /\ Cardinality(T) <= Cardinality(S)
<1> DEFINE T == {f[x] : x \in S}
           g == [x \in S |-> f[x]]
<1>1. g \in Surjection(S, T)
  BY DEF Surjection
<1> HIDE DEF T, g
<1>2. IsFiniteSet(T) /\ Cardinality(T) <= Cardinality(S)
  BY <1>1, FS_Surjection
<1> QED BY <1>2 DEF T

LEMMA UnionBound ==
  ASSUME NEW S, IsFiniteSet(S), NEW T, IsFiniteSet(T), NEW m \in Nat, NEW n \in Nat,
         Cardinality(S) <= m, Cardinality(T) <= n
  PROVE  IsFiniteSet(S \cup T) /\ Cardinality(S \cup T) <= m + n
<1>1. IsFiniteSet(S \cap T)
  BY FS_Intersection
<1>2. Cardinality(S) \in Nat /\ Cardinality(T) \in Nat /\ Cardinality(S \cap T) \in Nat
  BY <1>1, FS_CardinalityType
<1>3. IsFiniteSet(S \cup T) /\ Cardinality(S \cup T) = Cardinality(S) + Cardinality(T) - Cardinality(S \cap T)
  BY FS_Union
<1> QED BY <1>2, <1>3

LEMMA InUseIsSmall == IsFiniteSet(InUse) /\ Cardinality(InUse) <= 3 * Cardinality(Procs) + 1
<1> DEFINE n == Cardinality(Procs)
           W == {x \in Procs : sent[x] # None}
           pages == [t \in Procs |-> page[t].csrf]
           jars == [t \in W |-> sent[t].jar.csrf]
           forms == [t \in W |-> sent[t].form.csrf]
           A == {pages[t] : t \in Procs}
           B == {jars[t] : t \in W}
           C == {forms[t] : t \in W}
<1>1. IsFiniteSet(Procs) /\ n \in Nat
  BY SignInAssumption, FS_CardinalityType
<1>2. IsFiniteSet(W) /\ Cardinality(W) <= n /\ Cardinality(W) \in Nat
  BY <1>1, FS_Subset, FS_CardinalityType
<1>3. IsFiniteSet(A) /\ Cardinality(A) <= n
  <2>1. DOMAIN pages = Procs
    OBVIOUS
  <2> HIDE DEF pages
  <2> QED BY <1>1, <2>1, ImageBound
<1>4. IsFiniteSet(B) /\ Cardinality(B) <= n
  <2>1. DOMAIN jars = W
    OBVIOUS
  <2> HIDE DEF jars, W
  <2>2. IsFiniteSet(B) /\ Cardinality(B) <= Cardinality(W)
    BY <1>2, <2>1, ImageBound
  <2>3. Cardinality(B) \in Nat
    BY <2>2, FS_CardinalityType
  <2> HIDE DEF B, n
  <2> QED BY <1>1, <1>2, <2>2, <2>3
<1>5. IsFiniteSet(C) /\ Cardinality(C) <= n
  <2>1. DOMAIN forms = W
    OBVIOUS
  <2> HIDE DEF forms, W
  <2>2. IsFiniteSet(C) /\ Cardinality(C) <= Cardinality(W)
    BY <1>2, <2>1, ImageBound
  <2>3. Cardinality(C) \in Nat
    BY <2>2, FS_CardinalityType
  <2> HIDE DEF C, n
  <2> QED BY <1>1, <1>2, <2>2, <2>3
<1>6. InUse = {jar.csrf} \cup (A \cup (B \cup C))
  <2>1. A = {page[t].csrf : t \in Procs}
    OBVIOUS
  <2>2. B \cup C = UNION {{sent[t].jar.csrf, sent[t].form.csrf} : t \in W}
    <3>1. B = {sent[t].jar.csrf : t \in W} /\ C = {sent[t].form.csrf : t \in W}
      OBVIOUS
    <3> HIDE DEF B, C, W
    <3> QED BY <3>1
  <2> HIDE DEF A, B, C
  <2> QED BY <2>1, <2>2 DEF InUse
<1> HIDE DEF A, B, C, n
<1>7. IsFiniteSet(B \cup C) /\ Cardinality(B \cup C) <= n + n
  BY <1>1, <1>4, <1>5, UnionBound
<1>8. n + n \in Nat /\ n + (n + n) \in Nat /\ 1 \in Nat
  BY <1>1
<1>9. IsFiniteSet(A \cup (B \cup C)) /\ Cardinality(A \cup (B \cup C)) <= n + (n + n)
  BY <1>1, <1>3, <1>7, <1>8, UnionBound
<1>10. IsFiniteSet({jar.csrf}) /\ Cardinality({jar.csrf}) <= 1
  <2>1. IsFiniteSet({jar.csrf}) /\ Cardinality({jar.csrf}) = 1
    BY FS_Singleton, Zenon
  <2> QED BY <2>1
<1>11. IsFiniteSet(InUse) /\ Cardinality(InUse) <= 1 + (n + (n + n))
  BY <1>6, <1>8, <1>9, <1>10, UnionBound
<1>12. 1 + (n + (n + n)) = 3 * n + 1
  BY <1>1
<1> QED BY <1>11, <1>12 DEF n

LEMMA FreshToken == \A t : NewToken(t) \in Nat \ {0} /\ NewToken(t) \notin InUse
<1> DEFINE n == Cardinality(Procs)
           N == 3 * n + 2
<1>1. n \in Nat /\ N \in Int /\ N = (3 * n + 1) + 1 /\ ~(1 > N) /\ N - 1 + 1 = N
  BY SignInAssumption, FS_CardinalityType
<1>2. Cardinality(InUse) <= 3 * n + 1 /\ IsFiniteSet(InUse) /\ Cardinality(InUse) \in Nat
  BY InUseIsSmall, FS_CardinalityType
<1> HIDE DEF n
<1>3. \E m \in 1 .. N : m \notin InUse
  <2> SUFFICES ASSUME \A m \in 1 .. N : m \in InUse PROVE FALSE
    OBVIOUS
  <2>1. 1 .. N \in SUBSET InUse
    OBVIOUS
  <2> HIDE DEF N
  <2>2. Cardinality(1 .. N) = N
    BY <1>1, FS_Interval
  <2>3. Cardinality(1 .. N) <= Cardinality(InUse)
    BY <1>2, <2>1, FS_Subset
  <2> QED BY <1>1, <1>2, <2>2, <2>3
<1>4. \A t : NewToken(t) = CHOOSE m \in 1 .. N : m \notin InUse
  BY DEF NewToken, n
<1> HIDE DEF N
<1>5. \A t : NewToken(t) \in 1 .. N /\ NewToken(t) \notin InUse
  BY <1>3, <1>4
<1> QED BY <1>1, <1>5

LEMMA HeldIsInUse == \A h \in Holders : h.csrf \in InUse
  BY DEF Holders, InUse, FormOf, Waiting


LEMMA SendOK ==
  ASSUME Cookie, NEW t \in Procs, NEW call \in Calls, NEW l \in Maybe(Logins), Send(t, call, l)
  PROVE  Cookie'
<1> USE DEF Cookie
<1> DEFINE request == [call |-> call, jar |-> jar, login |-> l, form |-> page[t], old |-> FALSE]
<1>1. request \in Sent
  <2>1. jar \in Jar /\ page[t] \in Form
    BY DEF BrowserTypes, CookieOK
  <2> QED BY <2>1 DEF Sent, Form
<1>2. /\ request.jar = jar /\ request.form = page[t] /\ request.old = FALSE
  OBVIOUS
<1>3. sent[t] = None /\ sent' = [sent EXCEPT ![t] = request] /\ UNCHANGED <<jar, page, out, revived>>
  BY DEF Send
<1> HIDE DEF request
<1>4. sent' \in [Procs -> Sent \cup {None}] /\ sent'[t] = request /\ \A x \in Procs : x # t => sent'[x] = sent[x]
  BY <1>1, <1>3 DEF BrowserTypes
<1>5. BrowserTypes'
  BY <1>2, <1>3, <1>4 DEF BrowserTypes, Waiting, CookieOK
<1>6. \A h \in Holders' : h \in Holders \/ h.csrf = 0
  BY <1>2, <1>3, <1>4, HoldersThen, HoldersAre DEF Waiting
<1>7. NamesOneUser'
  BY <1>6, FewerHolders
<1>8. StaysOut'
  BY <1>2, <1>3, <1>4 DEF StaysOut, Waiting
<1> QED BY <1>5, <1>7, <1>8

LEMMA SigningOK ==
  ASSUME Cookie, NEW t \in Procs, sent[t] # None, Signing(t)
  PROVE  Cookie'
<1> USE DEF Cookie
<1> DEFINE request == [sent[t] EXCEPT !.call = "signing"]
<1>1. sent[t] \in Sent /\ t \in Waiting
  BY MineOK
<1>2. request \in Sent /\ request.jar = sent[t].jar /\ request.form = sent[t].form /\ request.old = sent[t].old
  BY <1>1 DEF Sent, Calls
<1>3. sent' = [sent EXCEPT ![t] = request] /\ UNCHANGED <<jar, page, out, revived>>
  BY DEF Signing
<1> HIDE DEF request
<1>4. sent' \in [Procs -> Sent \cup {None}] /\ sent'[t] = request /\ \A x \in Procs : x # t => sent'[x] = sent[x]
  BY <1>2, <1>3 DEF BrowserTypes
<1>5. BrowserTypes'
  BY <1>1, <1>2, <1>3, <1>4 DEF BrowserTypes, Waiting, CookieOK
<1>6. \A h \in Holders' : h \in Holders \/ h.csrf = 0
  BY <1>1, <1>2, <1>3, <1>4, HoldersThen, HoldersAre DEF Waiting
<1>7. NamesOneUser'
  BY <1>6, FewerHolders
<1>8. StaysOut'
  BY <1>1, <1>2, <1>3, <1>4 DEF StaysOut, Waiting
<1> QED BY <1>5, <1>7, <1>8

LEMMA StillOK ==
  ASSUME Cookie, UNCHANGED <<jar, sent, page, out, revived>>
  PROVE  Cookie'
<1>1. BrowserTypes'
  BY DEF Cookie, BrowserTypes, CookieOK, Waiting
<1>2. NamesOneUser' /\ StaysOut'
  BY DEF Cookie, NamesOneUser, StaysOut, Holders, Waiting, FormOf
<1> QED BY <1>1, <1>2 DEF Cookie

(* A sign-in leaves a user and a token that nobody holds. *)
LEMMA SignedInOK ==
  ASSUME Cookie, ServiceOK, NEW t \in Procs, SignedIn(t)
  PROVE  Cookie'
<1> USE DEF Cookie
<1> DEFINE n == NewToken(t)
           u == signin[t].user
           d == Done(t, "onboard")
           e == Extra(d, {}, {"next"})
           j == [e EXCEPT !.user = u, !.csrf = n]
<1>1. sent[t] # None /\ signin[t].pc = "done" /\ AnsweredWith(t, j) /\ out' = FALSE /\ page' = page
  BY DEF SignedIn, Handles, Finished
<1>2. u \in Users
  BY <1>1, ServedFields
<1>3. n \in Nat /\ n \notin InUse
  BY FreshToken
<1> HIDE DEF n, u
<1>4. CookieOK(Mine(t)) /\ t \in Waiting
  BY <1>1, MineOK
<1>5. CookieOK(d)
  <2>1. Mine(t).oauth \ {Round(t, "onboard")} \in SUBSET Rounds
    BY <1>4 DEF CookieOK, Jar
  <2> QED BY <1>4, <2>1, RoundsOK DEF Done
<1>6. CookieOK(e)
  <2> HIDE DEF d
  <2> QED BY <1>5, ExtraOK
<1>7. CookieOK(j) /\ j.user = u /\ j.csrf = n
  <2> HIDE DEF e
  <2> QED BY <1>2, <1>3, <1>6 DEF CookieOK, Jar, Maybe
<1> HIDE DEF j
<1>8. sent' \in [Procs -> Sent \cup {None}] /\ sent'[t] = None /\ \A x \in Procs : x # t => sent'[x] = sent[x]
  BY <1>1 DEF BrowserTypes, AnsweredWith
<1>9. jar' = j /\ revived' \in BOOLEAN
  BY <1>1 DEF AnsweredWith
<1>10. BrowserTypes'
  BY <1>1, <1>7, <1>8, <1>9 DEF BrowserTypes, Waiting, CookieOK
<1>11. \A h \in Holders' : h = FormOf(j) \/ (h \in Holders /\ h.csrf # n)
  <2>1. \A h \in Holders' : h = FormOf(j) \/ h \in Holders
    BY <1>1, <1>8, <1>9, HoldersThen, HoldersAre DEF Waiting
  <2> QED BY <1>3, <2>1, HeldIsInUse
<1>12. FormOf(j).csrf = n
  BY <1>7 DEF FormOf
<1>13. NamesOneUser'
  BY <1>11, <1>12 DEF NamesOneUser
<1>14. StaysOut'
  BY <1>1 DEF StaysOut
<1> QED BY <1>10, <1>13, <1>14

(* A sign-out clears the cookie; the requests on their way are old from then. *)
LEMMA SignedOutOK ==
  ASSUME Cookie, NEW t \in Procs, sent[t] # None, jar' = _clear_onboard_session(Mine(t)), out' = TRUE,
         sent' = [x \in Procs |-> IF x = t \/ sent[x] = None THEN None ELSE [sent[x] EXCEPT !.old = TRUE]],
         UNCHANGED <<page, revived>>
  PROVE  Cookie'
<1> USE DEF Cookie
<1>1. CookieOK(Mine(t)) /\ t \in Waiting
  BY MineOK
<1>2. CookieOK(jar)' /\ jar'.user = None /\ jar'.csrf = 0
  <2>1. \A j : CookieOK(j) /\ jar' = j => CookieOK(jar)'
    BY DEF CookieOK
  <2> QED BY <1>1, <2>1, ClearOK
<1>3. ASSUME NEW x \in Procs, sent'[x] # None
      PROVE  /\ x \in Waiting /\ sent'[x] \in Sent /\ sent'[x].old
             /\ sent'[x].jar = sent[x].jar /\ sent'[x].form = sent[x].form
  <2>1. sent[x] # None /\ sent'[x] = [sent[x] EXCEPT !.old = TRUE]
    BY <1>3
  <2>2. sent[x] \in Sent
    BY <2>1 DEF BrowserTypes
  <2> QED BY <2>1, <2>2 DEF Sent, Waiting
<1>4. sent' \in [Procs -> Sent \cup {None}]
  BY <1>3
<1>5. BrowserTypes'
  BY <1>2, <1>3, <1>4 DEF BrowserTypes, Waiting, CookieOK
<1>6. \A h \in Holders' : h \in Holders \/ h.csrf = 0
  <2>1. FormOf(jar').csrf = 0
    BY <1>2 DEF FormOf
  <2> QED BY <1>3, <2>1, HoldersThen, HoldersAre
<1>7. NamesOneUser'
  BY <1>6, FewerHolders
<1>8. StaysOut'
  BY <1>2, <1>3 DEF StaysOut, Waiting
<1> QED BY <1>5, <1>7, <1>8

-----------------------------------------------------------------------------
(* THE HANDLERS *)

LEMMA RemembersOK ==
  ASSUME NEW j, CookieOK(j), NEW l \in Maybe(Logins)
  PROVE  /\ CookieOK(Remembered(j, l)) /\ Keeps(Remembered(j, l), j)
         /\ Remembered(j, l).state \in Maybe(Logins) /\ Remembered(j, l).oauth \in SUBSET Rounds
  BY DEF CookieOK, Jar, Keeps, Remembered

LEMMA StateOK ==
  ASSUME NEW j, CookieOK(j), NEW st \in Maybe(Logins), NEW rs \in SUBSET Rounds
  PROVE  LET m == [j EXCEPT !.state = st, !.oauth = rs] IN CookieOK(m) /\ Keeps(m, j)
  BY DEF CookieOK, Jar, Keeps

LEMMA PopsOK ==
  ASSUME NEW j, CookieOK(j)
  PROVE  LET m == [j EXCEPT !.redirect = None, !.challenge = None, !.app = None, !.state = None]
         IN  CookieOK(m) /\ Keeps(m, j)
  BY DEF CookieOK, Jar, Keeps, Maybe

LEMMA KeepsTwice == ASSUME NEW i, NEW j, NEW m, Keeps(i, j), Keeps(j, m) PROVE Keeps(i, m)
  BY DEF Keeps

LEMMA DoneOK ==
  ASSUME NEW t \in Procs, CookieOK(Mine(t)), NEW flow
  PROVE  CookieOK(Done(t, flow)) /\ Keeps(Done(t, flow), Mine(t))
<1>1. Mine(t).oauth \ {Round(t, flow)} \in SUBSET Rounds
  BY DEF CookieOK, Jar
<1> QED BY <1>1, RoundsOK DEF Done

(* What a handler of the pages leaves alone. *)
LEMMA PagesOK ==
  ASSUME IInv, Cookie', UNCHANGED identity, UNCHANGED <<enabledApps, misled, delivered, arrived, on>>
  PROVE  IInv'
<1>1. ServiceOK'
  BY SameService DEF IInv
<1>2. CountersOK' /\ misled' = {} /\ TokensGoHome'
  BY DEF IInv, BrowserOK, CountersOK, TokensGoHome
<1> QED BY <1>1, <1>2 DEF IInv, BrowserOK, Cookie

LEMMA ServedOK ==
  ASSUME IInv, ServiceOK', Cookie', UNCHANGED <<enabledApps, misled, delivered, arrived, on>>
  PROVE  IInv'
<1>1. CountersOK' /\ misled' = {} /\ TokensGoHome'
  BY DEF IInv, BrowserOK, CountersOK, TokensGoHome
<1> QED BY <1>1 DEF IInv, BrowserOK, Cookie

LEMMA IsCookie == IInv => Cookie /\ ServiceOK
  BY DEF IInv, BrowserOK, Cookie

LEMMA HandledOK ==
  ASSUME IInv, NEW t \in Procs, sent[t] # None
  PROVE  /\ t \in Waiting /\ sent[t] \in Sent /\ CookieOK(Mine(t)) /\ sent[t].login \in Maybe(Logins)
         /\ sent[t].form \in Form /\ Mine(t) \in Jar /\ Keeps(Mine(t), Mine(t))
<1>1. t \in Waiting /\ sent[t] \in Sent /\ CookieOK(Mine(t))
  BY MineOK, IsCookie DEF Cookie
<1> QED BY <1>1, SentFields DEF CookieOK, Keeps

LEMMA LoginHandlerOK ==
  ASSUME IInv, NEW t \in Procs, login(t), UNCHANGED <<arrived, on>>
  PROVE  IInv'
<1> DEFINE l == sent[t].login
           r == Remembered(Mine(t), l)
           st == IF l \in WithState THEN l ELSE r.state
           rs == r.oauth \cup {[flow |-> "user", login |-> l]}
           j == [r EXCEPT !.state = st, !.oauth = rs]
<1>1. sent[t] # None
  BY DEF login, Handles
<1>2. CookieOK(Mine(t)) /\ l \in Maybe(Logins)
  BY <1>1, HandledOK
<1>3. AnsweredWith(t, j) \/ Answered(t)
  BY DEF login
<1>4. UNCHANGED <<identity, page, enabledApps, out, misled, delivered>>
  BY DEF login
<1> HIDE DEF l
<1>5. CookieOK(r) /\ Keeps(r, Mine(t)) /\ r.state \in Maybe(Logins) /\ r.oauth \in SUBSET Rounds
  BY <1>2, RemembersOK
<1> HIDE DEF r
<1>6. st \in Maybe(Logins) /\ rs \in SUBSET Rounds
  BY <1>2, <1>5 DEF Rounds
<1> HIDE DEF st, rs
<1>7. CookieOK(j) /\ Keeps(j, r)
  BY <1>5, <1>6, StateOK
<1> HIDE DEF j
<1>8. Keeps(j, Mine(t))
  BY <1>5, <1>7, KeepsTwice
<1>9. Cookie'
  BY <1>1, <1>3, <1>4, <1>7, <1>8, AnsweredOK, AnsweredWithOK, IsCookie
<1> QED BY <1>4, <1>9, PagesOK

LEMMA CallbackOK ==
  ASSUME IInv, NEW t \in Procs, NEW i \in Identities, NEW e \in Emails[i], NEW claim,
         callback(t, i, e, claim) \/ onboard_callback(t, i, e, claim), UNCHANGED <<arrived, on>>
  PROVE  IInv'
<1>1. sent[t] # None /\ Signing(t)
  BY DEF callback, onboard_callback, Handles
<1>2. PICK flow \in {"user", "onboard"} : _complete_login(t, flow, i, e, claim)
  BY DEF callback, onboard_callback
<1>3. ServiceOK'
  BY <1>2, CompleteLoginOK, IsCookie
<1>4. Cookie'
  BY <1>1, SigningOK, IsCookie
<1> QED BY <1>1, <1>3, <1>4, ServedOK DEF Signing

LEMMA CallbackRedirectsOK ==
  ASSUME IInv, NEW t \in Procs, NEW c \in Codes, CallbackRedirects(t, c), UNCHANGED <<arrived, on>>
  PROVE  IInv'
<1> DEFINE d == Done(t, "user")
           l == Mine(t).redirect
           j == Popped(t)
<1>1. sent[t] # None /\ signin[t].pc = "done" /\ Become(t, Idle)
  BY DEF CallbackRedirects, Handles, Finished
<1>2. AnsweredWith(t, j) /\ UNCHANGED <<tenancy, accounts, tokens, denied, history, page, enabledApps, out, misled, delivered>>
  BY DEF CallbackRedirects
<1>3. CookieOK(Mine(t)) /\ l \in Maybe(Logins) /\ Mine(t).challenge = l /\ Mine(t).app = l
  BY <1>1, HandledOK DEF CookieOK, Jar
<1>4. create_auth_code(c, signin[t].user, l, l, l) \/ UNCHANGED codes
  BY <1>3 DEF CallbackRedirects
<1>5. ServiceOK'
  <2> HIDE DEF l
  <2> QED BY <1>1, <1>2, <1>3, <1>4, CallbackEndsOK, IsCookie
<1>6. CookieOK(d) /\ Keeps(d, Mine(t))
  BY <1>3, DoneOK
<1>7. CookieOK(j) /\ Keeps(j, d)
  <2>1. j = [d EXCEPT !.redirect = None, !.challenge = None, !.app = None, !.state = None]
    BY DEF Popped
  <2> HIDE DEF d, j
  <2> QED BY <1>6, <2>1, PopsOK
<1>8. Keeps(j, Mine(t))
  BY <1>6, <1>7, KeepsTwice
<1> HIDE DEF j, d
<1>9. Cookie'
  BY <1>1, <1>2, <1>7, <1>8, AnsweredWithOK, IsCookie
<1> QED BY <1>2, <1>5, <1>9, ServedOK

LEMMA CallbackFailsOK ==
  ASSUME IInv, NEW t \in Procs, CallbackFails(t), UNCHANGED <<arrived, on>>
  PROVE  IInv'
<1>1. sent[t] # None /\ Become(t, Idle)
  BY DEF CallbackFails, Handles
<1>2. UNCHANGED <<tenancy, accounts, codes, tokens, denied, history, page, enabledApps, out, misled, delivered>>
  BY DEF CallbackFails
<1>3. ServiceOK'
  BY <1>1, <1>2, EndsOK, IsCookie
<1>4. CASE Answered(t)
  <2>1. Cookie'
    BY <1>1, <1>2, <1>4, AnsweredOK, IsCookie
  <2> QED BY <1>2, <1>3, <2>1, ServedOK
<1>5. CASE \E flow \in {"user", "onboard"} : AnsweredWith(t, Done(t, flow))
  <2>1. PICK flow \in {"user", "onboard"} : AnsweredWith(t, Done(t, flow))
    BY <1>5
  <2>2. CookieOK(Done(t, flow)) /\ Keeps(Done(t, flow), Mine(t))
    BY <1>1, HandledOK, DoneOK
  <2>3. Cookie'
    BY <1>1, <1>2, <2>1, <2>2, AnsweredWithOK, IsCookie
  <2> QED BY <1>2, <1>3, <2>3, ServedOK
<1> QED BY <1>4, <1>5 DEF CallbackFails

LEMMA EntryOK ==
  ASSUME IInv, NEW t \in Procs, NEW given \in SUBSET Extras, entry(t, given), UNCHANGED <<arrived, on>>
  PROVE  IInv'
<1> DEFINE a == Extra(Mine(t), given, _RESET_KEYS)
           b == Extra(Mine(t), {}, {"next"})
           c == _clear_onboard_session(Mine(t))
<1>1. sent[t] # None
  BY DEF entry, Handles
<1>2. AnsweredWith(t, a) \/ Answered(t) \/ AnsweredWith(t, b) \/ AnsweredWith(t, c)
  BY DEF entry
<1>3. UNCHANGED <<identity, page, enabledApps, out, misled, delivered>>
  BY DEF entry
<1>4. \A j \in {a, b, c} : CookieOK(j) /\ Keeps(j, Mine(t))
  BY <1>1, HandledOK, ExtraOK, ClearOK
<1> HIDE DEF a, b, c
<1>5. Cookie'
  BY <1>1, <1>2, <1>3, <1>4, AnsweredOK, AnsweredWithOK, IsCookie
<1> QED BY <1>3, <1>5, PagesOK

LEMMA OnboardLoginOK ==
  ASSUME IInv, NEW t \in Procs, onboard_login(t), UNCHANGED <<arrived, on>>
  PROVE  IInv'
<1> DEFINE rs == Mine(t).oauth \cup {[flow |-> "onboard", login |-> None]}
           j == [Mine(t) EXCEPT !.oauth = rs]
<1>1. sent[t] # None /\ AnsweredWith(t, j) /\ UNCHANGED <<identity, page, enabledApps, out, misled, delivered>>
  BY DEF onboard_login, Handles
<1>2. CookieOK(Mine(t)) /\ rs \in SUBSET Rounds
  BY <1>1, HandledOK DEF Jar, Rounds, Maybe
<1> HIDE DEF rs
<1>3. CookieOK(j) /\ Keeps(j, Mine(t))
  BY <1>2, RoundsOK
<1> HIDE DEF j
<1>4. Cookie'
  BY <1>1, <1>3, AnsweredWithOK, IsCookie
<1> QED BY <1>1, <1>4, PagesOK

LEMMA ShowsOK ==
  ASSUME IInv, NEW t \in Procs, NEW drop, Shows(t, drop), UNCHANGED <<arrived, on>>
  PROVE  IInv'
<1> DEFINE b == Extra(Mine(t), {}, drop \cup {"flash"})
           c == _clear_onboard_session(Mine(t))
<1>1. sent[t] # None
  BY DEF Shows, Handles
<1>2. \/ Answered(t) /\ UNCHANGED page
      \/ AnsweredWith(t, c) /\ UNCHANGED page
      \/ AnsweredWith(t, b) /\ page' = [page EXCEPT ![t] = FormOf(Mine(t))]
  BY DEF Shows, FormOf
<1>3. UNCHANGED <<identity, enabledApps, out, misled, delivered>>
  BY DEF Shows
<1>4. CookieOK(b) /\ Keeps(b, Mine(t)) /\ CookieOK(c) /\ Keeps(c, Mine(t))
  BY <1>1, HandledOK, ExtraOK, ClearOK
<1> HIDE DEF b, c
<1>5. CASE Answered(t) /\ UNCHANGED page
  BY <1>1, <1>3, <1>5, AnsweredOK, IsCookie, PagesOK
<1>6. CASE AnsweredWith(t, c) /\ UNCHANGED page
  BY <1>1, <1>3, <1>4, <1>6, AnsweredWithOK, IsCookie, PagesOK
<1>7. CASE AnsweredWith(t, b) /\ page' = [page EXCEPT ![t] = FormOf(Mine(t))]
  BY <1>1, <1>3, <1>4, <1>7, AnsweredWithOK, IsCookie, PagesOK
<1> QED BY <1>2, <1>5, <1>6, <1>7

(* The token of a form that passes is the cookie's, and it names one user. *)
LEMMA FormsAgree ==
  ASSUME IInv, NEW t \in Procs, sent[t] # None, _csrf_ok(t)
  PROVE  sent[t].form.user = Mine(t).user
<1>1. sent[t].form \in Holders /\ FormOf(Mine(t)) \in Holders
  BY HandledOK, HoldersAre DEF Mine
<1>2. FormOf(Mine(t)).user = Mine(t).user /\ FormOf(Mine(t)).csrf = Mine(t).csrf
  BY DEF FormOf
<1> QED BY <1>1, <1>2 DEF IInv, BrowserOK, NamesOneUser, _csrf_ok

LEMMA FormOK ==
  ASSUME IInv, NEW t \in Procs, NEW says \in SUBSET Extras, form(t, says), UNCHANGED <<arrived, on>>
  PROVE  IInv'
<1> DEFINE b == Extra(Mine(t), says, {"code"})
           c == _clear_onboard_session(Mine(t))
<1>1. sent[t] # None
  BY DEF form, Handles
<1>2. AnsweredWith(t, c) \/ AnsweredWith(t, Mine(t)) \/ AnsweredWith(t, b)
  BY DEF form
<1>3. UNCHANGED <<identity, page, enabledApps, out, delivered>>
  BY DEF form
<1>4. misled' = misled
  BY <1>1, FormsAgree DEF form
<1>5. \A j \in {b, c, Mine(t)} : CookieOK(j) /\ Keeps(j, Mine(t))
  BY <1>1, HandledOK, ExtraOK, ClearOK
<1> HIDE DEF b, c
<1>6. Cookie'
  BY <1>1, <1>2, <1>3, <1>5, AnsweredWithOK, IsCookie
<1> QED BY <1>3, <1>4, <1>6, PagesOK

LEMMA LogoutPageOK ==
  ASSUME IInv, NEW t \in Procs, logout_page(t), UNCHANGED <<arrived, on>>
  PROVE  IInv'
<1>1. sent[t] # None
  BY DEF logout_page, Handles
<1>2. UNCHANGED <<identity, page, enabledApps, misled, delivered>>
  BY DEF logout_page
<1>3. CASE _session_user(t) /\ ~_csrf_ok(t)
  <2>1. AnsweredWith(t, Mine(t)) /\ UNCHANGED out
    BY <1>3 DEF logout_page
  <2>2. CookieOK(Mine(t)) /\ Keeps(Mine(t), Mine(t))
    BY <1>1, HandledOK
  <2>3. Cookie'
    BY <1>1, <1>2, <2>1, <2>2, AnsweredWithOK, IsCookie
  <2> QED BY <1>2, <2>3, PagesOK
<1>4. CASE ~(_session_user(t) /\ ~_csrf_ok(t))
  <2>1. /\ jar' = _clear_onboard_session(Mine(t)) /\ out' = TRUE /\ UNCHANGED revived
        /\ sent' = [x \in Procs |-> IF x = t \/ sent[x] = None THEN None ELSE [sent[x] EXCEPT !.old = TRUE]]
    BY <1>4 DEF logout_page
  <2>2. Cookie'
    BY <1>1, <1>2, <2>1, SignedOutOK, IsCookie
  <2> QED BY <1>2, <2>2, PagesOK
<1> QED BY <1>3, <1>4

LEMMA IdpLoginOK ==
  ASSUME IInv, NEW t \in Procs, idp_login(t), UNCHANGED <<arrived, on>>
  PROVE  IInv'
<1> DEFINE l == sent[t].login
           j == [Mine(t) EXCEPT !.idp_redirect = l, !.idp_state = l]
<1>1. sent[t] # None /\ AnsweredWith(t, j) /\ UNCHANGED <<identity, page, enabledApps, out, misled, delivered>>
  BY DEF idp_login, Handles
<1>2. CookieOK(Mine(t)) /\ l \in Maybe(Logins)
  BY <1>1, HandledOK
<1> HIDE DEF l
<1>3. CookieOK(j) /\ Keeps(j, Mine(t))
  BY <1>2, IdpOK
<1> HIDE DEF j
<1>4. Cookie'
  BY <1>1, <1>3, AnsweredWithOK, IsCookie
<1> QED BY <1>1, <1>4, PagesOK

LEMMA IdpCallbackOK ==
  ASSUME IInv, NEW t \in Procs, idp_callback(t), UNCHANGED <<arrived, on>>
  PROVE  IInv'
<1> DEFINE none == None
           j == [Mine(t) EXCEPT !.idp_redirect = none, !.idp_state = none]
<1>1. sent[t] # None /\ AnsweredWith(t, j) /\ UNCHANGED <<identity, page, enabledApps, out, misled>>
  BY DEF idp_callback, Handles
<1>2. CookieOK(Mine(t)) /\ none \in Maybe(Logins)
  BY <1>1, HandledOK DEF Maybe
<1> HIDE DEF none
<1>3. CookieOK(j) /\ Keeps(j, Mine(t))
  BY <1>2, IdpOK
<1> HIDE DEF j
<1>4. Cookie'
  BY <1>1, <1>3, AnsweredWithOK, IsCookie
<1>5. TokensGoHome'
  <2>1. Mine(t).idp_redirect = Mine(t).idp_state
    BY <1>2 DEF CookieOK
  <2>2. \A d \in delivered' : d \in delivered \/ d = <<Mine(t).idp_state, Mine(t).idp_state>>
    BY <2>1 DEF idp_callback, StateMatches
  <2> QED BY <2>2 DEF IInv, BrowserOK, TokensGoHome
<1>6. ServiceOK' /\ CountersOK' /\ misled' = {}
  BY <1>1, SameService DEF IInv, BrowserOK, CountersOK
<1> QED BY <1>4, <1>5, <1>6 DEF IInv, BrowserOK, Cookie

LEMMA SignedInHandlerOK ==
  ASSUME IInv, NEW t \in Procs, SignedIn(t), UNCHANGED <<arrived, on>>
  PROVE  IInv'
<1>1. Become(t, Idle) /\ UNCHANGED <<tenancy, accounts, codes, tokens, denied, history, page, enabledApps, misled, delivered>>
  BY DEF SignedIn, Finished
<1>2. ServiceOK' /\ Cookie'
  BY <1>1, EndsOK, SignedInOK, IsCookie
<1> QED BY <1>1, <1>2, ServedOK

LEMMA HandlersOK ==
  ASSUME IInv, NEW t \in Procs, Handlers(t), UNCHANGED <<arrived, on>>
  PROVE  IInv'
<1>1. CASE login(t) \/ CallbackFails(t) \/ onboard_login(t) \/ SignedIn(t)
  BY <1>1, LoginHandlerOK, CallbackFailsOK, OnboardLoginOK, SignedInHandlerOK
<1>2. CASE \E given \in {{}, {"code"}, {"return_to"}, {"code", "return_to"}} : entry(t, given)
  BY <1>2, EntryOK DEF Extras
<1>3. CASE home(t) \/ confirm(t) \/ done(t) \/ invites(t) \/ logout_page(t)
  BY <1>3, ShowsOK, LogoutPageOK DEF home, confirm, done, invites
<1>4. CASE \E says \in {{"flash"}, {"result"}, {"new_invite"}} : form(t, says)
  BY <1>4, FormOK DEF Extras
<1>5. CASE idp_login(t) \/ idp_callback(t)
  BY <1>5, IdpLoginOK, IdpCallbackOK
<1>6. CASE \E c \in Codes : CallbackRedirects(t, c)
  BY <1>6, CallbackRedirectsOK
<1>7. CASE \E i \in Identities : \E e \in Emails[i], claim \in Claims :
             callback(t, i, e, claim) \/ onboard_callback(t, i, e, claim)
  BY <1>7, CallbackOK
<1> QED BY <1>1, <1>2, <1>3, <1>4, <1>5, <1>6, <1>7 DEF Handlers

-----------------------------------------------------------------------------
(* ARRIVALS *)

LEMMA Counted == ASSUME CountersOK, Counts PROVE arrived' \in 0 .. on'.requests /\ on' \in Scenarios
<1>1. on.requests \in Nat
  BY HostedAssumption DEF CountersOK
<1> QED BY <1>1 DEF CountersOK, Counts

LEMMA SentOK ==
  ASSUME IInv, NEW t \in Procs, NEW call \in Calls, NEW l \in Maybe(Logins), Send(t, call, l), Counts
  PROVE  IInv'
<1>1. Cookie'
  BY SendOK, IsCookie
<1>2. UNCHANGED identity /\ UNCHANGED <<enabledApps, misled, delivered>>
  BY DEF Send
<1>3. ServiceOK'
  BY <1>2, SameService, IsCookie
<1>4. CountersOK' /\ misled' = {} /\ TokensGoHome'
  BY <1>2, Counted DEF IInv, BrowserOK, CountersOK, TokensGoHome
<1> QED BY <1>1, <1>3, <1>4 DEF IInv, BrowserOK, Cookie

LEMMA ArrivesOK ==
  ASSUME IInv, NEW t \in Procs, Spa(t) \/ Onboard(t) \/ Proxy(t)
  PROVE  IInv'
<1>1. \A r \in jar.oauth : r.login \in Maybe(Logins)
  BY DEF IInv, BrowserOK, BrowserTypes, CookieOK, Jar, Rounds
<1>2. \A l \in Logins \cup Proxied \cup {None} : l \in Maybe(Logins)
  BY HostedAssumption DEF Maybe
<1>3. ASSUME NEW call, NEW l, Send(t, call, l), Counts, call \in Calls, l \in Maybe(Logins) PROVE IInv'
  BY <1>3, SentOK
<1>4. CASE Spa(t)
  BY <1>1, <1>2, <1>3, <1>4 DEF Spa, Calls
<1>5. CASE Onboard(t)
  BY <1>2, <1>3, <1>5 DEF Onboard, Calls
<1>6. CASE Proxy(t)
  BY <1>2, <1>3, <1>6 DEF Proxy, Calls
<1> QED BY <1>4, <1>5, <1>6

(* The browser is not involved. *)
LEMMA ServiceMoves ==
  ASSUME IInv, ServiceOK', UNCHANGED browser, UNCHANGED <<arrived, on>> \/ Counts
  PROVE  IInv'
<1>1. Cookie'
  BY StillOK, IsCookie DEF browser
<1>2. CountersOK'
  BY Counted DEF IInv, BrowserOK, CountersOK, browser
<1>3. misled' = {} /\ TokensGoHome'
  BY DEF IInv, BrowserOK, TokensGoHome, browser
<1> QED BY <1>1, <1>2, <1>3 DEF IInv, BrowserOK, Cookie

LEMMA ApiArrivesOK ==
  ASSUME IInv, NEW p \in Procs, Authz(p) \/ Admin(p) \/ Exchange(p)
  PROVE  IInv'
<1>1. Counts /\ UNCHANGED browser
  BY DEF Authz, Admin, Exchange
<1>2. ServiceOK'
  BY IsCookie, ResolveOK, AdminCallbackOK, SelectWorkspaceOK DEF Authz, Admin, Exchange
<1> QED BY <1>1, <1>2, ServiceMoves

LEMMA ServerStepsOK == ASSUME ServiceOK, ServerSteps PROVE ServiceOK'
  BY FindOrCreateOK, AdminSignedInOK, ResolveMintsOK, IssueTokensOK, SignInRefusedOK DEF ServerSteps

LEMMA AppTogglesOK ==
  ASSUME IInv, NEW a \in Apps, AppToggles(a), Counts
  PROVE  IInv'
<1>1. Cookie'
  BY StillOK, IsCookie DEF AppToggles
<1>2. ServiceOK'
  BY SameService, IsCookie DEF AppToggles
<1>3. CountersOK'
  BY Counted DEF IInv, BrowserOK, CountersOK, AppToggles
<1>4. misled' = {} /\ TokensGoHome'
  BY DEF IInv, BrowserOK, TokensGoHome, AppToggles
<1> QED BY <1>1, <1>2, <1>3, <1>4 DEF IInv, BrowserOK, Cookie

-----------------------------------------------------------------------------
(* THE INVARIANT *)

LEMMA Steps == IInv /\ [Next]_vars => IInv'
<1> SUFFICES ASSUME IInv, [Next]_vars PROVE IInv'
  OBVIOUS
<1>1. ASSUME NEW t \in Procs, Spa(t) \/ Onboard(t) \/ Proxy(t) PROVE IInv'
  BY <1>1, ArrivesOK
<1>2. ASSUME NEW p \in Procs, Authz(p) \/ Admin(p) \/ Exchange(p) PROVE IInv'
  BY <1>2, ApiArrivesOK
<1>3. ASSUME NEW t \in Procs, Handlers(t), UNCHANGED <<arrived, on>> PROVE IInv'
  BY <1>3, HandlersOK
<1>4. CASE ServerSteps /\ UNCHANGED <<browser, arrived, on>>
  BY <1>4, ServerStepsOK, ServiceMoves, IsCookie
<1>5. CASE Changes /\ Counts /\ UNCHANGED browser
  BY <1>5, ChangesOK, ServiceMoves, IsCookie
<1>6. CASE (\E u \in Users : CommitStatus(u)) /\ UNCHANGED <<browser, arrived, on>>
  BY <1>6, CommitStatusOK, ServiceMoves, IsCookie
<1>7. CASE (\E c \in Codes : CodeExpires(c)) /\ UNCHANGED <<browser, arrived, on>>
  BY <1>7, CodeExpiresOK, ServiceMoves, IsCookie
<1>8. CASE (\E a \in Apps : AppToggles(a)) /\ Counts
  BY <1>8, AppTogglesOK
<1>9. CASE UNCHANGED vars
  <2>1. UNCHANGED identity /\ UNCHANGED browser /\ UNCHANGED <<arrived, on>>
    BY <1>9 DEF vars
  <2>2. ServiceOK'
    BY <2>1, SameService, IsCookie
  <2> QED BY <2>1, <2>2, ServiceMoves
<1> QED BY <1>1, <1>2, <1>3, <1>4, <1>5, <1>6, <1>7, <1>8, <1>9 DEF Next

LEMMA OrgsInit == OrganizationsInit /\ known \in SUBSET Users /\ live \in SUBSET Workspaces => OrgOK
<1> SUFFICES ASSUME OrganizationsInit, known \in SUBSET Users, live \in SUBSET Workspaces PROVE OrgOK
  OBVIOUS
<1> QED BY OrganizationsAssumption
  DEF OrganizationsInit, OrgOK, OrganizationsTypeOK, Rule, AdminOK, AdminIdle

LEMMA ServiceInit == Init => ServiceOK
<1> SUFFICES ASSUME Init PROVE ServiceOK
  OBVIOUS
<1> USE DEF Init, SignInInit
<1>1. OrgOK
  BY OrgsInit, SignInAssumption
<1>2. AccountsOK
  BY SignInAssumption DEF AccountsOK
<1>3. LinksOK
  BY DEF LinksOK, AccountsAreOwned, OneSubjectPerAccount, AdminFlowCreatesNobody
<1>4. RequestsOK
  BY DEF RequestsOK, Serving, Idle, Request, Maybe
<1>5. CodesOK
  BY DEF CodesOK, IsCode, LoginsDontMix
<1>6. TokensOK
  BY DEF TokensOK
<1> QED BY <1>1, <1>2, <1>3, <1>4, <1>5, <1>6 DEF ServiceOK

LEMMA BrowserInit == Init => BrowserOK
<1> SUFFICES ASSUME Init PROVE BrowserOK
  OBVIOUS
<1>1. /\ jar = EmptyJar /\ sent = [t \in Procs |-> None] /\ page = [t \in Procs |-> NoForm]
      /\ enabledApps = Apps /\ out = FALSE /\ revived = FALSE /\ misled = {} /\ delivered = {}
      /\ arrived = 0 /\ on \in Scenarios
  BY DEF Init
<1>2. CookieOK(jar)
  BY <1>1 DEF CookieOK, EmptyJar, Jar, Maybe
<1>3. NoForm \in Form
  BY DEF NoForm, Form, Maybe
<1>4. BrowserTypes
  BY <1>1, <1>2, <1>3 DEF BrowserTypes, Waiting
<1>5. CountersOK
  <2>1. on.requests \in Nat
    BY <1>1, HostedAssumption
  <2> QED BY <1>1, <2>1 DEF CountersOK
<1>6. \A h \in Holders : h.csrf = 0
  BY <1>1 DEF Holders, FormOf, Waiting, EmptyJar, NoForm
<1>7. NamesOneUser
  BY <1>6 DEF NamesOneUser
<1>8. StaysOut /\ TokensGoHome
  BY <1>1 DEF StaysOut, TokensGoHome
<1> QED BY <1>1, <1>4, <1>5, <1>7, <1>8 DEF BrowserOK

LEMMA Invariant == Spec => []IInv
<1>1. Init => IInv
  BY ServiceInit, BrowserInit DEF IInv
<1> QED BY <1>1, Steps, PTL DEF Spec

-----------------------------------------------------------------------------
(* WHAT HOLDS *)

LEMMA TypesHold == IInv => TypeOK
<1> SUFFICES ASSUME IInv PROVE TypeOK
  OBVIOUS
<1> USE DEF IInv, ServiceOK, BrowserOK
<1>1. \A c \in Codes : codes[c] \in {None, Gone} \/ codes[c].user \in known
  BY DEF CodesOK, IsCode
<1>2. \A j \in DOMAIN tokens : tokens[j] \in Token
  BY DEF TokensOK
<1>3. SignInTypeOK
  BY <1>1, <1>2 DEF SignInTypeOK, OrgOK, AccountsOK, RequestsOK, TokensOK, Maybe
<1>4. jar \in Jar /\ \A t \in Procs : sent[t] = None \/ sent[t] \in Sent
  BY DEF BrowserTypes, CookieOK
<1>5. \A t \in Procs : page[t].user \in Maybe(Users) /\ page[t].csrf \in Nat
  BY DEF BrowserTypes, Form
<1> QED BY <1>3, <1>4, <1>5 DEF TypeOK, BrowserTypes, CountersOK

(* The states of the sign-in, the pages and the cookie are what TypeOK says,
   and every code is an account's.  (SignIn, HostedPages) *)
THEOREM SignInIsTyped == Spec => []TypeOK
  BY Invariant, TypesHold, PTL

LEMMA GuardsAreRight == ServiceOK => GuardsHold
<1> SUFFICES ASSUME ServiceOK PROVE GuardsHold
  OBVIOUS
<1>1. ASSUME NEW j \in DOMAIN tokens, LetIn(j)
      PROVE  tokens[j].user \in active \/ status[tokens[j].user] = TRUE
  <2>1. tokens[j].user \notin flagged
    BY <1>1 DEF LetIn, require_admin, get_current_user, get_user_for_service_call,
                get_current_user_flexible, _enforce_token_hygiene
  <2>2. tokens[j].user \in Users
    <3>1. tokens[j] \in Token
      BY DEF ServiceOK, TokensOK
    <3> QED BY <3>1 DEF Token
  <2>3. status[tokens[j].user] \in {None, TRUE, FALSE}
    BY <2>2 DEF ServiceOK, AccountsOK
  <2> QED BY <2>1, <2>2, <2>3 DEF ServiceOK, AccountsOK
<1>2. ASSUME NEW j \in DOMAIN tokens, NEW s \in Services, tokens[j].kind = "authz",
             get_user_for_service_call(j, s) \/ get_current_user_flexible(j, s)
      PROVE  <<ScopeOf[s], tokens[j].user>> \in brought
  <2>1. ForService(j, s)
    BY <1>2, SignInAssumption DEF get_user_for_service_call, get_current_user_flexible
  <2> QED BY <1>2, <2>1 DEF ServiceOK, TokensOK, ForService
<1> QED BY <1>1, <1>2 DEF GuardsHold, DeactivatedAreShut, ServicesActForTheirUsers

(* Whom the guards let in, they let in rightly: no token of a user whose
   deactivation has committed, of whatever kind, and by an authorization token
   only users who signed in through a service of the caller's scope. *)
THEOREM GuardsAreSound == Spec => []GuardsHold
<1>1. IInv => GuardsHold
  BY GuardsAreRight DEF IInv
<1> QED BY <1>1, Invariant, PTL

(* What the picker offers to a user whose organization is stored, the exchange
   would not refuse: the two ask the same gate. *)
THEOREM PickerOffersMintable == Spec => []PickerIsMintable
<1>1. PickerIsMintable
  BY DEF PickerIsMintable, list_workspaces_for_login, IssueAllowed, MemberAdmitted, effective_org,
         filter_workspaces_allowing_org, workspace_allows_org
<1> QED BY <1>1, PTL

(* Accounts stay apart: two subjects share one only if their sign-ins overlapped,
   and the admin flow creates none but the configured admins'. *)
THEOREM AccountsStayOwned == Spec => []AccountsAreOwned
<1>1. IInv => AccountsAreOwned
  BY DEF IInv, ServiceOK, LinksOK
<1> QED BY <1>1, Invariant, PTL

(* A form acts for the user its page was shown to, and after a sign-out nobody
   is signed in but by a request that was on its way, however the tabs of the
   browser overwrite each other's cookie. *)
THEOREM PagesAreHonest == Spec => []PagesKnowTheirUser
<1>1. IInv => PagesKnowTheirUser
  BY DEF IInv, BrowserOK, PagesKnowTheirUser, FormsActForTheirPage, SignedOutStaysOut, StaysOut
<1> QED BY <1>1, Invariant, PTL

(* What a login produces goes to that login alone, and works once: the code's
   app, redirect and challenge are one login's, GitHub's token goes to the page
   that asked for it, and a code yields tokens at most once. *)
THEOREM LoginsAreApart == Spec => []LoginsStayApart
<1>1. IInv => CodesAreSpentOnce
  BY DEF IInv, ServiceOK, CodesOK, CodesAreSpentOnce
<1>2. IInv => LoginsStayApart
  BY <1>1 DEF IInv, ServiceOK, CodesOK, BrowserOK, LoginsStayApart
<1> QED BY <1>2, Invariant, PTL
=============================================================================
