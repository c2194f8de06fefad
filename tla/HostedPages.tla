---------------------------- MODULE HostedPages ----------------------------
(***************************************************************************)
(* The browser's side of a sign-in.  One signed cookie holds what every    *)
(* flow keeps between its requests.  A request carries the cookie of when  *)
(* it was sent, and its response replaces the browser's whole cookie, so   *)
(* the tabs of one browser overwrite each other.  A handler takes effect   *)
(* when it answers; callbacks sign in between, statement by statement.     *)
(***************************************************************************)
EXTENDS SignIn

CONSTANTS Logins,     \* sign-ins that single-page apps start
          AppOf,      \* login -> client app
          WithState,  \* logins with a state parameter
          Proxied,    \* logins at /authz/idp
          Scenarios   \* bound: the features of a behaviour, and its requests

ASSUME HostedAssumption ==
  /\ AppOf \in [Logins -> Apps]
  /\ WithState \cup Proxied \subseteq Logins
  /\ Scenarios \subseteq [features: SUBSET {"spa", "onboard", "proxy", "authz", "admin", "tokens", "orgs", "accounts"},
                          requests: Nat]

Extras == {"code", "return_to", "next", "flash", "result", "new_invite"}
_RESET_KEYS == Extras

VARIABLES jar,        \* the session cookie
          sent,       \* tabs waiting for an answer: the request, with its cookie
          page,       \* the form a tab shows: its user and csrf token
          enabledApps,\* active client apps that still have the redirect
          out,        \* history: signed out, and not in since
          revived,    \* history: signed in again by a request from before that
          misled,     \* history: forms that acted for another user than their page's
          delivered,  \* history: <<login redirected to, login whose token it was>>
          arrived, on

browser == <<jar, sent, page, enabledApps, out, revived, misled, delivered>>
vars == <<identity, browser, arrived, on>>

Rounds == [flow: {"user", "onboard"}, login: Maybe(Logins)]
Jar == [redirect: Maybe(Logins), challenge: Maybe(Logins), app: Maybe(Logins), state: Maybe(Logins),
        oauth: SUBSET Rounds, user: Maybe(Users), csrf: Nat, extra: SUBSET Extras,
        idp_redirect: Maybe(Logins), idp_state: Maybe(Logins)]
EmptyJar == [redirect |-> None, challenge |-> None, app |-> None, state |-> None, oauth |-> {},
             user |-> None, csrf |-> 0, extra |-> {}, idp_redirect |-> None, idp_state |-> None]

Calls == {"login", "callback", "entry", "onboard_login", "onboard_callback", "page", "form", "logout", "signing",
          "idp_login", "idp_callback"}
Sent == [call: Calls, jar: Jar, login: Maybe(Logins), form: [user: Maybe(Users), csrf: Nat], old: BOOLEAN]
NoForm == [user |-> None, csrf |-> 0]

TypeOK ==
  /\ SignInTypeOK
  /\ jar \in Jar
  /\ \A t \in Procs : sent[t] = None \/ sent[t] \in Sent
  /\ \A t \in Procs : page[t].user \in Maybe(Users) /\ page[t].csrf \in Nat
  /\ enabledApps \in SUBSET Apps
  /\ out \in BOOLEAN /\ revived \in BOOLEAN
  /\ misled \in SUBSET (Users \X Users)
  /\ arrived \in 0 .. on.requests /\ on \in Scenarios

Init ==
  /\ SignInInit
  /\ jar = EmptyJar
  /\ sent = [t \in Procs |-> None] /\ page = [t \in Procs |-> NoForm]
  /\ enabledApps = Apps
  /\ out = FALSE /\ revived = FALSE /\ misled = {} /\ delivered = {}
  /\ arrived = 0 /\ on \in Scenarios

-----------------------------------------------------------------------------
(* Requests and answers. *)
Counts == arrived < on.requests /\ arrived' = arrived + 1 /\ UNCHANGED on

Send(t, call, l) ==
  /\ sent[t] = None /\ signin[t].pc = "idle"
  /\ sent' = [sent EXCEPT ![t] = [call |-> call, jar |-> jar, login |-> l, form |-> page[t], old |-> FALSE]]
  /\ UNCHANGED <<identity, jar, page, enabledApps, out, revived, misled, delivered>>

Handles(t, call) == sent[t] # None /\ sent[t].call = call
Mine(t) == sent[t].jar

(* Without a cookie, and with one. *)
Answered(t) == sent' = [sent EXCEPT ![t] = None] /\ UNCHANGED <<jar, revived>>
AnsweredWith(t, j) ==
  /\ jar' = j
  /\ sent' = [sent EXCEPT ![t] = None]
  /\ revived' = (revived \/ (sent[t].old /\ j.user # None))

_clear_onboard_session(j) == [j EXCEPT !.user = None, !.csrf = 0, !.extra = {}]

(* _session_user: the user is read again, and the cookie always written. *)
_session_user(t) == Mine(t).user \in active

_csrf_ok(t) == sent[t].form.csrf # 0 /\ sent[t].form.csrf = Mine(t).csrf

-----------------------------------------------------------------------------
(* Single-page apps: /auth/login and /auth/callback *)

KeepsAnOldChallenge(j, l) ==                                  \* mutant: setdefault
  [j EXCEPT !.redirect = l, !.challenge = IF j.challenge = None THEN l ELSE @, !.app = l]
Remembered(j, l) == [j EXCEPT !.redirect = l, !.challenge = l, !.app = l]

login(t) ==
  LET l == sent[t].login
      j == Remembered(Mine(t), l) IN
  /\ Handles(t, "login")
  /\ IF AppOf[l] \in enabledApps
       THEN AnsweredWith(t, [j EXCEPT !.state = IF l \in WithState THEN l ELSE @,
                                      !.oauth = @ \cup {[flow |-> "user", login |-> l]}])
       ELSE Answered(t)
  /\ UNCHANGED <<identity, page, enabledApps, out, misled, delivered>>

(* authorize_access_token wants the state of the round trip in the cookie. *)
Round(t, flow) == [flow |-> flow, login |-> sent[t].login]

Signing(t) ==
  /\ sent' = [sent EXCEPT ![t].call = "signing"]
  /\ UNCHANGED <<jar, page, enabledApps, out, revived, misled, delivered>>

callback(t, i, e, claim) ==
  /\ Handles(t, "callback")
  /\ Round(t, "user") \in Mine(t).oauth
  /\ _complete_login(t, "user", i, e, claim)
  /\ Signing(t)

Done(t, flow) == [Mine(t) EXCEPT !.oauth = @ \ {Round(t, flow)}]
Popped(t) == [Done(t, "user") EXCEPT !.redirect = None, !.challenge = None, !.app = None, !.state = None]

CallbackRedirects(t, c) ==
  LET j == Mine(t) IN
  /\ Handles(t, "signing") /\ Finished(t, "user")
  /\ signin[t].ok
  /\ AnsweredWith(t, Popped(t))
  /\ IF j.redirect # None /\ j.app # None /\ AppOf[j.app] \in enabledApps
       THEN create_auth_code(c, signin[t].user, j.challenge, j.app, j.redirect)
       ELSE UNCHANGED codes
  /\ UNCHANGED <<tenancy, accounts, tokens, denied, history, page, enabledApps, out, misled, delivered>>

(* An error page, of a callback whose round trip the cookie does not know, or
   of one that signed nobody in. *)
CallbackFails(t) ==
  /\ \/ /\ sent[t] # None /\ sent[t].call \in {"callback", "onboard_callback"}
        /\ Answered(t)
     \/ /\ Handles(t, "signing")
        /\ signin[t].pc = "idle" \/ (signin[t].pc = "done" /\ ~signin[t].ok)
        /\ \E flow \in {"user", "onboard"} : AnsweredWith(t, Done(t, flow))
  /\ Become(t, Idle)
  /\ UNCHANGED <<tenancy, accounts, codes, tokens, denied, history, page, enabledApps, out, misled, delivered>>

-----------------------------------------------------------------------------
(* Hosted pages: /onboard *)

Extra(j, add, drop) == [j EXCEPT !.extra = (@ \ drop) \cup add]

(* A round with a code or a return address starts afresh; the user and the
   csrf token stay. *)
entry(t, given) ==
  /\ Handles(t, "entry")
  /\ IF given # {} THEN AnsweredWith(t, Extra(Mine(t), given, _RESET_KEYS))
     ELSE IF Mine(t).user = None THEN Answered(t)
     ELSE IF _session_user(t) THEN AnsweredWith(t, Extra(Mine(t), {}, {"next"}))
     ELSE AnsweredWith(t, _clear_onboard_session(Mine(t)))
  /\ UNCHANGED <<identity, page, enabledApps, out, misled, delivered>>

onboard_login(t) ==
  /\ Handles(t, "onboard_login")
  /\ AnsweredWith(t, [Mine(t) EXCEPT !.oauth = @ \cup {[flow |-> "onboard", login |-> None]}])
  /\ UNCHANGED <<identity, page, enabledApps, out, misled, delivered>>

onboard_callback(t, i, e, claim) ==
  /\ Handles(t, "onboard_callback")
  /\ Round(t, "onboard") \in Mine(t).oauth
  /\ _complete_login(t, "onboard", i, e, claim)
  /\ Signing(t)

(* A fresh token: none that the cookie, a page or a request still holds. *)
InUse == {jar.csrf} \cup {page[t].csrf : t \in Procs}
           \cup UNION {{sent[t].jar.csrf, sent[t].form.csrf} : t \in {x \in Procs : sent[x] # None}}
OldToken(t) == IF Mine(t).csrf # 0 THEN Mine(t).csrf ELSE 1   \* mutant: the token survives
NewToken(t) == CHOOSE n \in 1 .. 3 * Cardinality(Procs) + 2 : n \notin InUse

SignedIn(t) ==
  /\ Handles(t, "signing") /\ Finished(t, "onboard")
  /\ signin[t].ok
  /\ AnsweredWith(t, [Extra(Done(t, "onboard"), {}, {"next"}) EXCEPT
                        !.user = signin[t].user, !.csrf = NewToken(t)])
  /\ out' = FALSE
  /\ UNCHANGED <<tenancy, accounts, codes, tokens, denied, history, page, enabledApps, misled, delivered>>

(* A page with a form: home, confirm, done and invites differ in the one-time
   keys they show and drop. *)
Shows(t, drop) ==
  /\ Handles(t, "page")
  /\ IF Mine(t).user = None THEN Answered(t) /\ UNCHANGED page
     ELSE IF ~_session_user(t) THEN AnsweredWith(t, _clear_onboard_session(Mine(t))) /\ UNCHANGED page
     ELSE /\ AnsweredWith(t, Extra(Mine(t), {}, drop \cup {"flash"}))
          /\ page' = [page EXCEPT ![t] = [user |-> Mine(t).user, csrf |-> Mine(t).csrf]]
  /\ UNCHANGED <<identity, enabledApps, out, misled, delivered>>

home(t) == Shows(t, {}) \/ Shows(t, {"code"})
confirm(t) == Shows(t, {})
done(t) == Shows(t, {"result", "code"})
invites(t) == Shows(t, {"new_invite"})

(* A POST of the page's form, whose handler leaves what it says in the cookie:
   join, create, invites, members, rename and leave are in Onboarding. *)
form(t, says) ==
  /\ Handles(t, "form")
  /\ IF ~_session_user(t) THEN AnsweredWith(t, _clear_onboard_session(Mine(t))) /\ UNCHANGED misled
     ELSE IF ~_csrf_ok(t) THEN AnsweredWith(t, Mine(t)) /\ UNCHANGED misled
     ELSE /\ AnsweredWith(t, Extra(Mine(t), says, {"code"}))
          /\ misled' = IF sent[t].form.user = Mine(t).user THEN misled
                       ELSE misled \cup {<<sent[t].form.user, Mine(t).user>>}
  /\ UNCHANGED <<identity, page, enabledApps, out, delivered>>

logout_page(t) ==
  /\ Handles(t, "logout")
  /\ IF _session_user(t) /\ ~_csrf_ok(t)
       THEN AnsweredWith(t, Mine(t)) /\ UNCHANGED out
       ELSE /\ jar' = _clear_onboard_session(Mine(t))
            /\ out' = TRUE
            /\ sent' = [x \in Procs |-> IF x = t \/ sent[x] = None THEN None ELSE [sent[x] EXCEPT !.old = TRUE]]
            /\ UNCHANGED revived
  /\ UNCHANGED <<identity, page, enabledApps, misled, delivered>>

-----------------------------------------------------------------------------
(* /authz/idp: GitHub's token is exchanged here and handed to the page that
   asked for it. *)
idp_login(t) ==
  /\ Handles(t, "idp_login")
  /\ AnsweredWith(t, [Mine(t) EXCEPT !.idp_redirect = sent[t].login, !.idp_state = sent[t].login])
  /\ UNCHANGED <<identity, page, enabledApps, out, misled, delivered>>

StateMatches(t) == Mine(t).idp_state = sent[t].login

idp_callback(t) ==
  LET j == Mine(t) IN
  /\ Handles(t, "idp_callback")
  /\ AnsweredWith(t, [j EXCEPT !.idp_redirect = None, !.idp_state = None])
  /\ delivered' = IF StateMatches(t) /\ j.idp_redirect # None
                    THEN delivered \cup {<<j.idp_redirect, sent[t].login>>} ELSE delivered
  /\ UNCHANGED <<identity, page, enabledApps, out, misled>>

-----------------------------------------------------------------------------
AppToggles(a) ==
  /\ enabledApps' = IF a \in enabledApps THEN enabledApps \ {a} ELSE enabledApps \cup {a}
  /\ UNCHANGED <<identity, jar, sent, page, out, revived, misled, delivered>>

Spa(t) ==
  \/ \E l \in Logins : Send(t, "login", l) /\ Counts
  \/ \E r \in jar.oauth : r.flow = "user" /\ Send(t, "callback", r.login) /\ Counts
Onboard(t) ==
  \/ \E call \in {"entry", "onboard_login", "page"} : Send(t, call, None) /\ Counts
  \/ \E call \in {"form", "logout"} : page[t].csrf # 0 /\ Send(t, call, None) /\ Counts
  \/ \E r \in jar.oauth : r.flow = "onboard" /\ Send(t, "onboard_callback", None) /\ Counts
Proxy(t) == \E l \in Proxied, call \in {"idp_login", "idp_callback"} : Send(t, call, l) /\ Counts

Authz(p) ==
  /\ sent[p] = None /\ Counts /\ UNCHANGED browser
  /\ \E s \in Services, w \in Maybe(Workspaces), aud \in {Deployment} \cup UNION {Audiences[x] : x \in Services} :
       \E i \in Identities : \E e \in Emails[i], claim \in Claims : resolve(p, s, w, i, e, claim, aud)
Admin(p) ==
  /\ sent[p] = None /\ Counts /\ UNCHANGED browser
  /\ \E i \in Identities : \E e \in Emails[i] : (\E claim \in Claims : admin_callback(p, i, e, claim))
Exchange(p) ==
  /\ sent[p] = None /\ Counts /\ UNCHANGED browser
  /\ \E c \in Codes, w \in Workspaces, l \in Logins : select_workspace(p, c, w, l)

Handlers(t) ==
  \/ login(t) \/ CallbackFails(t) \/ onboard_login(t) \/ SignedIn(t)
  \/ \E given \in {{}, {"code"}, {"return_to"}, {"code", "return_to"}} : entry(t, given)
  \/ home(t) \/ confirm(t) \/ done(t) \/ invites(t) \/ logout_page(t)
  \/ \E says \in {{"flash"}, {"result"}, {"new_invite"}} : form(t, says)
  \/ idp_login(t) \/ idp_callback(t)
  \/ \E c \in Codes : CallbackRedirects(t, c)
  \/ \E i \in Identities : \E e \in Emails[i], claim \in Claims :
       callback(t, i, e, claim) \/ onboard_callback(t, i, e, claim)

ServerSteps ==
  \E p \in Procs : \/ find_or_create_user(p) \/ AdminSignedIn(p) \/ ResolveMints(p) \/ issue_tokens(p)
                   \/ sent[p] = None /\ SignInRefused(p)

Changes ==
  \/ "orgs" \in on.features /\ OrganizationsNext /\ UNCHANGED <<accounts, signin, codes, tokens, denied, history>>
  \/ "accounts" \in on.features /\ (\E u \in Users : \/ \E b \in BOOLEAN : update_user(u, b) \/ SetAdmin(u, b)
                                                     \/ \E w \in Workspaces : MembershipMoves(w, u))
  \/ "tokens" \in on.features /\ (\E j \in DOMAIN tokens : logout(j) \/ admin_logout(j))

Next ==
  \/ \E t \in Procs : \/ "spa" \in on.features /\ Spa(t)
                      \/ "onboard" \in on.features /\ Onboard(t)
                      \/ "proxy" \in on.features /\ Proxy(t)
                      \/ "authz" \in on.features /\ Authz(t)
                      \/ "admin" \in on.features /\ Admin(t)
                      \/ "tokens" \in on.features /\ Exchange(t)
                      \/ Handlers(t) /\ UNCHANGED <<arrived, on>>
  \/ ServerSteps /\ UNCHANGED <<browser, arrived, on>>
  \/ Changes /\ Counts /\ UNCHANGED browser
  \/ (\E u \in Users : CommitStatus(u)) /\ UNCHANGED <<browser, arrived, on>>
  \/ (\E c \in Codes : CodeExpires(c)) /\ UNCHANGED <<browser, arrived, on>>
  \/ "spa" \in on.features /\ (\E a \in Apps : AppToggles(a)) /\ Counts

Spec == Init /\ [][Next]_vars

-----------------------------------------------------------------------------
(* PROPERTIES *)

(* A form acts for the user its page was shown to, although another tab may
   have signed somebody else in since: the cookie's user and csrf token change
   together.  (callback, _csrf_ok) *)
FormsActForTheirPage == misled = {}

(* After a sign-out nobody is signed in, except by a request that was on its
   way when it was answered.  (_clear_onboard_session) *)
SignedOutStaysOut == out /\ jar.user # None => revived

(* The hosted pages act for the user they show, and for nobody afterwards. *)
PagesKnowTheirUser == FormsActForTheirPage /\ SignedOutStaysOut

(* A code is bound to one login: the app, the redirect it is delivered to and
   the challenge are those of the same request, whatever other tabs began.
   (login, callback) *)
LoginsDontMix ==
  \A c \in Codes : IsCode(c) => codes[c].challenge = codes[c].redirect /\ codes[c].app = codes[c].redirect

(* The token of a round trip to GitHub goes to the page that began that round
   trip.  (idp_callback) *)
TokensGoHome == \A d \in delivered : d[1] = d[2]

(* What a login produces goes to that login alone, and works once. *)
LoginsStayApart == LoginsDontMix /\ TokensGoHome /\ CodesAreSpentOnce
=============================================================================
