---------------------------- MODULE AppBackend ----------------------------
(* The backend of an app under the SDKs: the middleware that verifies a caller's
   two tokens, or mints and caches the authz token for a caller that sends only
   its IdP token (auto-resolve); the cached permission answers; the tokens for
   calls between apps; and the rotation of Duar's keys under all of it
   (src/sdk/src/duar_auth/, src/sdks/nextjs, src/sdks/js/src/m2m.ts,
   src/service/src/auth/key_provider.py).  Requests interleave at every await.

   A signing key is its number and a mint is its number; an app's scope is the
   realm it is in, numbered by its moves.                                      *)
EXTENDS Integers, FiniteSets

CONSTANTS Processes,      \* Duar's server processes
          Requests, Callers, Spaces, Missing,
          Apps,           \* how the app is set up: its sdk ("python", "nextjs"),
                          \* auto_resolve, whether it caches permissions, and as a
                          \* bound the key rotations and realm moves it lives through
          MaxMints, MaxWrites, MaxStarts   \* bounds: mints, writes, starts of the app

ASSUME AppBackendAssumption ==
  /\ \A a \in Apps : a.changes \in Nat
  /\ Missing \notin [id : Nat, pair : Callers \X Spaces, key : Nat, svc : Nat]

VARIABLES
  app,        \* this app's set-up
  newest,     \* the configured signing key
  loaded,     \* per process, the newest key when it started
  realm,      \* the app's scope at Duar
  known,      \* the keys of the JWKS the app last fetched
  pinned,     \* _duar_public_key: the one key it fetched at its start
  scope,      \* _effective_scope: what whoami answered then
  cache,      \* _resolve_cache: per caller and workspace, a token or Missing
  pending,    \* _resolve_pending: the pairs whose mint is under way
  request,    \* per request, where it is and what it carries
  shares,     \* the version of the permissions at Duar
  answers,    \* PermissionClient._cache: per caller and question, the version
              \* of the permissions it answers from
  writing     \* this app's own write: "no", "looking", "sent", "applied"
appVars == <<app, newest, loaded, realm, known, pinned, scope, cache, pending,
             request, shares, answers, writing>>

VARIABLES
  mints,      \* the mints so far
  starts,     \* the app's starts so far
  refused,    \* mints whose token the app could not verify
  misled      \* a valid token was refused without a reason the docs name
appGhosts == <<mints, starts, refused, misled>>

Pairs == Callers \X Spaces
Questions == Callers \X {"can", "accessible"}
Idle == [pc |-> "idle"]
Unasked == [version |-> 0, late |-> FALSE]
TokenOK(k) == k.pair \in Pairs /\ k.key \in 1..newest /\ k.svc \in 1..realm
AppTypeOK ==
  /\ newest + realm \in 2..(app.changes + 2) /\ loaded \in [Processes -> 1..newest]
  /\ known \subseteq 1..newest /\ pinned \in 1..newest /\ scope \in 0..realm
  /\ pending \subseteq Pairs
  /\ \A pair \in Pairs : cache[pair] = Missing \/ TokenOK(cache[pair])
  /\ \A r \in Requests :
       /\ request[r].pc \in {"idle", "waiting", "verifying", "served", "asking", "told"}
       /\ request[r].pc = "verifying" => request[r].token # Missing /\ TokenOK(request[r].token)
       /\ request[r].pc \in {"asking", "told"} => app.cache_ttl
  /\ \A q \in Questions : answers[q].version \in 0..shares
  /\ writing \in {"no", "looking", "sent", "applied"}

-----------------------------------------------------------------------------
(* DUAR'S KEYS *)

(* Planned rotation: a new key is configured with the old one as the previous;
   each process takes it up when it reloads.  The next rotation waits until
   every process has, and until no token is left under the key before. *)
signing_key(p) == loaded[p]
CurrentOnly(p) == {loaded[p]}                    \* mutant: the previous key is left out
verification_keys(p) == {loaded[p], loaded[p] - 1} \ {0}
build_jwks(p) == verification_keys(p)
Settled == \A p, q \in Processes : loaded[p] = loaded[q]

OverlapIsOver ==
  /\ \A p \in Processes : loaded[p] = newest
  /\ \A pair \in Pairs : cache[pair] # Missing => cache[pair].key = newest
  /\ \A r \in Requests : request[r].pc = "verifying" => request[r].token.key = newest
RotateKey ==
  /\ newest + realm < app.changes + 2 /\ OverlapIsOver
  /\ newest' = newest + 1
  /\ UNCHANGED <<app, loaded, realm, known, pinned, scope, cache, pending, request,
                 shares, answers, writing, appGhosts>>
reset_cache(p) ==
  /\ loaded' = [loaded EXCEPT ![p] = newest] /\ loaded' # loaded
  /\ UNCHANGED <<app, newest, realm, known, pinned, scope, cache, pending, request,
                 shares, answers, writing, appGhosts>>
MoveRealm ==
  /\ newest + realm < app.changes + 2 /\ realm' = realm + 1
  /\ UNCHANGED <<app, newest, loaded, known, pinned, scope, cache, pending, request,
                 shares, answers, writing, appGhosts>>

(* lifespan: fetch_duar_public_key pins the first key of the JWKS, and a whoami
   that fails leaves the app with its own name for a scope (0).  Next.js is
   configured with its scope. *)
fetch_duar_public_key(p) == signing_key(p)
fetch_whoami == IF app.sdk = "python" THEN {0, realm} ELSE {realm}
Started(p, s) ==
  /\ pinned' = fetch_duar_public_key(p) /\ scope' = s /\ known' = {}
  /\ cache' = [pair \in Pairs |-> Missing] /\ pending' = {}
  /\ request' = [r \in Requests |-> Idle] /\ answers' = [q \in Questions |-> Unasked]
  /\ writing' = "no"
AppInit ==
  /\ app \in Apps /\ newest = 1 /\ loaded = [p \in Processes |-> 1] /\ realm = 1
  /\ pinned = 1 /\ scope = 1 /\ known = {}
  /\ cache = [pair \in Pairs |-> Missing] /\ pending = {}
  /\ request = [r \in Requests |-> Idle] /\ answers = [q \in Questions |-> Unasked]
  /\ shares = 1 /\ writing = "no"
  /\ mints = 0 /\ starts = 1 /\ refused = {} /\ misled = FALSE
lifespan ==
  /\ starts < MaxStarts /\ starts' = starts + 1
  /\ \E p \in Processes, s \in fetch_whoami : Started(p, s)
  /\ UNCHANGED <<app, newest, loaded, realm, shares, mints, refused, misled>>

-----------------------------------------------------------------------------
(* THE MIDDLEWARE *)

(* The tokens a caller may hold: minted by any process, under a key that is
   still published, for a scope the app has or had. *)
LiveKeys == (UNION {{loaded[p], newest - 1} : p \in Processes}) \ {0}
HeldTokens == [id : {0}, pair : Pairs, key : LiveKeys, svc : 1..realm]
Verifying(pair, token, auto) ==
  [pc |-> "verifying", pair |-> pair, token |-> token, auto |-> auto]

(* A caller that brings X-Authz-Token along with its IdP token. *)
BothTokens(r) ==
  /\ request[r] = Idle
  /\ \E c \in Callers, token \in HeldTokens :
       request' = [request EXCEPT ![r] = Verifying(<<c, token.pair[2]>>, token, FALSE)]
  /\ UNCHANGED <<app, newest, loaded, realm, known, pinned, scope, cache, pending,
                 shares, answers, writing, appGhosts>>

(* A caller without it: a cached token, or the one mint that is under way for
   the caller and the workspace, or a new one. *)
CacheKey(pair) == pair
Resolve(r) ==
  /\ app.auto_resolve /\ request[r] = Idle
  /\ \E pair \in Pairs : LET key == CacheKey(pair) IN
       IF cache[key] # Missing
       THEN /\ request' = [request EXCEPT ![r] = Verifying(pair, cache[key], TRUE)]
            /\ UNCHANGED pending
       ELSE /\ request' = [request EXCEPT ![r] = [pc |-> "waiting", pair |-> pair]]
            /\ pending' = pending \cup {key}
  /\ UNCHANGED <<app, newest, loaded, realm, known, pinned, scope, cache, shares,
                 answers, writing, appGhosts>>
_auto_resolve(r) == app.sdk = "python" /\ Resolve(r)
resolveOnce(r) == app.sdk = "nextjs" /\ Resolve(r)
Waiting(key) == {r \in Requests : request[r].pc = "waiting" /\ CacheKey(request[r].pair) = key}

(* The token is cached, and every request that waits for it goes on. *)
AnswerUnchecked(pair) ==                         \* mutant: an answer without a token
  /\ pair \in pending /\ pending' = pending \ {pair}
  /\ request' = [r \in Requests |-> IF r \in Waiting(pair)
                   THEN Verifying(request[r].pair, Missing, TRUE) ELSE request[r]]
  /\ UNCHANGED <<app, newest, loaded, realm, known, pinned, scope, cache, shares, answers,
                 writing, appGhosts>>
MintAnswers(pair) ==
  /\ pair \in pending /\ pending' = pending \ {pair}
  /\ mints < MaxMints /\ mints' = mints + 1
  /\ \E p \in Processes :
       LET token == [id |-> mints + 1, pair |-> pair, key |-> signing_key(p), svc |-> realm] IN
       /\ cache' = [cache EXCEPT ![pair] = token]
       /\ request' = [r \in Requests |-> IF r \in Waiting(pair)
                        THEN Verifying(request[r].pair, token, TRUE) ELSE request[r]]
  /\ UNCHANGED <<app, newest, loaded, realm, known, pinned, scope, shares, answers,
                 writing, starts, refused, misled>>
_mint(pair) == app.sdk = "python" /\ MintAnswers(pair)
mint(pair) == app.sdk = "nextjs" /\ MintAnswers(pair)
(* _mint_error: Duar refuses, limits the rate or cannot be reached. *)
MintFails(pair) ==
  /\ pair \in pending /\ pending' = pending \ {pair}
  /\ request' = [r \in Requests |-> IF r \in Waiting(pair) THEN Idle ELSE request[r]]
  /\ UNCHANGED <<app, newest, loaded, realm, known, pinned, scope, cache, shares,
                 answers, writing, appGhosts>>
_mint_error(pair) == app.sdk = "python" /\ MintFails(pair)
resolveErrorResponse(pair) == app.sdk = "nextjs" /\ MintFails(pair)
(* A caller disconnects; its mint, shielded, goes on for the others. *)
CancelsTheMint(r) ==                             \* mutant: not shielded
  /\ request[r].pc = "waiting" /\ request' = [request EXCEPT ![r] = Idle]
  /\ pending' = pending \ {CacheKey(request[r].pair)}
  /\ UNCHANGED <<app, newest, loaded, realm, known, pinned, scope, cache,
                 shares, answers, writing, appGhosts>>
Disconnect(r) ==
  /\ request[r].pc = "waiting" /\ request' = [request EXCEPT ![r] = Idle]
  /\ UNCHANGED <<app, newest, loaded, realm, known, pinned, scope, cache, pending,
                 shares, answers, writing, appGhosts>>
(* Four fifths of a token's time have passed, or 4096 younger ones came. *)
CacheExpires(pair) ==
  /\ cache[pair] # Missing /\ cache' = [cache EXCEPT ![pair] = Missing]
  /\ UNCHANGED <<app, newest, loaded, realm, known, pinned, scope, pending, request,
                 shares, answers, writing, appGhosts>>

(* The key by its kid: from the JWKS at hand, which grows old, or a fetched one,
   from whichever process answers.  The fetch on an unknown kid has a cooldown in
   the library of Next.js (jose), not in that of Python (PyJWKClient). *)
Fetched == \E p \in Processes : known' = build_jwks(p)
CoolingDown(key) == app.sdk = "nextjs" /\ known # {} /\ key \notin known
_decode_authz(key) ==
  \/ Fetched
  \/ (key \in known \/ CoolingDown(key)) /\ known' = known

(* The scopes a token may be for.  Python: whoami's, or the app's own name (0)
   when it failed; Next.js: the configured one, or the app's own name. *)
effective_scope == {scope}
allowedSvc == {0, scope}
ScopesTaken == IF app.sdk = "python" THEN effective_scope ELSE allowedSvc
(* No reason to refuse: the processes agree, and the app knows its scope. *)
Blameless(pair, token) ==
  /\ Settled /\ token.pair = pair /\ token.svc = realm /\ scope = realm
  /\ ~CoolingDown(token.key)

(* From the verification on: a minted token that cannot be verified is dropped
   from the cache; then the binding to the caller and to the scope. *)
Dropped(pair) == cache' = [cache EXCEPT ![CacheKey(pair)] = Missing]
Verify(r) ==
  LET token == request[r].token
      pair == request[r].pair
      verified == token.key \in known'
      bound == token.pair[1] = pair[1] /\ token.svc \in ScopesTaken IN
  /\ request[r].pc = "verifying"
  /\ _decode_authz(token.key)
  /\ IF verified \/ ~request[r].auto THEN UNCHANGED cache ELSE Dropped(pair)
  /\ refused' = IF verified \/ ~request[r].auto THEN refused ELSE refused \cup {token.id}
  /\ request' = [request EXCEPT ![r] =
       IF verified /\ bound THEN [pc |-> "served", pair |-> pair] ELSE Idle]
  /\ misled' = (misled \/ (Blameless(pair, token) /\ request'[r] = Idle))
  /\ UNCHANGED <<app, newest, loaded, realm, pinned, scope, pending, shares, answers,
                 writing, mints, starts>>
dispatch(r) == app.sdk = "python" /\ Verify(r)
middleware(r) == app.sdk = "nextjs" /\ Verify(r)

(* The requests that carry one token and leave no trace but the JWKS: access
   tokens in the proxy mode, of a user in any scope, by the JWKS or by the one
   key an app without network is given; tokens of calls between apps, minted
   earlier or now, by the pinned key (Python) or by the JWKS. *)
OneToken(verified, blameless) ==
  /\ misled' = (misled \/ (Settled /\ blameless /\ ~verified))
  /\ UNCHANGED <<app, newest, loaded, realm, pinned, scope, cache, pending, request,
                 shares, answers, writing, mints, starts, refused>>
JWTAuthMiddleware == \E key \in LiveKeys :
  /\ app.sdk = "python"
  /\ \/ _decode_authz(key) /\ OneToken(key \in known', TRUE)
     \/ known' = known /\ OneToken(key = pinned, key = pinned)
createAccessVerifier == \E key \in LiveKeys :
  app.sdk = "nextjs" /\ _decode_authz(key) /\ OneToken(key \in known', ~CoolingDown(key))

mint_m2m_token == [key : LiveKeys, svc : 1..realm]
verify_m2m_token == \E token \in mint_m2m_token :
  /\ app.sdk = "python" /\ known' = known
  /\ OneToken(token.key = pinned /\ token.svc \in effective_scope,
              token.key = pinned /\ token.svc = realm /\ scope = realm)
verifyM2mToken == \E token \in mint_m2m_token :
  /\ app.sdk = "nextjs" /\ _decode_authz(token.key)
  /\ OneToken(token.key \in known' /\ token.svc = scope,
              token.svc = realm /\ scope = realm /\ ~CoolingDown(token.key))

-----------------------------------------------------------------------------
(* CACHED PERMISSIONS *)

(* A cached answer, or a question to Duar. *)
Writing == writing \in {"sent", "applied"}
Question(r) == <<request[r].pair[1], request[r].ask>>
Ask(r, ask) ==
  /\ app.cache_ttl /\ request[r].pc = "served"
  /\ request' = [request EXCEPT ![r] =
       IF answers[<<@.pair[1], ask>>].version # 0 THEN Idle
       ELSE [pc |-> "asking", pair |-> @.pair, ask |-> ask, late |-> Writing]]
  /\ UNCHANGED <<app, newest, loaded, realm, known, pinned, scope, cache, pending,
                 shares, answers, writing, appGhosts>>
can(r) == Ask(r, "can")
accessible(r) == Ask(r, "accessible")
check(r) ==
  /\ request[r].pc = "asking"
  /\ request' = [request EXCEPT ![r] =
       [pc |-> "told", pair |-> @.pair, ask |-> @.ask, late |-> @.late, version |-> shares]]
  /\ UNCHANGED <<app, newest, loaded, realm, known, pinned, scope, cache, pending,
                 shares, answers, writing, appGhosts>>
CacheAnswer(r) ==
  /\ request[r].pc = "told"
  /\ answers' = [answers EXCEPT ![Question(r)] =
                   [version |-> request[r].version, late |-> request[r].late]]
  /\ request' = [request EXCEPT ![r] = Idle]
  /\ UNCHANGED <<app, newest, loaded, realm, known, pinned, scope, cache, pending,
                 shares, writing, appGhosts>>
AnswerExpires(q) ==
  /\ answers[q] # Unasked /\ answers' = [answers EXCEPT ![q] = Unasked]
  /\ UNCHANGED <<app, newest, loaded, realm, known, pinned, scope, cache, pending,
                 request, shares, writing, appGhosts>>
Finish(r) ==
  /\ request[r].pc = "served" /\ request' = [request EXCEPT ![r] = Idle]
  /\ UNCHANGED <<app, newest, loaded, realm, known, pinned, scope, cache, pending,
                 shares, answers, writing, appGhosts>>

(* The app's own write, by its service key or, after a look at the resource, for
   a user: Duar applies it, its answer comes, and the cached answers go.  A
   question under way while it is sent is marked late. *)
Overlap == [r \in Requests |->
  IF request[r].pc \in {"asking", "told"} THEN [request[r] EXCEPT !.late = TRUE] ELSE request[r]]
WriteGoes(from, to) ==
  /\ writing = from /\ writing' = to
  /\ request' = IF to = "sent" THEN Overlap ELSE request
  /\ UNCHANGED <<app, newest, loaded, realm, known, pinned, scope, cache, pending,
                 answers, appGhosts>>
MayWrite == app.cache_ttl /\ shares <= MaxWrites
register_resource == MayWrite /\ WriteGoes("no", "sent") /\ UNCHANGED shares
share == MayWrite /\ WriteGoes("no", "looking") /\ UNCHANGED shares
unshare == WriteGoes("looking", "sent") /\ UNCHANGED shares
Apply == WriteGoes("sent", "applied") /\ shares' = shares + 1
(* The look or the write is refused: an error, and nothing is invalidated. *)
WriteRefused == (WriteGoes("looking", "no") \/ WriteGoes("sent", "no")) /\ UNCHANGED shares

InvalidateCanOnly == answers' =                  \* mutant: a prefix forgotten
  [q \in Questions |-> IF q[2] = "can" THEN Unasked ELSE answers[q]]
_invalidate_cache == answers' = [q \in Questions |-> Unasked]
Answered(invalidated) ==
  /\ writing = "applied" /\ writing' = "no" /\ invalidated
  /\ UNCHANGED <<app, newest, loaded, realm, known, pinned, scope, cache, pending,
                 request, shares, appGhosts>>
WriteEnds == Answered(_invalidate_cache)
(* Its answer is lost: an error too, although Duar wrote. *)
AnswerLost == Answered(answers' =
  [q \in Questions |-> [answers[q] EXCEPT !.late = (answers[q] # Unasked)]])

AppNext ==
  \/ RotateKey \/ MoveRealm \/ lifespan
  \/ JWTAuthMiddleware \/ createAccessVerifier \/ verify_m2m_token \/ verifyM2mToken
  \/ register_resource \/ share \/ unshare \/ Apply \/ WriteRefused \/ WriteEnds \/ AnswerLost
  \/ \E p \in Processes : reset_cache(p)
  \/ \E q \in Questions : AnswerExpires(q)
  \/ \E pair \in Pairs :
       \/ _mint(pair) \/ mint(pair) \/ CacheExpires(pair)
       \/ _mint_error(pair) \/ resolveErrorResponse(pair)
  \/ \E r \in Requests :
       \/ BothTokens(r) \/ _auto_resolve(r) \/ resolveOnce(r) \/ Disconnect(r)
       \/ dispatch(r) \/ middleware(r)
       \/ can(r) \/ accessible(r) \/ check(r) \/ CacheAnswer(r) \/ Finish(r)
AppSpec == AppInit /\ [][AppNext]_<<appVars, appGhosts>>

-----------------------------------------------------------------------------
(* PROPERTIES *)

(* Rotating a key and restarting apps refuse no valid token: only while Duar's
   processes disagree on the keys, before the app has learnt its scope, or for
   a token of another person or scope, within jose's cooldown, or with another
   key than the one pinned where one is pinned, may a request be turned away. *)
NobodyMisled == ~misled

(* Whatever requests shared a mint, each carries a token of its own caller. *)
MintsFitTheirCallers == \A r \in Requests :
  request[r].pc = "verifying" /\ request[r].auto => request[r].token.pair = request[r].pair

(* A token the app could not verify is never taken from the cache again. *)
RefusedStaysOut == \A pair \in Pairs : cache[pair] # Missing => cache[pair].id \notin refused

(* What is refused is refused for good reason, and once. *)
RefusalsAreRight == NobodyMisled /\ RefusedStaysOut

(* A request that waits for a mint has one under way, whoever else left. *)
WaitersAreServed == \A r \in Requests :
  request[r].pc = "waiting" => CacheKey(request[r].pair) \in pending

(* One mint serves all who wait for it, and serves each what it asked for. *)
SharedMints == WaitersAreServed /\ MintsFitTheirCallers

(* A cached answer is from after the app's own last write, unless the question
   was under way during that write or the write's answer was lost. *)
OwnWritesAreSeen == \A q \in Questions :
  answers[q].version # 0 /\ ~answers[q].late /\ writing # "applied"
    => answers[q].version = shares
=============================================================================
