----------------------------- MODULE AuthzTabs -----------------------------
(* DuarAuthz, the browser client of the authz mode, in several tabs of one app
   (src/sdks/js/src/authz-client.ts, authz-storage.ts, and React's provider
   and callback).  A session is two tokens: the identity provider's, kept in
   each tab's memory, and Duar's, kept with the workspace in localStorage for
   all tabs.  A page load loses the first; the provider then sends the browser
   through the identity provider and back by itself (autoReauth), which must
   not go round in circles.

   The authz token is a record of the user and the workspace it was minted for;
   a refresh may start at any time, so timers and expiry are no state.       *)
EXTENDS Integers, FiniteSets

CONSTANTS ATabs, Nothing,
          MemberOf,      \* the workspaces of each user of the identity provider
          MaxRedirects   \* bound: redirects to the identity provider
ASSUME AuthzTabsAssumption == MaxRedirects \in Nat
People == DOMAIN MemberOf

VARIABLES
  authz,     \* the authz token each tab reads; one value for all tabs
  identity,  \* per tab, whose IdP token its memory holds
  screen,    \* "app", "idp", "callback", or "picker" once the callback is read
  asked,     \* the tab's sessionStorage holds a nonce
  silent,    \* ... and a silent attempt's marker: "no", "fresh", "stale"
  brought,   \* what the callback brought: an IdP token's owner, or an error
  minting    \* per tab, the exchange at the mint endpoint that is under way
authzVars == <<authz, identity, screen, asked, silent, brought, minting>>

VARIABLES
  redirects,     \* redirects so far
  automatic,     \* per tab, those no user asked for since its last action ...
  expiries,      \* ... and how often a silent attempt's marker grew stale
  answeredTo,    \* per tab, the people the identity provider sent back to it
  signedOut      \* signed out, with no sign-in or exchange under way since
authzGhosts == <<redirects, automatic, expiries, answeredTo, signedOut>>

NoMint == [user |-> Nothing]
AuthzTypeOK ==
  /\ authz # Nothing => authz.workspace \in MemberOf[authz.user]
  /\ \A t \in ATabs :
       /\ identity[t] \in People \cup {Nothing}
       /\ screen[t] \in {"app", "idp", "callback", "picker"}
       /\ screen[t] \in {"callback", "picker"} <=> brought[t].state # "none"
       /\ screen[t] = "idp" => asked[t]
       /\ silent[t] \in {"no", "fresh", "stale"}
       /\ minting[t].user # Nothing => screen[t] \in {"app", "picker"}
  /\ redirects \in 0..MaxRedirects

Unread == [state |-> "none"]
AuthzInit ==
  /\ authz = Nothing /\ identity = [t \in ATabs |-> Nothing]
  /\ screen = [t \in ATabs |-> "app"] /\ asked = [t \in ATabs |-> FALSE]
  /\ silent = [t \in ATabs |-> "no"] /\ brought = [t \in ATabs |-> Unread]
  /\ minting = [t \in ATabs |-> NoMint]
  /\ redirects = 0 /\ automatic = [t \in ATabs |-> 0]
  /\ expiries = [t \in ATabs |-> 0] /\ answeredTo = [t \in ATabs |-> {}]
  /\ signedOut = FALSE

-----------------------------------------------------------------------------
(* LEAVING FOR THE IDENTITY PROVIDER AND COMING BACK *)

(* What a page that loads leaves for the next one: the shared token, the tab's
   nonce and silent marker.  What it kept in memory is gone. *)
Load(t, token, nonce, marker, next) ==
  /\ authz' = token
  /\ asked' = [asked EXCEPT ![t] = nonce] /\ silent' = [silent EXCEPT ![t] = marker]
  /\ screen' = [screen EXCEPT ![t] = next]
  /\ identity' = [identity EXCEPT ![t] = Nothing]
  /\ minting' = [minting EXCEPT ![t] = NoMint]

Redirect(t, token, marker) ==
  /\ redirects < MaxRedirects /\ redirects' = redirects + 1
  /\ Load(t, token, TRUE, marker, "idp")

(* login: an interactive redirect takes the silent marker away. *)
Asks(t) ==   \* the user acts: the count of automatic redirects starts anew
  automatic' = [automatic EXCEPT ![t] = 0] /\ expiries' = [expiries EXCEPT ![t] = 0]
AuthzLogin(t) ==
  /\ screen[t] = "app"
  /\ Redirect(t, authz, "no") /\ Asks(t) /\ signedOut' = FALSE
  /\ UNCHANGED <<brought, answeredTo>>

(* silentInFlight: an attempt less than a minute old. *)
silentInFlight(marker) == marker = "fresh"

(* AuthzProvider's effect, with autoReauth, runs after those of the pages below
   it: with an authz token and no IdP token, silentLogin leaves for the provider
   unless an attempt is under way. *)
AuthzProvider(t, token, nonce, marker, next, count) ==
  IF token # Nothing /\ ~silentInFlight(marker)
  THEN Redirect(t, token, "fresh") /\ automatic' = [automatic EXCEPT ![t] = count + 1]
  ELSE /\ Load(t, token, nonce, marker, next) /\ UNCHANGED redirects
       /\ automatic' = [automatic EXCEPT ![t] = count]

(* The user opens or reloads the app. *)
AuthzReload(t) ==
  /\ screen[t] # "idp"
  /\ AuthzProvider(t, authz, asked[t], silent[t], "app", 0)
  /\ expiries' = [expiries EXCEPT ![t] = 0]
  /\ brought' = [brought EXCEPT ![t] = Unread]
  /\ UNCHANGED <<answeredTo, signedOut>>

(* The identity provider sends the browser back, with the token of the account
   that is signed in there or with an error; and a link can open the callback
   in a tab that did not ask. *)
Answers == {[state |-> "error"]} \cup [state : {"token"}, owner : People]
IdpAnswers(t) ==
  /\ screen[t] = "idp"
  /\ \E answer \in Answers :
       /\ brought' = [brought EXCEPT ![t] = answer]
       /\ answeredTo' = IF answer.state = "error" THEN answeredTo
                        ELSE [answeredTo EXCEPT ![t] = @ \cup {answer.owner}]
  /\ screen' = [screen EXCEPT ![t] = "callback"]
  /\ UNCHANGED <<authz, identity, asked, silent, minting, redirects, automatic,
                 expiries, signedOut>>
StrayAnswer(t) ==
  /\ screen[t] = "app" /\ ~asked[t]
  /\ \E p \in People : brought' = [brought EXCEPT ![t] = [state |-> "token", owner |-> p]]
  /\ Load(t, authz, FALSE, silent[t], "callback") /\ Asks(t)
  /\ UNCHANGED <<redirects, answeredTo, signedOut>>

(* handleCallback, and then the provider's effect.  A silent attempt's error
   signs out; a token nobody asked for is an error of its own; a success keeps
   the silent marker, for the provider to see, until selectWorkspace. *)
MarkerClearedEarly(t) ==                         \* mutant: cleared on every answer
  LET answer == brought[t] IN
  /\ screen[t] = "callback"
  /\ AuthzProvider(t, authz, FALSE, "no",
                   IF answer.state = "token" THEN "picker" ELSE "app", automatic[t])
  /\ brought' = [brought EXCEPT ![t] = IF screen'[t] = "picker" THEN answer ELSE Unread]
  /\ UNCHANGED <<expiries, answeredTo, signedOut>>
handleCallback(t) ==
  LET answer == brought[t]
      error == answer.state = "error" IN
  /\ screen[t] = "callback"
  /\ \/ /\ error /\ silent[t] # "no"
        /\ AuthzProvider(t, Nothing, FALSE, "no", "app", automatic[t])
     \/ /\ error /\ silent[t] = "no"
        /\ AuthzProvider(t, authz, FALSE, "no", "app", automatic[t])
     \/ /\ ~error /\ ~asked[t]
        /\ AuthzProvider(t, authz, FALSE, silent[t], "app", automatic[t])
     \/ /\ ~error /\ asked[t]
        /\ AuthzProvider(t, authz, FALSE, silent[t], "picker", automatic[t])
  /\ brought' = [brought EXCEPT ![t] = IF screen'[t] = "picker" THEN answer ELSE Unread]
  /\ UNCHANGED <<expiries, answeredTo, signedOut>>

(* A minute passes: the attempt no longer counts as under way. *)
MarkerExpires(t) ==
  /\ silent[t] = "fresh"
  /\ silent' = [silent EXCEPT ![t] = "stale"]
  /\ expiries' = [expiries EXCEPT ![t] = @ + 1]
  /\ UNCHANGED <<authz, identity, screen, asked, brought, minting, redirects,
                 automatic, answeredTo, signedOut>>

-----------------------------------------------------------------------------
(* EXCHANGING THE IDP TOKEN *)

(* selectWorkspace, from the picker or by a refresh, asks the app's backend;
   the user chooses among the workspaces resolve listed. *)
Exchange(t, user, workspace) ==
  /\ minting' = [minting EXCEPT ![t] = [user |-> user, workspace |-> workspace]]
  /\ UNCHANGED <<authz, identity, silent, screen, asked, brought, redirects, automatic,
                 expiries, answeredTo, signedOut>>
handleSelectWorkspace(t) ==
  /\ screen[t] = "picker" /\ minting[t] = NoMint
  /\ \E w \in MemberOf[brought[t].owner] : Exchange(t, brought[t].owner, w)

(* clear: this tab's IdP token and, for all tabs, the stored session. *)
clear(t) ==
  /\ authz' = Nothing /\ identity' = [identity EXCEPT ![t] = Nothing]
  /\ minting' = [minting EXCEPT ![t] = NoMint]

(* _doRefresh, by the timer or on a 401: it takes the IdP token from this tab
   and the workspace from the store; with one of them gone it clears. *)
AuthzRefresh(t) ==
  /\ screen[t] = "app" /\ minting[t] = NoMint
  /\ \/ /\ identity[t] # Nothing /\ authz # Nothing
        /\ Exchange(t, identity[t], authz.workspace)
     \/ /\ identity[t] = Nothing \/ authz = Nothing
        /\ clear(t)
        /\ UNCHANGED <<screen, asked, silent, brought, redirects, automatic, expiries,
                       answeredTo, signedOut>>

(* The answer: the new token and this tab's identity are stored together; or
   the backend refuses, or cannot be reached: a refresh then clears, a sign-in
   shows its error. *)
ExchangeEnds(t) ==
  LET m == minting[t] IN
  /\ m.user # Nothing
  /\ \/ /\ m.workspace \in MemberOf[m.user]
        /\ authz' = m /\ identity' = [identity EXCEPT ![t] = m.user]
        /\ silent' = [silent EXCEPT ![t] = "no"]
        /\ minting' = [minting EXCEPT ![t] = NoMint]
     \/ screen[t] = "app" /\ clear(t) /\ UNCHANGED silent
     \/ /\ screen[t] = "picker"
        /\ minting' = [minting EXCEPT ![t] = NoMint] /\ UNCHANGED <<authz, identity, silent>>
  /\ screen' = [screen EXCEPT ![t] = "app"] /\ brought' = [brought EXCEPT ![t] = Unread]
  /\ UNCHANGED <<asked, redirects, automatic, expiries, answeredTo, signedOut>>

AuthzLogout(t) ==
  /\ screen[t] = "app" /\ minting[t] = NoMint /\ authz # Nothing
  /\ clear(t) /\ silent' = [silent EXCEPT ![t] = "no"]
  /\ signedOut' = \A x \in ATabs : screen[x] = "app" /\ minting[x] = NoMint
  /\ UNCHANGED <<screen, asked, brought, redirects, automatic, expiries, answeredTo>>

AuthzNext == \E t \in ATabs :
  \/ AuthzLogin(t) \/ AuthzReload(t) \/ IdpAnswers(t) \/ StrayAnswer(t)
  \/ handleCallback(t) \/ MarkerExpires(t) \/ handleSelectWorkspace(t)
  \/ AuthzRefresh(t) \/ ExchangeEnds(t) \/ AuthzLogout(t)
AuthzSpec == AuthzInit /\ [][AuthzNext]_<<authzVars, authzGhosts>>

-----------------------------------------------------------------------------
(* PROPERTIES *)

(* A tab is sent to the identity provider by itself once, and once more for
   each attempt that took more than a minute; then it waits for its user. *)
NoRedirectLoop == \A t \in ATabs : automatic[t] <= 1 + expiries[t]

(* A tab works as an account only if the identity provider sent that account
   back to this very tab. *)
OwnLoginsOnly == \A t \in ATabs : identity[t] # Nothing => identity[t] \in answeredTo[t]

(* A redirect brings its own tab an account of its own, and ends. *)
LoginsComeBack == NoRedirectLoop /\ OwnLoginsOnly

(* Once a user has signed out, no tab's IdP token signs the app in again. *)
SignedOutForGood == signedOut => authz = Nothing
=============================================================================
