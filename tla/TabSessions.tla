---------------------------- MODULE TabSessions ----------------------------
(* DuarAuth, the browser client of the proxy mode, in several tabs of one app
   (src/sdks/js/src/client.ts, storage.ts, and React's callback and provider).
   Every tab refreshes on its own timer and on a 401; Web Locks and a re-read
   of the store keep two tabs from sending one refresh token, because the
   server takes a second use for theft and revokes the family.

   A refresh token is its family and its number in it.  A refresh may start
   at any time, by the timer or by a 401, so the timer is no state; and of
   the two broadcasts only a logout changes a tab's state.                  *)
EXTENDS Integers, Sequences, FiniteSets

CONSTANTS Tabs, None,
          Stores,       \* kinds of token store to start with: "local", "memory"
          Locks,        \* the browser has the Web Locks API
          MaxFamilies, MaxRotations    \* bounds: sign-ins, rotations of one session

ASSUME TabSessionsAssumption ==
  Tabs # {} /\ None \notin Tabs \cup [family : Nat, number : Nat]

VARIABLES
  kind,      \* the store the app configured
  store,     \* the refresh token each tab reads; one value for all with "local"
  page,      \* what the tab shows: the app, the provider's login, our callback;
             \* "closed" when the provider component is unmounted
  sending,   \* per tab, refreshPromise: where it is and the token it captured
  lock,      \* the tab that holds duar:refresh:<clientId>
  told,      \* tabs with an unhandled logout in their channel
  orphans,   \* refreshes on the wire whose page is gone
  server     \* per family, the newest token's number; 0 once it is revoked
tabVars == <<kind, store, page, sending, lock, told, orphans, server>>

VARIABLES
  lost,      \* families one of whose answers never arrived
  ended,     \* families whose user signed out
  crossed,   \* families signed in while a refresh or a logout was under way
  out        \* signed out, with nothing on the wire then or since
tabGhosts == <<lost, ended, crossed, out>>

Rest == [pc |-> "idle", token |-> None]
Families == DOMAIN server
Newest == Len(server)
Listening(t) == page[t] \in {"app", "callback"}

TypeOK ==
  /\ kind \in Stores
  /\ \A t \in Tabs :
       /\ page[t] \in {"app", "provider", "callback", "closed"}
       /\ store[t] = None \/ (store[t].family \in Families /\ store[t].number > 0)
       /\ sending[t].pc \in {"idle", "waiting", "sent", "rotated", "refused", "failed"}
       /\ sending[t].token = None <=> sending[t].pc = "idle"
  /\ lock # None => sending[lock].pc \notin {"idle", "waiting"}
  /\ \A t \in told : Listening(t)
  /\ kind = "local" => Cardinality({store[t] : t \in Tabs}) = 1

TabsInit ==
  /\ kind \in Stores
  /\ store = [t \in Tabs |-> None] /\ page = [t \in Tabs |-> "app"]
  /\ sending = [t \in Tabs |-> Rest] /\ lock = None /\ told = {}
  /\ orphans = {} /\ server = << >>
  /\ lost = {} /\ ended = {} /\ crossed = {} /\ out = FALSE

-----------------------------------------------------------------------------
(* REFRESHING *)

(* setTokens and clear: localStorage is one for all tabs, a MemoryStore or
   sessionStorage is each tab's own. *)
Put(t, token) ==
  store' = [x \in Tabs |-> IF x = t \/ kind = "local" THEN token ELSE store[x]]

(* refresh: one at a time in a tab; the token is captured before the lock. *)
refresh(t) ==
  /\ Listening(t) /\ store[t] # None /\ sending[t].pc = "idle"
  /\ server[store[t].family] <= MaxRotations
  /\ sending' = [sending EXCEPT ![t] = [pc |-> "waiting", token |-> store[t]]]
  /\ UNCHANGED <<kind, store, page, lock, told, orphans, server, tabGhosts>>

RefreshBlindly(t, allowNetwork) == sending' = [sending EXCEPT ![t].pc = "sent"]
RefreshRereading(t, allowNetwork) ==
  sending' = [sending EXCEPT ![t] =
    IF store[t] = @.token THEN [@ EXCEPT !.pc = "sent"] ELSE Rest]

(* _doRefresh up to its fetch.  Another tab may have rotated, or signed out,
   since the token was captured: then there is nothing left to send. *)
_doRefresh(t, allowNetwork) ==
  sending' = [sending EXCEPT ![t] =
    IF store[t] = @.token /\ allowNetwork THEN [@ EXCEPT !.pc = "sent"] ELSE Rest]

(* _refreshLocked: the lock is held from the re-read to the answer; without
   Web Locks there is only the re-read; after five seconds in the queue the
   token is not sent any more. *)
_refreshLocked(t) ==
  /\ sending[t].pc = "waiting"
  /\ \/ /\ ~Locks \/ lock = None
        /\ _doRefresh(t, TRUE)
        /\ lock' = IF Locks /\ sending'[t].pc = "sent" THEN t ELSE lock
     \/ /\ Locks /\ lock # None
        /\ _doRefresh(t, FALSE)
        /\ UNCHANGED lock
  /\ out' = (out /\ sending'[t].pc # "sent")
  /\ UNCHANGED <<kind, store, page, told, orphans, server, lost, ended, crossed>>

(* The server rotates the newest token of a live family; any other one it
   takes for stolen, and revokes the family. *)
Serve(token) ==
  server' = [server EXCEPT ![token.family] = IF @ = token.number THEN @ + 1 ELSE 0]
Answer(t) ==
  LET token == sending[t].token IN
  /\ sending[t].pc = "sent" /\ Serve(token)
  /\ sending' = [sending EXCEPT ![t].pc =
                   IF server[token.family] = token.number THEN "rotated" ELSE "refused"]
  /\ UNCHANGED <<kind, store, page, lock, told, orphans, tabGhosts>>
AnswerOrphan(token) ==
  /\ Serve(token) /\ orphans' = orphans \ {token}
  /\ UNCHANGED <<kind, store, page, sending, lock, told, tabGhosts>>

(* The request or its answer is lost, or the answer is an error but no 401. *)
OnTheWire(t) == IF sending[t].pc = "sent" THEN {sending[t].token} ELSE {}
Unanswered(t) ==
  IF sending[t].pc \in {"sent", "rotated"} THEN {sending[t].token.family} ELSE {}
Lose(t) ==
  /\ Unanswered(t) # {}
  /\ lost' = lost \cup Unanswered(t) /\ orphans' = orphans \cup OnTheWire(t)
  /\ sending' = [sending EXCEPT ![t].pc = "failed"]
  /\ UNCHANGED <<kind, store, page, lock, told, server, ended, crossed, out>>

(* The answer: a new token is stored, a 401 clears the store, whatever it
   holds by now, and a failure leaves it. *)
RefreshEnds(t) ==
  /\ \/ sending[t].pc = "rotated" /\ Put(t, [sending[t].token EXCEPT !.number = @ + 1])
     \/ sending[t].pc = "refused" /\ Put(t, None)
     \/ sending[t].pc = "failed" /\ UNCHANGED store
  /\ sending' = [sending EXCEPT ![t] = Rest]
  /\ lock' = IF lock = t THEN None ELSE lock
  /\ UNCHANGED <<kind, page, told, orphans, server, tabGhosts>>

-----------------------------------------------------------------------------
(* SIGNING IN AND OUT *)

(* A page goes away: its requests are answered to nobody, and what it kept in
   memory is gone. *)
Unload(t, next) ==
  /\ page' = [page EXCEPT ![t] = next] /\ told' = told \ {t}
  /\ store' = IF kind = "local" THEN store ELSE [store EXCEPT ![t] = None]
  /\ sending' = [sending EXCEPT ![t] = Rest] /\ lock' = IF lock = t THEN None ELSE lock
  /\ orphans' = orphans \cup OnTheWire(t) /\ lost' = lost \cup Unanswered(t)
  /\ ended' = IF kind = "local" \/ store[t] = None THEN ended
              ELSE ended \cup {store[t].family}
  /\ UNCHANGED <<kind, server, crossed, out>>

(* login leaves for the provider, its state and verifier in sessionStorage;
   verifyCallbackState admits the way back once. *)
login(t) == page[t] = "app" /\ Newest < MaxFamilies /\ Unload(t, "provider")
verifyCallbackState(t) == page[t] = "provider" /\ Unload(t, "callback")
Reload(t) == page[t] # "provider" /\ Unload(t, "app")

(* AuthCallback exchanges the code with the login's verifier. *)
UnderWay == told # {} \/ \E x \in Tabs : sending[x].pc # "idle"
selectWorkspace(t) ==
  /\ page[t] = "callback" /\ Newest < MaxFamilies
  /\ page' = [page EXCEPT ![t] = "app"]
  /\ server' = Append(server, 1) /\ Put(t, [family |-> Newest + 1, number |-> 1])
  /\ crossed' = IF UnderWay THEN crossed \cup {Newest + 1} ELSE crossed
  /\ out' = FALSE
  /\ UNCHANGED <<kind, sending, lock, told, orphans, lost, ended>>

(* logout clears the store and tells the other tabs, not the server.  (A
   logout is modelled while no earlier one is unhandled.) *)
TellNobody(t) == {}                                           \* mutant: not broadcast
Siblings(t) == {x \in Tabs \ {t} : Listening(x)}
logout(t) ==
  /\ Listening(t) /\ store[t] # None /\ told = {}
  /\ Put(t, None) /\ told' = Siblings(t)
  /\ ended' = ended \cup {store[t].family}
  /\ out' = \A x \in Tabs : /\ sending[x].pc \in {"idle", "waiting"}
                            /\ page[x] \in {"app", "provider"}
  /\ UNCHANGED <<kind, page, sending, lock, orphans, server, lost, crossed>>

(* onBroadcast: the sibling's logout is carried out on this tab's store. *)
onBroadcast(t) ==
  /\ t \in told
  /\ told' = told \ {t} /\ Put(t, None)
  /\ ended' = IF kind = "local" \/ store[t] = None THEN ended
              ELSE ended \cup {store[t].family}
  /\ UNCHANGED <<kind, page, sending, lock, orphans, server, lost, crossed, out>>

(* destroy: the provider unmounts.  The channel is closed; a refresh that is
   under way goes on. *)
destroy(t) ==
  /\ page[t] = "app"
  /\ page' = [page EXCEPT ![t] = "closed"] /\ told' = told \ {t}
  /\ out' = (out /\ store[t] = None)
  /\ UNCHANGED <<kind, store, sending, lock, orphans, server, lost, ended, crossed>>

TabsNext ==
  \/ \E t \in Tabs :
       \/ refresh(t) \/ _refreshLocked(t) \/ Answer(t) \/ Lose(t) \/ RefreshEnds(t)
       \/ login(t) \/ verifyCallbackState(t) \/ selectWorkspace(t) \/ Reload(t)
       \/ logout(t) \/ onBroadcast(t) \/ destroy(t)
  \/ \E token \in orphans : AnswerOrphan(token)
TabsSpec == TabsInit /\ [][TabsNext]_<<tabVars, tabGhosts>>

-----------------------------------------------------------------------------
(* PROPERTIES *)

(* The tabs never look like a thief to the server: with Web Locks, a family
   is revoked only if one of its answers was lost on the way. *)
TabsAreNoThieves == Locks => \A f \in Families : server[f] = 0 => f \in lost

(* A session stays until its user signs out: no timeout, no late answer and
   no other tab's refresh takes it away.  The exceptions: an answer was lost,
   or the sign-in came while a refresh or a logout's message was still under
   way. *)
SessionIsKept ==
  (Locks /\ Newest > 0 /\ Newest \notin ended \cup lost \cup crossed)
    => \E t \in Tabs : store[t] # None /\ store[t].family = Newest

(* Signing out in one tab signs every tab out once the message has arrived,
   one whose refresh was waiting for the lock included, unless a request was
   on the wire meanwhile. *)
SignedOutEverywhere == out => \A t \in Tabs : store[t] = None \/ t \in told
=============================================================================
