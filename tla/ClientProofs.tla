---------------------------- MODULE ClientProofs ----------------------------
(***************************************************************************)
(* Theorems of the client side, for any tabs, sign-ins, rotations, users   *)
(* and redirects, and for any requests, callers, workspaces, key rotations *)
(* and starts of an app's backend.                                         *)
(***************************************************************************)
EXTENDS MCClients, FiniteSetTheorems, TLAPS

-----------------------------------------------------------------------------
(* TABSESSIONS: the tabs never look like a thief. *)

Tokens == [family : Nat, number : Nat]
Busy == {"sent", "rotated", "refused", "failed"}

(* The tokens a tab has in its hands: what it would read, what it captured. *)
Held(t) == {store[t], sending[t].token} \ {None}

Typed ==
  /\ server \in Seq(Nat)
  /\ store \in [Tabs -> Tokens \cup {None}]
  /\ sending \in [Tabs -> [pc : {"idle", "waiting"} \cup Busy, token : Tokens \cup {None}]]
  /\ \A t \in Tabs : sending[t].pc # "idle" => sending[t].token # None
  /\ \A t \in Tabs : \A k \in Held(t) : k \in Tokens /\ k.family \in Families
  /\ orphans \subseteq Tokens
  /\ \A k \in orphans : k.family \in Families

(* The lock is held from before the fetch until after the answer. *)
Serialized == \A t \in Tabs : sending[t].pc \in Busy => lock = t

(* Without a shared store, no two tabs know the same session. *)
Owned == kind # "local" =>
  \A t, x \in Tabs : t # x => \A k \in Held(t), m \in Held(x) : k.family # m.family

(* What a tab would read is the newest token, but for the time between the
   server's rotation and the tab's setTokens. *)
Rotated(f) == \E x \in Tabs : sending[x].pc = "rotated" /\ sending[x].token.family = f
Current == \A t \in Tabs : store[t] # None /\ store[t].family \notin lost =>
  server[store[t].family] = IF Rotated(store[t].family) THEN store[t].number + 1
                                                        ELSE store[t].number

(* What is on the wire is the newest token, and what came back is newer by one. *)
OnWire == \A t \in Tabs : sending[t].token # None /\ sending[t].token.family \notin lost =>
  /\ sending[t].pc = "sent" => server[sending[t].token.family] = sending[t].token.number
  /\ sending[t].pc = "rotated" => server[sending[t].token.family] = sending[t].token.number + 1

OrphansAreLost == \A k \in orphans : k.family \in lost

Serial == Locks => /\ Serialized /\ Owned /\ Current /\ OnWire /\ OrphansAreLost
                   /\ TabsAreNoThieves
IInv == Typed /\ Serial

-----------------------------------------------------------------------------

(* With the lock, a tab is the only one between its fetch and its answer. *)
LEMMA Alone ==
  ASSUME IInv, Locks, NEW t \in Tabs, sending[t].pc \in Busy \/ lock = None
  PROVE  \A x \in Tabs : x # t => sending[x].pc \notin Busy
BY TabSessionsAssumption DEF IInv, Serial, Serialized

LEMMA refreshOK == ASSUME IInv, NEW t \in Tabs, refresh(t) PROVE IInv'
<1>1. Typed'
  BY DEF IInv, Typed, refresh, Held, Families, Busy
<1>2. ASSUME Locks PROVE Serial'
  <2>1. /\ Serialized' /\ OrphansAreLost' /\ TabsAreNoThieves'
    BY <1>2 DEF IInv, Typed, Serial, refresh, Serialized, OrphansAreLost, TabsAreNoThieves,
                tabGhosts, Families, Busy
  <2>2. Owned'
    BY <1>2 DEF IInv, Typed, Serial, refresh, Owned, Held
  <2>3. \A f : Rotated(f)' = Rotated(f)
    BY DEF IInv, Typed, refresh, Rotated
  <2>4. Current'
    BY <1>2, <2>3 DEF IInv, Serial, refresh, Current, tabGhosts
  <2>5. OnWire'
    BY <1>2 DEF IInv, Typed, Serial, refresh, OnWire, tabGhosts
  <2> QED BY <1>2, <2>1, <2>2, <2>4, <2>5 DEF Serial
<1> QED BY <1>1, <1>2 DEF IInv, Serial

LEMMA refreshLockedOK == ASSUME IInv, NEW t \in Tabs, _refreshLocked(t) PROVE IInv'
<1>0. sending[t] \in [pc : {"idle", "waiting"} \cup Busy, token : Tokens \cup {None}]
  BY DEF IInv, Typed
<1>1. PICK allow \in BOOLEAN : _doRefresh(t, allow) /\ (Locks /\ allow => lock = None)
  BY DEF _refreshLocked
<1>2. /\ sending' \in [Tabs -> [pc : {"idle", "waiting"} \cup Busy, token : Tokens \cup {None}]]
      /\ \A x \in Tabs : x # t => sending'[x] = sending[x]
  BY <1>0, <1>1 DEF IInv, Typed, _doRefresh, Rest, Busy
<1>3. \/ sending'[t] = Rest
      \/ /\ sending'[t] = [sending[t] EXCEPT !.pc = "sent"]
         /\ store[t] = sending[t].token /\ (Locks => lock = None)
  BY <1>0, <1>1 DEF IInv, Typed, _doRefresh
<1>4. Typed'
  <2>1. \A x \in Tabs : Held(x)' \subseteq Held(x)
    BY <1>0, <1>2, <1>3 DEF _refreshLocked, Held, Rest
  <2>2. \A x \in Tabs : sending'[x].pc # "idle" => sending'[x].token # None
    BY <1>0, <1>2, <1>3 DEF IInv, Typed, _refreshLocked, Rest
  <2> QED BY <1>2, <2>1, <2>2 DEF IInv, Typed, _refreshLocked, Families
<1>5. ASSUME Locks PROVE Serial'
  <2>1. Serialized'
    <3>1. CASE sending'[t] = Rest
      <4>1. sending'[t].pc = "idle"
        BY <3>1 DEF Rest
      <4>2. lock' = lock
        BY <4>1 DEF _refreshLocked
      <4> QED BY <1>2, <1>5, <4>1, <4>2 DEF IInv, Serial, Serialized, Busy
    <3>2. CASE sending'[t] = [sending[t] EXCEPT !.pc = "sent"] /\ lock = None
      <4>1. lock' = t
        BY <1>0, <1>5, <3>2 DEF _refreshLocked
      <4>2. \A x \in Tabs : x # t => sending'[x].pc \notin Busy
        BY <1>2, <1>5, <3>2, Alone
      <4> QED BY <4>1, <4>2 DEF Serialized
    <3> QED BY <1>3, <1>5, <3>1, <3>2
  <2>2. OrphansAreLost' /\ TabsAreNoThieves'
    BY <1>5 DEF IInv, Serial, _refreshLocked, OrphansAreLost, TabsAreNoThieves, Families
  <2>3. Owned'
    BY <1>0, <1>2, <1>3, <1>5 DEF IInv, Serial, _refreshLocked, Owned, Held, Rest
  <2>4. \A f : Rotated(f)' = Rotated(f)
    BY <1>0, <1>2, <1>3 DEF Rotated, Rest, _refreshLocked
  <2>5. Current'
    BY <1>5, <2>4 DEF IInv, Serial, _refreshLocked, Current
  <2>6. OnWire'
    <3>1. CASE sending'[t] = Rest
      BY <1>2, <1>5, <3>1 DEF IInv, Serial, _refreshLocked, OnWire, Rest
    <3>2. CASE sending'[t] = [sending[t] EXCEPT !.pc = "sent"] /\ store[t] = sending[t].token
               /\ lock = None
      <4>1. \A f : ~Rotated(f)
        BY <1>5, <3>2, Alone, TabSessionsAssumption DEF Rotated, Busy, IInv, Serial, Serialized
      <4> QED BY <1>0, <1>2, <1>5, <3>2, <4>1 DEF IInv, Serial, Current, _refreshLocked, OnWire
    <3> QED BY <1>3, <1>5, <3>1, <3>2
  <2> QED BY <1>5, <2>1, <2>2, <2>3, <2>5, <2>6 DEF Serial
<1> QED BY <1>4, <1>5 DEF IInv, Serial

LEMMA AnswerOK == ASSUME IInv, NEW t \in Tabs, Answer(t) PROVE IInv'
<1> DEFINE token == sending[t].token
           f == token.family
<1>0. /\ sending[t] \in [pc : {"idle", "waiting"} \cup Busy, token : Tokens \cup {None}]
      /\ token \in Tokens /\ f \in Families /\ f \in Nat /\ token.number \in Nat
      /\ server \in [Families -> Nat] /\ token # None
  BY DEF IInv, Typed, Held, Answer, Tokens, Families
<1>1. /\ server' \in [Families -> Nat] /\ server' \in Seq(Nat) /\ Families' = Families
      /\ \A g \in Families : g # f => server'[g] = server[g]
      /\ server'[f] = IF server[f] = token.number THEN server[f] + 1 ELSE 0
  BY <1>0 DEF Answer, Serve, Families, IInv, Typed
<1>2. /\ \A x \in Tabs : x # t => sending'[x] = sending[x]
      /\ sending'[t].token = token
      /\ sending'[t].pc = IF server[f] = token.number THEN "rotated" ELSE "refused"
      /\ sending' \in [Tabs -> [pc : {"idle", "waiting"} \cup Busy, token : Tokens \cup {None}]]
  BY <1>0 DEF Answer, IInv, Typed, Busy
<1>3. Typed'
  BY <1>0, <1>1, <1>2 DEF IInv, Typed, Answer, Held, Busy
<1>4. ASSUME Locks PROVE Serial'
  <2>0. /\ \A x \in Tabs : x # t => sending[x].pc \notin Busy
        /\ \A g : ~Rotated(g)
    BY <1>0, <1>4, Alone DEF Answer, Busy, Rotated
  <2>1. Serialized'
    BY <1>0, <1>2, <1>4 DEF IInv, Serial, Serialized, Answer, Busy
  <2>2. f \notin lost => server[f] = token.number
    BY <1>0, <1>4 DEF IInv, Serial, OnWire, Answer
  <2>3. OrphansAreLost' /\ TabsAreNoThieves'
    BY <1>0, <1>1, <1>4, <2>2 DEF IInv, Serial, Answer, OrphansAreLost, TabsAreNoThieves, tabGhosts
  <2>4. Owned'
    BY <1>2, <1>4 DEF IInv, Serial, Answer, Owned, Held
  <2>5. \A g : g # f => ~Rotated(g)'
    BY <1>2, <2>0 DEF Rotated, Busy
  <2>6. \A g : g = f /\ g \notin lost => Rotated(g)'
    BY <1>2, <2>2 DEF Rotated
  <2>7. Current'
    <3> SUFFICES ASSUME NEW x \in Tabs, store[x] # None,
                        NEW g, g = store[x].family, g \notin lost
                 PROVE  server'[g] = IF Rotated(g)' THEN store[x].number + 1 ELSE store[x].number
      BY DEF Current, Answer, tabGhosts
    <3>1. g \in Families /\ server[g] = store[x].number
      BY <1>4, <2>0 DEF IInv, Typed, Held, Serial, Current
    <3>2. CASE g = f
      BY <1>0, <1>1, <2>2, <2>6, <3>1, <3>2
    <3>3. CASE g # f
      BY <1>1, <2>5, <3>1, <3>3
    <3> QED BY <3>2, <3>3
  <2>8. OnWire'
    BY <1>0, <1>1, <1>2, <1>4, <2>0, <2>2 DEF OnWire, Answer, tabGhosts, Busy
  <2> QED BY <1>4, <2>1, <2>3, <2>4, <2>7, <2>8 DEF Serial
<1> QED BY <1>3, <1>4 DEF IInv, Serial

LEMMA AnswerOrphanOK == ASSUME IInv, NEW k \in orphans, AnswerOrphan(k) PROVE IInv'
<1>0. /\ k.family \in Families /\ server \in [Families -> Nat]
      /\ k.family \in Nat /\ k.number \in Nat
  BY DEF IInv, Typed, Tokens, Families
<1>1. /\ server' \in Seq(Nat) /\ server' \in [Families -> Nat] /\ Families' = Families
      /\ \A g \in Families : g # k.family => server'[g] = server[g]
  BY <1>0 DEF AnswerOrphan, Serve, Families, IInv, Typed
<1>2. Typed'
  BY <1>1 DEF IInv, Typed, AnswerOrphan, Held
<1>3. ASSUME Locks PROVE Serial'
  <2>1. k.family \in lost
    BY <1>3 DEF IInv, Serial, OrphansAreLost
  <2>2. Serialized' /\ Owned' /\ OrphansAreLost'
    BY <1>3 DEF IInv, Serial, AnswerOrphan, Serialized, Owned, Held, OrphansAreLost, tabGhosts
  <2>3. TabsAreNoThieves'
    BY <1>1, <1>3, <2>1 DEF IInv, Serial, AnswerOrphan, TabsAreNoThieves, tabGhosts
  <2>4. \A g : Rotated(g)' = Rotated(g)
    BY DEF Rotated, AnswerOrphan
  <2>5. \A x \in Tabs : \A m \in Held(x) : m.family \notin lost => server'[m.family] = server[m.family]
    BY <1>1, <2>1 DEF IInv, Typed
  <2>6. Current'
    BY <1>3, <2>4, <2>5 DEF IInv, Serial, AnswerOrphan, Current, tabGhosts, Held
  <2>7. OnWire'
    BY <1>3, <2>5 DEF IInv, Serial, AnswerOrphan, OnWire, tabGhosts, Held
  <2> QED BY <1>3, <2>2, <2>3, <2>6, <2>7 DEF Serial
<1> QED BY <1>2, <1>3 DEF IInv, Serial

(* A tab's refresh comes to an end, with new tokens in the stores or not. *)
LEMMA RefreshEndsOK == ASSUME IInv, NEW t \in Tabs, RefreshEnds(t) PROVE IInv'
<1> DEFINE token == sending[t].token
           next == [token EXCEPT !.number = @ + 1]
<1>0. /\ sending[t] \in [pc : {"idle", "waiting"} \cup Busy, token : Tokens \cup {None}]
      /\ token \in Held(t) /\ token \in Tokens /\ token.family \in Families
      /\ sending[t].pc \in Busy
  BY DEF IInv, Typed, Held, RefreshEnds, Busy
<1>1. /\ next \in Tokens /\ next.family = token.family /\ next.number = token.number + 1
  BY <1>0 DEF Tokens
<1>2. /\ sending' \in [Tabs -> [pc : {"idle", "waiting"} \cup Busy, token : Tokens \cup {None}]]
      /\ \A x \in Tabs : x # t => sending'[x] = sending[x]
      /\ sending'[t].pc = "idle" /\ sending'[t].token = None
      /\ UNCHANGED <<kind, orphans, server, lost>>
  BY <1>0 DEF IInv, Typed, RefreshEnds, Rest, tabGhosts
<1>3. \A x \in Tabs :
        \/ store'[x] = store[x] /\ (sending[t].pc = "rotated" => x # t /\ kind # "local")
        \/ store'[x] = None
        \/ store'[x] = next /\ sending[t].pc = "rotated" /\ (x = t \/ kind = "local")
  BY DEF RefreshEnds, Put, IInv, Typed
<1>4. store' \in [Tabs -> Tokens \cup {None}]
  BY <1>1 DEF RefreshEnds, Put, IInv, Typed
<1>5. Typed'
  <2>1. \A x \in Tabs : \A k \in Held(x)' : k \in Held(x) \/ k = next
    BY <1>2, <1>3 DEF Held
  <2>2. \A x \in Tabs : \A k \in Held(x)' : k \in Tokens /\ k.family \in Families
    BY <1>0, <1>1, <2>1 DEF IInv, Typed
  <2>3. \A x \in Tabs : sending'[x].pc # "idle" => sending'[x].token # None
    BY <1>2 DEF IInv, Typed
  <2> QED BY <1>2, <1>4, <2>2, <2>3 DEF IInv, Typed, Families
<1>6. ASSUME Locks PROVE Serial'
  <2>1. \A x \in Tabs : x # t => sending[x].pc \notin Busy
    BY <1>0, <1>6, Alone
  <2>2. Serialized' /\ OrphansAreLost' /\ TabsAreNoThieves' /\ OnWire'
    BY <1>2, <1>6, <2>1 DEF IInv, Serial, Serialized, OrphansAreLost, TabsAreNoThieves, OnWire,
                            Families, Busy
  <2>3. Owned'
    <3> SUFFICES ASSUME kind # "local", NEW x \in Tabs, NEW y \in Tabs, x # y,
                        NEW k \in Held(x)', NEW m \in Held(y)'
                 PROVE  k.family # m.family
      BY <1>2 DEF Owned
    <3>1. (k \in Held(x) \/ (x = t /\ k = next)) /\ (m \in Held(y) \/ (y = t /\ m = next))
      BY <1>2, <1>3 DEF Held
    <3> QED BY <1>0, <1>1, <1>6, <3>1 DEF IInv, Serial, Owned
  <2>4. \A g : ~Rotated(g)'
    BY <1>2, <2>1 DEF Rotated, Busy
  <2>5. Current'
    <3> SUFFICES ASSUME NEW x \in Tabs, store'[x] # None,
                        NEW g, g = store'[x].family, g \notin lost
                 PROVE  server[g] = store'[x].number
      BY <1>2, <2>4 DEF Current
    <3>1. CASE store'[x] = next /\ sending[t].pc = "rotated"
      BY <1>0, <1>1, <1>6, <3>1 DEF IInv, Typed, Serial, OnWire, Held
    <3>2. CASE store'[x] = store[x] /\ (sending[t].pc = "rotated" => x # t /\ kind # "local")
      <4>1. store[x] \in Held(x)
        BY <3>2 DEF Held
      <4>2. sending[t].pc = "rotated" => token.family # g
        BY <1>0, <1>6, <3>2, <4>1 DEF IInv, Serial, Owned
      <4>3. ~Rotated(g)
        BY <2>1, <4>2 DEF Rotated, Busy
      <4> QED BY <1>6, <3>2, <4>3 DEF IInv, Serial, Current
    <3> QED BY <1>3, <3>1, <3>2
  <2> QED BY <1>6, <2>2, <2>3, <2>5 DEF Serial
<1> QED BY <1>5, <1>6 DEF IInv, Serial

(* What a tab gives up hope of: its token, if on the wire, and its family. *)
LEMMA GivenUp ==
  ASSUME IInv, NEW t \in Tabs
  PROVE  /\ \A k \in OnTheWire(t) : k \in Held(t) /\ k.family \in Unanswered(t)
         /\ sending[t].pc = "rotated" => sending[t].token.family \in Unanswered(t)
BY DEF IInv, Typed, OnTheWire, Unanswered, Held

LEMMA LoseOK == ASSUME IInv, NEW t \in Tabs, Lose(t) PROVE IInv'
<1>0. /\ sending[t] \in [pc : {"idle", "waiting"} \cup Busy, token : Tokens \cup {None}]
      /\ sending[t].pc \in Busy
  BY DEF IInv, Typed, Lose, Unanswered, Busy
<1>1. /\ sending' \in [Tabs -> [pc : {"idle", "waiting"} \cup Busy, token : Tokens \cup {None}]]
      /\ \A x \in Tabs : x # t => sending'[x] = sending[x]
      /\ sending'[t].pc = "failed" /\ sending'[t].token = sending[t].token
      /\ UNCHANGED <<kind, store, lock, server>>
      /\ lost' = lost \cup Unanswered(t) /\ orphans' = orphans \cup OnTheWire(t)
  BY <1>0 DEF IInv, Typed, Lose, Busy
<1>2. \A x \in Tabs : Held(x)' = Held(x)
  BY <1>1 DEF Held
<1>3. Typed'
  <2>1. \A k \in OnTheWire(t) : k \in Tokens /\ k.family \in Families
    BY GivenUp DEF IInv, Typed
  <2>2. \A x \in Tabs : sending'[x].pc # "idle" => sending'[x].token # None
    BY <1>0, <1>1 DEF IInv, Typed, Busy
  <2> QED BY <1>1, <1>2, <2>1, <2>2 DEF IInv, Typed, Families
<1>4. ASSUME Locks PROVE Serial'
  <2>1. \A x \in Tabs : x # t => sending[x].pc \notin Busy
    BY <1>0, <1>4, Alone
  <2>2. Serialized'
    BY <1>0, <1>1, <1>4 DEF IInv, Serial, Serialized, Busy
  <2>3. Owned'
    BY <1>1, <1>2, <1>4 DEF IInv, Serial, Owned
  <2>4. OrphansAreLost' /\ TabsAreNoThieves'
    BY <1>1, <1>4, GivenUp DEF IInv, Serial, OrphansAreLost, TabsAreNoThieves, Families
  <2>5. OnWire'
    BY <1>1, <2>1 DEF OnWire, Busy
  <2>6. \A g : ~Rotated(g)' /\ (g \notin lost' => ~Rotated(g))
    BY <1>1, <2>1, GivenUp DEF Rotated, Busy
  <2>7. Current'
    <3> SUFFICES ASSUME NEW x \in Tabs, store[x] # None,
                        NEW g, g = store[x].family, g \notin lost'
                 PROVE  server[g] = store[x].number
      BY <1>1, <2>6 DEF Current
    <3> QED BY <1>1, <1>4, <2>6 DEF IInv, Serial, Current
  <2> QED BY <1>4, <2>2, <2>3, <2>4, <2>5, <2>7 DEF Serial
<1> QED BY <1>3, <1>4 DEF IInv, Serial

(* A page that goes away leaves its token on the wire only as a lost one. *)
LEMMA UnloadOK == ASSUME IInv, NEW t \in Tabs, NEW next, Unload(t, next) PROVE IInv'
<1>0. sending[t] \in [pc : {"idle", "waiting"} \cup Busy, token : Tokens \cup {None}]
  BY DEF IInv, Typed
<1>1. /\ sending' \in [Tabs -> [pc : {"idle", "waiting"} \cup Busy, token : Tokens \cup {None}]]
      /\ \A x \in Tabs : x # t => sending'[x] = sending[x]
      /\ sending'[t].pc = "idle" /\ sending'[t].token = None
      /\ UNCHANGED <<kind, server>>
      /\ lost' = lost \cup Unanswered(t) /\ orphans' = orphans \cup OnTheWire(t)
      /\ lock' = IF lock = t THEN None ELSE lock
  BY DEF IInv, Typed, Unload, Rest
<1>2. /\ store' \in [Tabs -> Tokens \cup {None}]
      /\ \A x \in Tabs : store'[x] = store[x] \/ store'[x] = None
  BY DEF IInv, Typed, Unload
<1>3. \A x \in Tabs : Held(x)' \subseteq Held(x)
  BY <1>1, <1>2 DEF Held
<1>4. Typed'
  <2>1. \A k \in OnTheWire(t) : k \in Tokens /\ k.family \in Families
    BY GivenUp DEF IInv, Typed
  <2>2. \A x \in Tabs : sending'[x].pc # "idle" => sending'[x].token # None
    BY <1>1 DEF IInv, Typed
  <2> QED BY <1>1, <1>2, <1>3, <2>1, <2>2 DEF IInv, Typed, Families
<1>5. ASSUME Locks PROVE Serial'
  <2>1. Serialized'
    BY <1>1, <1>5 DEF IInv, Serial, Serialized, Busy
  <2>2. Owned'
    BY <1>1, <1>3, <1>5 DEF IInv, Serial, Owned
  <2>3. OrphansAreLost' /\ TabsAreNoThieves'
    BY <1>1, <1>5, GivenUp DEF IInv, Serial, OrphansAreLost, TabsAreNoThieves, Families
  <2>4. OnWire'
    BY <1>1, <1>5 DEF IInv, Serial, OnWire
  <2>5. \A g : g \notin lost' => Rotated(g)' = Rotated(g)
    BY <1>1, GivenUp DEF Rotated
  <2>6. Current'
    <3> SUFFICES ASSUME NEW x \in Tabs, store'[x] # None,
                        NEW g, g = store'[x].family, g \notin lost'
                 PROVE  server[g] = IF Rotated(g)' THEN store'[x].number + 1 ELSE store'[x].number
      BY <1>1 DEF Current
    <3> QED BY <1>1, <1>2, <1>5, <2>5 DEF IInv, Serial, Current
  <2> QED BY <1>5, <2>1, <2>2, <2>3, <2>4, <2>6 DEF Serial
<1> QED BY <1>4, <1>5 DEF IInv, Serial

(* A sign-in begins a family that no tab knows yet. *)
LEMMA selectWorkspaceOK == ASSUME IInv, NEW t \in Tabs, selectWorkspace(t) PROVE IInv'
<1> DEFINE new == Newest + 1
           token == [family |-> new, number |-> 1]
<1>1. /\ server' = Append(server, 1) /\ server \in Seq(Nat) /\ Newest \in Nat
      /\ UNCHANGED <<kind, sending, lock, orphans, lost>>
  BY DEF selectWorkspace, IInv, Typed, Newest
<1>2. /\ server' \in Seq(Nat) /\ Families' = Families \cup {new} /\ new \notin Families
      /\ \A f \in Families : server'[f] = server[f]
      /\ server'[new] = 1
  BY <1>1 DEF Families, Newest
<1>3. /\ token \in Tokens /\ token.family = new /\ token.number = 1
  BY <1>1 DEF Tokens
<1>4. /\ store' \in [Tabs -> Tokens \cup {None}]
      /\ \A x \in Tabs : \/ store'[x] = store[x]
                         \/ store'[x] = token /\ (x = t \/ kind = "local")
  BY <1>3 DEF selectWorkspace, Put, IInv, Typed
<1>5. \A x \in Tabs : \A k \in Held(x)' : k \in Held(x) \/ k = token
  BY <1>1, <1>4 DEF Held
<1>6. Typed'
  <2>1. \A x \in Tabs : \A k \in Held(x)' : k \in Tokens /\ k.family \in Families'
    BY <1>2, <1>3, <1>5 DEF IInv, Typed
  <2> QED BY <1>1, <1>2, <1>4, <2>1 DEF IInv, Typed
<1>7. ASSUME Locks PROVE Serial'
  <2>0. lost' = lost
    BY <1>1
  <2>1. Serialized' /\ OrphansAreLost'
    BY <1>1, <1>7 DEF IInv, Serial, Serialized, OrphansAreLost
  <2>7. TabsAreNoThieves'
    BY <1>2, <1>7, <2>0 DEF IInv, Serial, TabsAreNoThieves
  <2>2. Owned'
    <3> SUFFICES ASSUME kind # "local", NEW x \in Tabs, NEW y \in Tabs, x # y,
                        NEW k \in Held(x)', NEW m \in Held(y)'
                 PROVE  k.family # m.family
      BY <1>1 DEF Owned
    <3>1. (k \in Held(x) \/ (x = t /\ k = token)) /\ (m \in Held(y) \/ (y = t /\ m = token))
      BY <1>1, <1>4 DEF Held
    <3> QED BY <1>2, <1>3, <1>7, <3>1 DEF IInv, Typed, Serial, Owned
  <2>3. \A x \in Tabs : sending[x].token # None => sending[x].token.family \in Families
    BY DEF IInv, Typed, Held
  <2>4. OnWire'
    BY <1>1, <1>2, <1>7, <2>3 DEF IInv, Serial, OnWire
  <2>5. \A g : Rotated(g)' = Rotated(g) /\ (Rotated(g) => g \in Families)
    BY <1>1, <2>3 DEF Rotated, IInv, Typed
  <2>6. Current'
    <3> SUFFICES ASSUME NEW x \in Tabs, store'[x] # None,
                        NEW g, g = store'[x].family, g \notin lost
                 PROVE  server'[g] = IF Rotated(g) THEN store'[x].number + 1 ELSE store'[x].number
      BY <1>1, <2>5 DEF Current
    <3>1. CASE store'[x] = token
      BY <1>2, <1>3, <2>5, <3>1
    <3>2. CASE store'[x] = store[x]
      <4>1. g \in Families
        BY <3>2 DEF IInv, Typed, Held
      <4> QED BY <1>2, <1>7, <3>2, <4>1 DEF IInv, Serial, Current
    <3> QED BY <1>4, <3>1, <3>2
  <2> QED BY <1>7, <2>1, <2>2, <2>4, <2>6, <2>7 DEF Serial
<1> QED BY <1>6, <1>7 DEF IInv, Serial

(* A step that only takes tokens out of stores. *)
LEMMA ClearOK ==
  ASSUME IInv, UNCHANGED <<kind, sending, lock, orphans, server, lost>>,
         store' \in [Tabs -> Tokens \cup {None}],
         \A x \in Tabs : store'[x] = store[x] \/ store'[x] = None
  PROVE  IInv'
<1>1. \A x \in Tabs : Held(x)' \subseteq Held(x)
  BY DEF Held
<1>2. Typed'
  BY <1>1 DEF IInv, Typed, Families
<1>3. \A g : Rotated(g)' = Rotated(g)
  BY DEF Rotated
<1>4. Current => Current'
  BY <1>3 DEF Current
<1>5. Owned => Owned'
  BY <1>1 DEF Owned
<1>6. Serial'
  BY <1>4, <1>5 DEF IInv, Serial, Serialized, OnWire, OrphansAreLost, TabsAreNoThieves, Families
<1> QED BY <1>2, <1>6 DEF IInv

LEMMA SigningOutOK ==
  ASSUME IInv, NEW t \in Tabs, logout(t) \/ onBroadcast(t) \/ destroy(t)
  PROVE  IInv'
<1>1. UNCHANGED <<kind, sending, lock, orphans, server, lost>>
  BY DEF logout, onBroadcast, destroy
<1>2. /\ store' \in [Tabs -> Tokens \cup {None}]
      /\ \A x \in Tabs : store'[x] = store[x] \/ store'[x] = None
  BY DEF logout, onBroadcast, destroy, Put, IInv, Typed
<1> QED BY <1>1, <1>2, ClearOK

LEMMA TabsInitOK == TabsInit => IInv
<1> SUFFICES ASSUME TabsInit PROVE IInv
  OBVIOUS
<1>1. /\ server \in Seq(Nat) /\ Families = {}
      /\ \A t \in Tabs : sending[t].pc = "idle" /\ Held(t) = {}
  BY DEF TabsInit, Families, Rest, Held
<1>2. Typed
  BY <1>1 DEF TabsInit, Typed, Rest
<1>3. Serial
  BY <1>1 DEF TabsInit, Serial, Serialized, Owned, Current, OnWire, OrphansAreLost,
              TabsAreNoThieves, Busy, Rest
<1> QED BY <1>2, <1>3 DEF IInv

LEMMA TabsNextOK == IInv /\ [TabsNext]_<<tabVars, tabGhosts>> => IInv'
<1> SUFFICES ASSUME IInv, [TabsNext]_<<tabVars, tabGhosts>> PROVE IInv'
  OBVIOUS
<1>1. ASSUME NEW t \in Tabs, refresh(t) \/ _refreshLocked(t) \/ Answer(t) \/ Lose(t) \/ RefreshEnds(t)
      PROVE  IInv'
  BY <1>1, refreshOK, refreshLockedOK, AnswerOK, LoseOK, RefreshEndsOK
<1>2. ASSUME NEW t \in Tabs, login(t) \/ verifyCallbackState(t) \/ Reload(t)
      PROVE  IInv'
  BY <1>2, UnloadOK DEF login, verifyCallbackState, Reload
<1>3. ASSUME NEW t \in Tabs, selectWorkspace(t) \/ logout(t) \/ onBroadcast(t) \/ destroy(t)
      PROVE  IInv'
  BY <1>3, selectWorkspaceOK, SigningOutOK
<1>4. CASE \E token \in orphans : AnswerOrphan(token)
  BY <1>4, AnswerOrphanOK
<1>5. CASE UNCHANGED <<tabVars, tabGhosts>>
  BY <1>5, ClearOK DEF tabVars, tabGhosts, IInv, Typed
<1> QED BY <1>1, <1>2, <1>3, <1>4, <1>5 DEF TabsNext

(* With Web Locks, the tabs of one browser are never taken for a thief while
   no answer is lost: whatever number of tabs refresh, reload, sign in and out
   together, with one store or with many, and whether the lock is waited for
   or given up.  (refresh, _refreshLocked, _doRefresh) *)
THEOREM NoThieves == TabsSpec => []TabsAreNoThieves
<1>1. IInv => TabsAreNoThieves
  BY DEF IInv, Serial, TabsAreNoThieves
<1> QED BY <1>1, TabsInitOK, TabsNextOK, PTL DEF TabsSpec

-----------------------------------------------------------------------------
(* TABSESSIONS: a session stays until its user signs out. *)

(* A tab that can lose the newest session only by its own user, or with an
   answer that is lost. *)
Keeps(t) == /\ store[t] # None /\ store[t].family = Newest
            /\ sending[t].pc # "idle" => sending[t].token.family = Newest

(* With one store for all, every tab is such a tab. *)
Untouched == Newest > 0 /\ Newest \notin ended \cup lost \cup crossed
Lasting == Untouched =>
  /\ \E t \in Tabs : Keeps(t)
  /\ kind = "local" => told = {} /\ \A t \in Tabs : Keeps(t)

(* The server refuses a token only after an answer was lost. *)
RefusedAreLost == \A t \in Tabs : sending[t].pc = "refused" => sending[t].token.family \in lost
LInv == IInv /\ (Locks => Lasting /\ RefusedAreLost)

-----------------------------------------------------------------------------

(* A step that signs nobody in, and leaves a keeping tab keeping. *)
LEMMA KeptOn ==
  ASSUME LInv, Locks, Newest' = Newest, UNCHANGED <<kind, crossed>>,
         ended \subseteq ended', lost \subseteq lost',
         ASSUME NEW t \in Tabs, Untouched', Keeps(t), kind = "local" => told = {} /\ \A x \in Tabs : Keeps(x)
         PROVE  Keeps(t)',
         Untouched' /\ kind = "local" /\ told = {} /\ (\A x \in Tabs : Keeps(x)) => told' = {}
  PROVE  Lasting'
<1> SUFFICES ASSUME Untouched'
             PROVE  /\ \E t \in Tabs : Keeps(t)'
                    /\ kind = "local" => told' = {} /\ \A t \in Tabs : Keeps(t)'
  BY DEF Lasting
<1>1. Untouched
  BY DEF Untouched
<1>2. /\ \E t \in Tabs : Keeps(t)
      /\ kind = "local" => told = {} /\ \A t \in Tabs : Keeps(t)
  BY <1>1 DEF LInv, Lasting
<1> QED BY <1>2

LEMMA refreshKeeps ==
  ASSUME LInv, Locks, NEW t \in Tabs, refresh(t) \/ _refreshLocked(t)
  PROVE  Lasting' /\ RefusedAreLost'
<1>1. /\ UNCHANGED <<kind, store, told, server, lost, ended, crossed>>
      /\ \A x \in Tabs : x # t => sending'[x] = sending[x]
  BY DEF refresh, _refreshLocked, _doRefresh, tabGhosts, LInv, IInv, Typed
<1>2. \/ sending'[t].pc = "waiting" /\ sending'[t].token = store[t]
      \/ sending'[t].pc = "idle"
      \/ sending'[t].pc = "sent" /\ sending'[t].token = sending[t].token /\ sending[t].pc = "waiting"
  BY DEF refresh, _refreshLocked, _doRefresh, Rest, LInv, IInv, Typed
<1>3. ASSUME NEW x \in Tabs, Keeps(x) PROVE Keeps(x)'
  BY <1>1, <1>2, <1>3 DEF Keeps, Newest
<1>4. RefusedAreLost'
  BY <1>1, <1>2 DEF LInv, RefusedAreLost
<1> QED BY <1>1, <1>3, <1>4, KeptOn DEF Newest

LEMMA AnswerKeeps == ASSUME LInv, Locks, NEW t \in Tabs, Answer(t) PROVE Lasting' /\ RefusedAreLost'
<1>1. /\ UNCHANGED <<kind, store, told, lost, ended, crossed>>
      /\ \A x \in Tabs : x # t => sending'[x] = sending[x]
      /\ sending[t].pc = "sent" /\ sending'[t].token = sending[t].token
      /\ sending'[t].pc = IF server[sending[t].token.family] = sending[t].token.number
                          THEN "rotated" ELSE "refused"
  BY DEF Answer, tabGhosts, LInv, IInv, Typed
<1>2. Newest' = Newest
  BY DEF Answer, Serve, LInv, IInv, Typed, Newest
<1>3. ASSUME NEW x \in Tabs, Keeps(x) PROVE Keeps(x)'
  BY <1>1, <1>2, <1>3 DEF Keeps
<1>4. RefusedAreLost'
  <2>1. sending[t].token # None
    BY <1>1 DEF LInv, IInv, Typed
  <2>2. sending'[t].pc = "refused" => sending[t].token.family \in lost
    BY <1>1, <2>1 DEF LInv, IInv, Serial, OnWire
  <2> QED BY <1>1, <2>2 DEF LInv, RefusedAreLost
<1> QED BY <1>1, <1>2, <1>3, <1>4, KeptOn

LEMMA LoseKeeps ==
  ASSUME LInv, Locks, (\E t \in Tabs : Lose(t)) \/ (\E k \in orphans : AnswerOrphan(k))
  PROVE  Lasting' /\ RefusedAreLost'
<1>1. CASE \E k \in orphans : AnswerOrphan(k)
  <2>1. UNCHANGED <<kind, store, sending, told, lost, ended, crossed>>
    BY <1>1 DEF AnswerOrphan, tabGhosts
  <2>2. Newest' = Newest
    BY <1>1 DEF AnswerOrphan, Serve, LInv, IInv, Typed, Newest
  <2>3. RefusedAreLost'
    BY <2>1 DEF LInv, RefusedAreLost
  <2> QED BY <2>1, <2>2, <2>3, KeptOn DEF Keeps
<1>2. ASSUME NEW t \in Tabs, Lose(t) PROVE Lasting' /\ RefusedAreLost'
  <2>1. /\ UNCHANGED <<kind, store, told, server, ended, crossed>> /\ lost \subseteq lost'
        /\ \A x \in Tabs : x # t => sending'[x] = sending[x]
        /\ sending'[t].pc = "failed" /\ sending'[t].token = sending[t].token /\ sending[t].pc # "idle"
    BY <1>2 DEF Lose, Unanswered, LInv, IInv, Typed
  <2>2. ASSUME NEW x \in Tabs, Keeps(x) PROVE Keeps(x)'
    BY <2>1, <2>2 DEF Keeps, Newest
  <2>3. RefusedAreLost'
    BY <2>1 DEF LInv, RefusedAreLost
  <2> QED BY <2>1, <2>2, <2>3, KeptOn DEF Newest
<1> QED BY <1>1, <1>2

LEMMA RefreshEndsKeeps ==
  ASSUME LInv, Locks, NEW t \in Tabs, RefreshEnds(t)
  PROVE  Lasting' /\ RefusedAreLost'
<1> DEFINE token == sending[t].token
           next == [token EXCEPT !.number = @ + 1]
<1>1. /\ UNCHANGED <<kind, told, server, lost, ended, crossed>>
      /\ \A x \in Tabs : x # t => sending'[x] = sending[x]
      /\ sending'[t].pc = "idle" /\ sending[t].pc # "idle"
      /\ token \in Tokens
  BY DEF RefreshEnds, Rest, tabGhosts, LInv, IInv, Typed, Held
<1>2. next \in Tokens /\ next.family = token.family /\ next # None
  BY <1>1, TabSessionsAssumption DEF Tokens
<1>3. \A x \in Tabs :
        \/ store'[x] = store[x]
        \/ store'[x] = None /\ sending[t].pc = "refused" /\ (x = t \/ kind = "local")
        \/ store'[x] = next /\ (x = t \/ kind = "local")
  BY DEF RefreshEnds, Put, LInv, IInv, Typed
<1>4. ASSUME NEW x \in Tabs, Untouched', Keeps(x), kind = "local" => \A y \in Tabs : Keeps(y)
      PROVE  Keeps(x)'
  <2>1. CASE store'[x] = store[x]
    BY <1>1, <1>4, <2>1 DEF Keeps, Newest
  <2>2. CASE store'[x] # store[x]
    <3>1. Keeps(t)
      BY <1>3, <1>4, <2>2
    <3>2. token.family = Newest /\ Newest \notin lost
      BY <1>1, <1>4, <3>1 DEF Keeps, Untouched, Newest
    <3>3. store'[x] = next
      BY <1>3, <2>2, <3>2 DEF LInv, RefusedAreLost
    <3> QED BY <1>1, <1>2, <1>4, <3>2, <3>3 DEF Keeps, Newest
  <2> QED BY <2>1, <2>2
<1>5. RefusedAreLost'
  BY <1>1 DEF LInv, RefusedAreLost
<1> QED BY <1>1, <1>4, <1>5, KeptOn DEF Newest

(* A page that goes away ends the session its memory held. *)
LEMMA UnloadKeeps ==
  ASSUME LInv, Locks, NEW t \in Tabs, NEW next, Unload(t, next)
  PROVE  Lasting' /\ RefusedAreLost'
<1>1. /\ UNCHANGED <<kind, server, crossed>> /\ ended \subseteq ended' /\ lost \subseteq lost'
      /\ told' \subseteq told
      /\ \A x \in Tabs : x # t => sending'[x] = sending[x]
      /\ sending'[t].pc = "idle"
      /\ \A x \in Tabs : x # t \/ kind = "local" => store'[x] = store[x]
      /\ kind # "local" /\ store[t] # None => store[t].family \in ended'
  BY DEF Unload, Rest, LInv, IInv, Typed
<1>2. ASSUME NEW x \in Tabs, Untouched', Keeps(x) PROVE Keeps(x)'
  <2>1. x # t \/ kind = "local"
    BY <1>1, <1>2 DEF Keeps, Untouched, Newest
  <2> QED BY <1>1, <1>2, <2>1 DEF Keeps, Newest
<1>3. RefusedAreLost'
  BY <1>1 DEF LInv, RefusedAreLost
<1> QED BY <1>1, <1>2, <1>3, KeptOn DEF Newest

LEMMA SigningOutKeeps ==
  ASSUME LInv, Locks, NEW t \in Tabs, logout(t) \/ onBroadcast(t) \/ destroy(t)
  PROVE  Lasting' /\ RefusedAreLost'
<1>1. /\ UNCHANGED <<kind, sending, server, lost, crossed>> /\ ended \subseteq ended'
      /\ logout(t) \/ told' \subseteq told
      /\ onBroadcast(t) => told # {}
  BY DEF logout, onBroadcast, destroy
<1>2. \A x \in Tabs : \/ store'[x] = store[x]
                      \/ logout(t) /\ store[t] # None /\ store[t].family \in ended'
                      \/ onBroadcast(t) /\ kind = "local"
                      \/ x = t /\ store[t] # None => store[t].family \in ended'
  BY DEF logout, onBroadcast, destroy, Put, LInv, IInv, Typed
<1>3. logout(t) => store[t] # None /\ store[t].family \in ended'
  BY DEF logout
<1>4. ASSUME NEW x \in Tabs, Untouched', Keeps(x), kind = "local" => told = {} /\ \A y \in Tabs : Keeps(y)
      PROVE  Keeps(x)'
  <2>1. store'[x] = store[x]
    <3>1. CASE logout(t)
      <4>1. ~Keeps(t)
        BY <1>1, <1>3, <1>4, <3>1 DEF Keeps, Untouched, Newest
      <4>2. x # t /\ kind # "local"
        BY <1>4, <4>1
      <4> QED BY <3>1, <4>2 DEF logout, Put, LInv, IInv, Typed
    <3>2. CASE onBroadcast(t)
      <4>1. kind # "local"
        BY <1>1, <1>4, <3>2
      <4>2. store[t] # None => store[t].family \in ended'
        BY <3>2, <4>1 DEF onBroadcast
      <4>3. x # t
        BY <1>1, <1>4, <4>2 DEF Keeps, Untouched, Newest
      <4> QED BY <3>2, <4>1, <4>3 DEF onBroadcast, Put, LInv, IInv, Typed
    <3>3. CASE destroy(t)
      BY <3>3 DEF destroy
    <3> QED BY <3>1, <3>2, <3>3
  <2> QED BY <1>1, <1>4, <2>1 DEF Keeps, Newest
<1>5. RefusedAreLost'
  BY <1>1 DEF LInv, RefusedAreLost
<1>6. Untouched' /\ kind = "local" /\ told = {} /\ (\A x \in Tabs : Keeps(x)) => told' = {}
  <2> SUFFICES ASSUME Untouched', told = {}, Keeps(t) PROVE told' = {}
    OBVIOUS
  <2>1. ~logout(t)
    BY <1>1, <1>3 DEF Keeps, Untouched, Newest
  <2> QED BY <1>1, <2>1
<1> QED BY <1>1, <1>4, <1>5, <1>6, KeptOn DEF Newest

(* A sign-in while nothing is under way reaches its tab, or all of them. *)
LEMMA selectWorkspaceKeeps ==
  ASSUME LInv, Locks, NEW t \in Tabs, selectWorkspace(t)
  PROVE  Lasting' /\ RefusedAreLost'
<1> DEFINE token == [family |-> Newest + 1, number |-> 1]
<1>1. /\ UNCHANGED <<kind, sending, told, lost, ended>>
      /\ UnderWay => Newest + 1 \in crossed'
      /\ \A x \in Tabs : x = t \/ kind = "local" => store'[x] = token
  BY DEF selectWorkspace, Put, LInv, IInv, Typed
<1>2. Newest' = Newest + 1 /\ Newest \in Nat
  BY DEF selectWorkspace, Newest, LInv, IInv, Typed
<1>3. token \in Tokens /\ token # None
  BY <1>2, TabSessionsAssumption DEF Tokens
<1>4. RefusedAreLost'
  BY <1>1 DEF LInv, RefusedAreLost
<1>5. ASSUME Untouched'
      PROVE  /\ \E x \in Tabs : Keeps(x)'
             /\ kind = "local" => told = {} /\ \A x \in Tabs : Keeps(x)'
  <2>1. ~UnderWay
    BY <1>1, <1>2, <1>5 DEF Untouched
  <2>2. \A x \in Tabs : x = t \/ kind = "local" => Keeps(x)'
    BY <1>1, <1>2, <1>3, <2>1 DEF Keeps, UnderWay
  <2> QED BY <2>1, <2>2 DEF UnderWay
<1> QED BY <1>1, <1>4, <1>5 DEF Lasting

LEMMA LastingInit == TabsInit => LInv
<1>1. TabsInit => Newest = 0 /\ \A t \in Tabs : sending[t].pc = "idle"
  BY DEF TabsInit, Newest, Rest
<1> QED BY <1>1, TabsInitOK DEF LInv, Lasting, Untouched, RefusedAreLost

LEMMA LastingNext == LInv /\ [TabsNext]_<<tabVars, tabGhosts>> => LInv'
<1> SUFFICES ASSUME LInv, [TabsNext]_<<tabVars, tabGhosts>> PROVE LInv'
  OBVIOUS
<1>1. IInv'
  BY TabsNextOK DEF LInv
<1>2. ASSUME Locks PROVE Lasting' /\ RefusedAreLost'
  <2>1. ASSUME NEW t \in Tabs, refresh(t) \/ _refreshLocked(t) \/ Answer(t) \/ Lose(t) \/ RefreshEnds(t)
        PROVE  Lasting' /\ RefusedAreLost'
    BY <1>2, <2>1, refreshKeeps, AnswerKeeps, LoseKeeps, RefreshEndsKeeps
  <2>2. ASSUME NEW t \in Tabs, login(t) \/ verifyCallbackState(t) \/ Reload(t)
        PROVE  Lasting' /\ RefusedAreLost'
    BY <1>2, <2>2, UnloadKeeps DEF login, verifyCallbackState, Reload
  <2>3. ASSUME NEW t \in Tabs, selectWorkspace(t) \/ logout(t) \/ onBroadcast(t) \/ destroy(t)
        PROVE  Lasting' /\ RefusedAreLost'
    BY <1>2, <2>3, selectWorkspaceKeeps, SigningOutKeeps
  <2>4. CASE \E token \in orphans : AnswerOrphan(token)
    BY <1>2, <2>4, LoseKeeps
  <2>5. CASE UNCHANGED <<tabVars, tabGhosts>>
    BY <1>2, <2>5 DEF tabVars, tabGhosts, LInv, Lasting, RefusedAreLost, Untouched, Keeps, Newest
  <2> QED BY <2>1, <2>2, <2>3, <2>4, <2>5 DEF TabsNext
<1> QED BY <1>1, <1>2 DEF LInv

(* With Web Locks, a session outlives every timeout of the lock, every failed
   request and every other tab, until its own user signs out: the tab that was
   signed in, or each of them when they share a store, keeps holding it, unless
   one of its answers was lost or the sign-in itself came while a refresh or a
   logout's message was under way.  (RefreshEnds's clear, selectWorkspace) *)
THEOREM SessionsLast == TabsSpec => []SessionIsKept
<1>1. LInv => SessionIsKept
  BY DEF LInv, Lasting, Untouched, Keeps, SessionIsKept
<1> QED BY <1>1, LastingInit, LastingNext, PTL DEF TabsSpec

-----------------------------------------------------------------------------
(* TABSESSIONS: one tab's logout is every tab's. *)

(* Once signed out, nothing is on the wire, and a tab that still has a token
   has the message to come; a tab at the provider has neither. *)
Quiet == \A t \in Tabs :
  /\ sending[t].pc \in {"idle", "waiting"}
  /\ store[t] = None \/ (t \in told /\ kind # "local")
Away == \A t \in Tabs : page[t] = "provider" =>
  sending[t].pc = "idle" /\ (kind # "local" => store[t] = None)
OInv == /\ DOMAIN store = Tabs /\ DOMAIN sending = Tabs /\ DOMAIN page = Tabs
        /\ Away /\ (out => Quiet)

LEMMA RefreshingOut ==
  ASSUME IInv, OInv, NEW t \in Tabs,
         refresh(t) \/ _refreshLocked(t) \/ Answer(t) \/ Lose(t) \/ RefreshEnds(t)
  PROVE  OInv'
<1>1. CASE refresh(t)
  BY <1>1 DEF refresh, tabGhosts, OInv, Away, Quiet, Listening
<1>2. CASE _refreshLocked(t)
  <2>1. /\ UNCHANGED <<kind, store, page, told>> /\ DOMAIN sending' = Tabs
        /\ \A x \in Tabs : x # t => sending'[x] = sending[x]
        /\ sending[t].pc = "waiting" /\ sending'[t].pc \in {"sent", "idle"}
    BY <1>2 DEF _refreshLocked, _doRefresh, Rest, IInv, Typed
  <2>2. out' <=> (out /\ sending'[t].pc # "sent")
    BY <1>2 DEF _refreshLocked
  <2> QED BY <2>1, <2>2 DEF OInv, Away, Quiet
<1>3. CASE Answer(t) \/ Lose(t)
  <2>1. /\ UNCHANGED <<kind, store, page, told, out>> /\ DOMAIN sending' = Tabs
        /\ \A x \in Tabs : x # t => sending'[x] = sending[x]
        /\ sending[t].pc \in {"sent", "rotated"}
    BY <1>3 DEF Answer, Lose, Unanswered, tabGhosts, OInv
  <2> QED BY <2>1 DEF OInv, Away, Quiet
<1>4. CASE RefreshEnds(t)
  <2>1. /\ UNCHANGED <<kind, page, told, out>> /\ DOMAIN sending' = Tabs /\ DOMAIN store' = Tabs
        /\ \A x \in Tabs : x # t => sending'[x] = sending[x] /\ (kind # "local" => store'[x] = store[x])
        /\ sending[t].pc \in Busy /\ sending'[t].pc = "idle"
    BY <1>4 DEF RefreshEnds, Put, Rest, tabGhosts, OInv, Busy
  <2> QED BY <2>1 DEF OInv, Away, Quiet, Busy
<1> QED BY <1>1, <1>2, <1>3, <1>4

LEMMA UnloadOut == ASSUME OInv, NEW t \in Tabs, NEW next, Unload(t, next) PROVE OInv'
<1>1. /\ UNCHANGED <<kind, out>> /\ told' = told \ {t}
      /\ DOMAIN sending' = Tabs /\ DOMAIN store' = Tabs /\ DOMAIN page' = Tabs
      /\ \A x \in Tabs : x # t => /\ sending'[x] = sending[x] /\ store'[x] = store[x]
                                  /\ page'[x] = page[x]
      /\ sending'[t].pc = "idle"
      /\ IF kind = "local" THEN store'[t] = store[t] ELSE store'[t] = None
  BY DEF Unload, Rest, OInv
<1> QED BY <1>1 DEF OInv, Away, Quiet

LEMMA SigningOut ==
  ASSUME OInv, NEW t \in Tabs,
         selectWorkspace(t) \/ logout(t) \/ onBroadcast(t) \/ destroy(t)
  PROVE  OInv'
<1>1. CASE selectWorkspace(t)
  <2>1. /\ ~out' /\ UNCHANGED <<kind, sending>> /\ DOMAIN store' = Tabs
        /\ page' = [page EXCEPT ![t] = "app"]
        /\ \A x \in Tabs : x # t /\ kind # "local" => store'[x] = store[x]
    BY <1>1 DEF selectWorkspace, Put
  <2> QED BY <2>1 DEF OInv, Away
<1>2. CASE logout(t)
  <2>1. /\ UNCHANGED <<kind, sending, page>> /\ DOMAIN store' = Tabs /\ told' = Siblings(t)
        /\ out' <=> \A x \in Tabs : /\ sending[x].pc \in {"idle", "waiting"}
                                    /\ page[x] \in {"app", "provider"}
        /\ \A x \in Tabs : IF x = t \/ kind = "local" THEN store'[x] = None ELSE store'[x] = store[x]
    BY <1>2 DEF logout, Put
  <2>2. Away'
    BY <2>1 DEF OInv, Away
  <2>3. ASSUME out' PROVE Quiet'
    <3>1. \A x \in Tabs : x # t => x \in Siblings(t) \/ page[x] = "provider"
      BY <2>1, <2>3 DEF Siblings, Listening
    <3> QED BY <2>1, <2>3, <3>1 DEF OInv, Away, Quiet
  <2> QED BY <2>1, <2>2, <2>3 DEF OInv
<1>3. CASE onBroadcast(t)
  <2>1. /\ UNCHANGED <<kind, sending, page, out>> /\ DOMAIN store' = Tabs /\ told' = told \ {t}
        /\ \A x \in Tabs : IF x = t \/ kind = "local" THEN store'[x] = None ELSE store'[x] = store[x]
    BY <1>3 DEF onBroadcast, Put
  <2> QED BY <2>1 DEF OInv, Away, Quiet
<1>4. CASE destroy(t)
  <2>1. /\ UNCHANGED <<kind, sending, store>> /\ page' = [page EXCEPT ![t] = "closed"]
        /\ told' = told \ {t} /\ (out' <=> out /\ store[t] = None)
    BY <1>4 DEF destroy
  <2> QED BY <2>1 DEF OInv, Away, Quiet
<1> QED BY <1>1, <1>2, <1>3, <1>4

LEMMA OutInit == TabsInit => OInv
BY DEF TabsInit, OInv, Away, Rest

LEMMA OutNext == IInv /\ OInv /\ [TabsNext]_<<tabVars, tabGhosts>> => OInv'
<1> SUFFICES ASSUME IInv, OInv, [TabsNext]_<<tabVars, tabGhosts>> PROVE OInv'
  OBVIOUS
<1>1. ASSUME NEW t \in Tabs, refresh(t) \/ _refreshLocked(t) \/ Answer(t) \/ Lose(t) \/ RefreshEnds(t)
      PROVE  OInv'
  BY <1>1, RefreshingOut
<1>2. ASSUME NEW t \in Tabs, login(t) \/ verifyCallbackState(t) \/ Reload(t)
      PROVE  OInv'
  BY <1>2, UnloadOut DEF login, verifyCallbackState, Reload
<1>3. ASSUME NEW t \in Tabs, selectWorkspace(t) \/ logout(t) \/ onBroadcast(t) \/ destroy(t)
      PROVE  OInv'
  BY <1>3, SigningOut
<1>4. CASE (\E token \in orphans : AnswerOrphan(token)) \/ UNCHANGED <<tabVars, tabGhosts>>
  BY <1>4 DEF AnswerOrphan, tabVars, tabGhosts, OInv, Away, Quiet
<1> QED BY <1>1, <1>2, <1>3, <1>4 DEF TabsNext

(* After a logout, no tab of any number holds a token for longer than its
   message takes: a refresh that waits for the lock cannot put one back.
   (logout, onBroadcast, _doRefresh's re-read) *)
THEOREM TabsSignOut == TabsSpec => []SignedOutEverywhere
<1>1. OInv => SignedOutEverywhere
  BY DEF OInv, Quiet, SignedOutEverywhere
<1> QED BY <1>1, TabsInitOK, TabsNextOK, OutInit, OutNext, PTL DEF TabsSpec

-----------------------------------------------------------------------------
(* AUTHZTABS: a redirect neither goes round in circles nor brings a tab an
   account that did not sign in to it. *)

Kept == /\ screen \in [ATabs -> {"app", "idp", "callback", "picker"}]
        /\ silent \in [ATabs -> {"no", "fresh", "stale"}]
        /\ automatic \in [ATabs -> Nat] /\ expiries \in [ATabs -> Nat]
        /\ DOMAIN identity = ATabs /\ DOMAIN brought = ATabs /\ DOMAIN asked = ATabs
        /\ DOMAIN minting = ATabs /\ DOMAIN answeredTo = ATabs

(* A tab that is away, or just back, without a fresh marker has an automatic
   redirect to spare. *)
Bounded(t) ==
  /\ automatic[t] <= 1 + expiries[t]
  /\ screen[t] \in {"idp", "callback"} =>
       /\ silent[t] = "no" => automatic[t] = 0
       /\ silent[t] = "stale" => automatic[t] <= expiries[t]

(* Wherever a tab holds an account, the identity provider sent it to this tab. *)
Known(t) ==
  /\ identity[t] # Nothing => identity[t] \in answeredTo[t]
  /\ minting[t].user # Nothing => minting[t].user \in answeredTo[t]
  /\ screen[t] = "callback" /\ asked[t] /\ brought[t].state # "error" =>
       brought[t].owner \in answeredTo[t]
  /\ screen[t] = "picker" => brought[t].owner \in answeredTo[t]

AInv == Kept /\ \A t \in ATabs : Bounded(t) /\ Known(t)

-----------------------------------------------------------------------------

(* A step of tab t leaves what the other tabs hold alone. *)
Others(t) == \A x \in ATabs : x # t =>
  /\ screen'[x] = screen[x] /\ silent'[x] = silent[x] /\ asked'[x] = asked[x]
  /\ automatic'[x] = automatic[x] /\ expiries'[x] = expiries[x]
  /\ identity'[x] = identity[x] /\ brought'[x] = brought[x]
  /\ minting'[x] = minting[x] /\ answeredTo'[x] = answeredTo[x]

LEMMA TabStep ==
  ASSUME AInv, NEW t \in ATabs, Kept', Others(t), Bounded(t)', Known(t)'
  PROVE  AInv'
<1> SUFFICES ASSUME NEW x \in ATabs, x # t PROVE Bounded(x)' /\ Known(x)'
  BY DEF AInv
<1> QED BY DEF AInv, Others, Bounded, Known

(* A page that loads: to the app, to the picker, or back to the provider. *)
Lands(t, token, marker, next, count) ==
  /\ \/ /\ screen' = [screen EXCEPT ![t] = "idp"] /\ silent' = [silent EXCEPT ![t] = "fresh"]
        /\ automatic' = [automatic EXCEPT ![t] = count + 1]
        /\ token # Nothing /\ marker # "fresh"
     \/ /\ screen' = [screen EXCEPT ![t] = next] /\ silent' = [silent EXCEPT ![t] = marker]
        /\ automatic' = [automatic EXCEPT ![t] = count]
  /\ identity' = [identity EXCEPT ![t] = Nothing] /\ minting' = [minting EXCEPT ![t] = NoMint]
  /\ \E nonce : asked' = [asked EXCEPT ![t] = nonce]

LEMMA ProviderLands ==
  \A t, token, marker, next, count :
    /\ AuthzProvider(t, token, TRUE, marker, next, count) => Lands(t, token, marker, next, count)
    /\ AuthzProvider(t, token, FALSE, marker, next, count) => Lands(t, token, marker, next, count)
    /\ AuthzProvider(t, token, asked[t], marker, next, count) => Lands(t, token, marker, next, count)
BY DEF AuthzProvider, Redirect, Load, silentInFlight, Lands

(* ... with a redirect to spare, or no reason for one. *)
Spare(t, token, marker, count, used) ==
  /\ marker \in {"no", "fresh", "stale"} /\ count \in Nat /\ used \in Nat
  /\ token # Nothing /\ marker # "fresh" => count <= used
  /\ count <= 1 + used
  /\ expiries' = [expiries EXCEPT ![t] = used] /\ answeredTo' = answeredTo
  /\ DOMAIN brought' = ATabs /\ \A x \in ATabs : x # t => brought'[x] = brought[x]
  /\ screen'[t] = "picker" => brought'[t].owner \in answeredTo[t]

LEMMA Loads ==
  ASSUME AInv, NEW t \in ATabs, NEW token, NEW marker, NEW next \in {"app", "picker"},
         NEW count, NEW used, Lands(t, token, marker, next, count), Spare(t, token, marker, count, used)
  PROVE  AInv'
<1>1. Kept'
  BY DEF AInv, Kept, Lands, Spare
<1>2. Others(t)
  BY DEF AInv, Kept, Others, Lands, Spare
<1>3. Bounded(t)'
  BY DEF AInv, Kept, Bounded, Lands, Spare
<1>4. Known(t)'
  BY DEF AInv, Kept, Known, NoMint, Lands, Spare
<1> QED BY <1>1, <1>2, <1>3, <1>4, TabStep

LEMMA LoginBounded == ASSUME AInv, NEW t \in ATabs, AuthzLogin(t) PROVE AInv'
<1>1. Kept' /\ Others(t)
  BY DEF AuthzLogin, Redirect, Load, Asks, AInv, Kept, Others
<1>2. Bounded(t)' /\ Known(t)'
  BY DEF AuthzLogin, Redirect, Load, Asks, AInv, Kept, Bounded, Known, NoMint
<1> QED BY <1>1, <1>2, TabStep

LEMMA ReloadBounded == ASSUME AInv, NEW t \in ATabs, AuthzReload(t) PROVE AInv'
<1>1. /\ Lands(t, authz, silent[t], "app", 0)
      /\ expiries' = [expiries EXCEPT ![t] = 0]
      /\ brought' = [brought EXCEPT ![t] = Unread] /\ answeredTo' = answeredTo
  BY ProviderLands DEF AuthzReload
<1>2. screen'[t] # "picker" /\ silent[t] \in {"no", "fresh", "stale"}
  BY <1>1 DEF Lands, AInv, Kept
<1>3. DOMAIN brought' = ATabs /\ \A x \in ATabs : x # t => brought'[x] = brought[x]
  BY <1>1 DEF AInv, Kept
<1>4. Spare(t, authz, silent[t], 0, 0)
  BY <1>1, <1>2, <1>3 DEF Spare
<1> QED BY <1>1, <1>4, Loads

LEMMA AnswersBounded ==
  ASSUME AInv, NEW t \in ATabs, IdpAnswers(t) \/ StrayAnswer(t)
  PROVE  AInv'
<1>1. CASE IdpAnswers(t)
  <2>1. PICK answer \in Answers :
          /\ brought' = [brought EXCEPT ![t] = answer]
          /\ answeredTo' = IF answer.state = "error" THEN answeredTo
                           ELSE [answeredTo EXCEPT ![t] = @ \cup {answer.owner}]
    BY <1>1 DEF IdpAnswers
  <2>2. /\ screen' = [screen EXCEPT ![t] = "callback"] /\ screen[t] = "idp"
        /\ UNCHANGED <<identity, asked, silent, minting, automatic, expiries>>
    BY <1>1 DEF IdpAnswers
  <2>3. Kept' /\ Others(t)
    BY <2>1, <2>2 DEF AInv, Kept, Others
  <2>4. Bounded(t)'
    BY <2>2 DEF AInv, Kept, Bounded
  <2>5. Known(t)'
    BY <2>1, <2>2 DEF AInv, Kept, Known
  <2> QED BY <2>3, <2>4, <2>5, TabStep
<1>2. CASE StrayAnswer(t)
  <2>1. Kept' /\ Others(t)
    BY <1>2 DEF StrayAnswer, Load, Asks, AInv, Kept, Others
  <2>2. Bounded(t)' /\ Known(t)'
    BY <1>2 DEF StrayAnswer, Load, Asks, AInv, Kept, Bounded, Known, NoMint
  <2> QED BY <2>1, <2>2, TabStep
<1> QED BY <1>1, <1>2

LEMMA CallbackBounded == ASSUME AInv, NEW t \in ATabs, handleCallback(t) PROVE AInv'
<1> DEFINE answer == brought[t]
           error == answer.state = "error"
<1>1. /\ screen[t] = "callback" /\ expiries' = expiries /\ answeredTo' = answeredTo
      /\ brought' = [brought EXCEPT ![t] = IF screen'[t] = "picker" THEN answer ELSE Unread]
  BY DEF handleCallback
<1>2. /\ silent[t] \in {"no", "fresh", "stale"} /\ automatic[t] \in Nat /\ expiries[t] \in Nat
      /\ expiries' = [expiries EXCEPT ![t] = expiries[t]]
      /\ DOMAIN brought' = ATabs /\ \A x \in ATabs : x # t => brought'[x] = brought[x]
  BY <1>1 DEF AInv, Kept
<1>3. /\ automatic[t] <= 1 + expiries[t]
      /\ silent[t] = "no" => automatic[t] <= expiries[t]
      /\ silent[t] = "stale" => automatic[t] <= expiries[t]
  BY <1>1, <1>2 DEF AInv, Bounded
<1>4. PICK token, marker, next :
        /\ Lands(t, token, marker, next, automatic[t])
        /\ \/ token = Nothing /\ marker = "no" /\ next = "app"
           \/ silent[t] = "no" /\ marker = "no" /\ next = "app"
           \/ marker = silent[t] /\ next = "app"
           \/ marker = silent[t] /\ next = "picker" /\ ~error /\ asked[t]
  BY ProviderLands DEF handleCallback
<1>5. screen'[t] = "picker" => ~error /\ asked[t] /\ next = "picker"
  BY <1>4 DEF Lands, AInv, Kept
<1>6. screen'[t] = "picker" => brought'[t].owner \in answeredTo[t]
  BY <1>1, <1>5 DEF AInv, Kept, Known
<1>7. /\ marker \in {"no", "fresh", "stale"} /\ next \in {"app", "picker"}
      /\ token # Nothing /\ marker # "fresh" => automatic[t] <= expiries[t]
  BY <1>2, <1>3, <1>4
<1>8. Spare(t, token, marker, automatic[t], expiries[t])
  BY <1>1, <1>2, <1>3, <1>6, <1>7 DEF Spare
<1> QED BY <1>4, <1>7, <1>8, Loads

LEMMA ExchangesBounded ==
  ASSUME AInv, NEW t \in ATabs,
         MarkerExpires(t) \/ handleSelectWorkspace(t) \/ AuthzRefresh(t) \/ ExchangeEnds(t) \/ AuthzLogout(t)
  PROVE  AInv'
<1>1. CASE MarkerExpires(t)
  <2>1. Kept' /\ Others(t) /\ Bounded(t)'
    BY <1>1 DEF MarkerExpires, AInv, Kept, Others, Bounded
  <2>2. Known(t)'
    BY <1>1 DEF MarkerExpires, AInv, Known
  <2> QED BY <2>1, <2>2, TabStep
<1>2. ASSUME NEW u, NEW w, Exchange(t, u, w), u # Nothing => u \in answeredTo[t] PROVE AInv'
  <2>1. Kept' /\ Others(t) /\ Bounded(t)'
    BY <1>2 DEF Exchange, AInv, Kept, Others, Bounded
  <2>2. Known(t)'
    BY <1>2 DEF Exchange, AInv, Kept, Known
  <2> QED BY <2>1, <2>2, TabStep
<1>3. CASE handleSelectWorkspace(t)
  <2>1. brought[t].owner \in answeredTo[t]
    BY <1>3 DEF handleSelectWorkspace, AInv, Known
  <2> QED BY <1>2, <1>3, <2>1 DEF handleSelectWorkspace
<1>4. ASSUME clear(t), UNCHANGED <<screen, asked, brought, automatic, expiries, answeredTo>>,
             silent' = silent \/ silent' = [silent EXCEPT ![t] = "no"], screen[t] = "app"
      PROVE  AInv'
  <2>1. Kept' /\ Others(t) /\ Bounded(t)'
    BY <1>4 DEF clear, AInv, Kept, Others, Bounded
  <2>2. Known(t)'
    BY <1>4 DEF clear, AInv, Kept, Known, NoMint
  <2> QED BY <2>1, <2>2, TabStep
<1>5. CASE AuthzRefresh(t)
  <2>1. identity[t] # Nothing => identity[t] \in answeredTo[t]
    BY DEF AInv, Known
  <2> QED BY <1>2, <1>4, <1>5, <2>1 DEF AuthzRefresh
<1>6. CASE AuthzLogout(t)
  BY <1>4, <1>6 DEF AuthzLogout
<1>7. CASE ExchangeEnds(t)
  <2>1. /\ screen' = [screen EXCEPT ![t] = "app"] /\ brought' = [brought EXCEPT ![t] = Unread]
        /\ minting' = [minting EXCEPT ![t] = NoMint]
        /\ UNCHANGED <<asked, automatic, expiries, answeredTo>>
        /\ silent' = silent \/ silent' = [silent EXCEPT ![t] = "no"]
        /\ \/ identity' = identity \/ identity' = [identity EXCEPT ![t] = Nothing]
           \/ identity' = [identity EXCEPT ![t] = minting[t].user] /\ minting[t].user # Nothing
    BY <1>7 DEF ExchangeEnds, clear
  <2>2. Kept' /\ Others(t) /\ Bounded(t)'
    BY <2>1 DEF AInv, Kept, Others, Bounded
  <2>3. Known(t)'
    BY <2>1 DEF AInv, Kept, Known, NoMint
  <2> QED BY <2>2, <2>3, TabStep
<1> QED BY <1>1, <1>3, <1>5, <1>6, <1>7

-----------------------------------------------------------------------------

LEMMA InitBounded == AuthzInit => AInv
BY DEF AuthzInit, AInv, Kept, Bounded, Known, NoMint

LEMMA NextBounded == AInv /\ [AuthzNext]_<<authzVars, authzGhosts>> => AInv'
<1> SUFFICES ASSUME AInv, [AuthzNext]_<<authzVars, authzGhosts>> PROVE AInv'
  OBVIOUS
<1>1. CASE UNCHANGED <<authzVars, authzGhosts>>
  BY <1>1 DEF authzVars, authzGhosts, AInv, Kept, Bounded, Known
<1>2. CASE AuthzNext
  BY <1>2, LoginBounded, ReloadBounded, AnswersBounded, CallbackBounded, ExchangesBounded
     DEF AuthzNext
<1> QED BY <1>1, <1>2

(* autoReauth sends a tab to the identity provider by itself once, plus once
   for each attempt that outlived its minute, and no tab ends up with an
   account whose answer another tab asked for. *)
THEOREM RedirectsEnd == AuthzSpec => []LoginsComeBack
<1>1. AInv => LoginsComeBack
  BY DEF AInv, LoginsComeBack, NoRedirectLoop, OwnLoginsOnly, Bounded, Known
<1> QED BY <1>1, InitBounded, NextBounded, PTL DEF AuthzSpec

-----------------------------------------------------------------------------
(* AUTHZTABS: nothing signs an app in again behind its user's back. *)

(* Signed out, no exchange is under way, and no tab is on the way to one: at
   most an answer that nobody asked for waits to be read. *)
Silent(t) == /\ minting[t] = NoMint /\ screen[t] \in {"app", "callback"}
             /\ screen[t] = "callback" => ~asked[t]
SInv == signedOut => authz = Nothing /\ \A t \in ATabs : Silent(t)

(* A page that loads without a token stays in the app. *)
LEMMA StaysInApp ==
  ASSUME Kept, SInv, signedOut, NEW t \in ATabs, NEW nonce, NEW marker, NEW count,
         AuthzProvider(t, Nothing, nonce, marker, "app", count), signedOut' = signedOut
  PROVE  SInv'
<1>1. /\ authz' = Nothing /\ screen' = [screen EXCEPT ![t] = "app"]
      /\ minting' = [minting EXCEPT ![t] = NoMint] /\ asked' = [asked EXCEPT ![t] = nonce]
  BY DEF AuthzProvider, Load
<1> QED BY <1>1 DEF SInv, Silent, Kept

LEMMA SilentNext == AInv /\ SInv /\ [AuthzNext]_<<authzVars, authzGhosts>> => SInv'
<1> SUFFICES ASSUME AInv, SInv, [AuthzNext]_<<authzVars, authzGhosts>> PROVE SInv'
  OBVIOUS
<1> USE DEF AInv
<1>1. ASSUME NEW t \in ATabs, AuthzLogin(t) PROVE SInv'
  BY <1>1 DEF AuthzLogin, SInv
<1>2. ASSUME NEW t \in ATabs, AuthzLogout(t) PROVE SInv'
  <2>1. /\ authz' = Nothing /\ UNCHANGED <<screen, asked>>
        /\ minting' = [minting EXCEPT ![t] = NoMint]
        /\ signedOut' <=> \A x \in ATabs : screen[x] = "app" /\ minting[x] = NoMint
    BY <1>2 DEF AuthzLogout, clear
  <2> QED BY <2>1 DEF SInv, Silent, Kept
<1>3. CASE ~signedOut /\ signedOut' = signedOut
  BY <1>3 DEF SInv
<1>4. ASSUME signedOut, NEW t \in ATabs, AuthzReload(t) \/ handleCallback(t) PROVE SInv'
  <2>1. /\ authz = Nothing /\ (screen[t] = "callback" => ~asked[t])
        /\ signedOut' = signedOut
    BY <1>4 DEF SInv, Silent, AuthzReload, handleCallback
  <2>2. PICK nonce, marker, count : AuthzProvider(t, Nothing, nonce, marker, "app", count)
    BY <1>4, <2>1 DEF AuthzReload, handleCallback
  <2> QED BY <1>4, <2>1, <2>2, StaysInApp
<1>5. ASSUME signedOut, NEW t \in ATabs, StrayAnswer(t) PROVE SInv'
  <2>1. /\ authz' = authz /\ screen' = [screen EXCEPT ![t] = "callback"] /\ signedOut' = signedOut
        /\ minting' = [minting EXCEPT ![t] = NoMint] /\ asked' = [asked EXCEPT ![t] = FALSE]
    BY <1>5 DEF StrayAnswer, Load
  <2> QED BY <1>5, <2>1 DEF SInv, Silent, Kept
<1>6. ASSUME signedOut, NEW t \in ATabs, MarkerExpires(t) \/ AuthzRefresh(t) PROVE SInv'
  <2>1. authz = Nothing
    BY <1>6 DEF SInv
  <2>2. /\ authz' = authz /\ UNCHANGED <<screen, asked, signedOut>>
        /\ minting' = minting \/ minting' = [minting EXCEPT ![t] = NoMint]
    BY <1>6, <2>1 DEF MarkerExpires, AuthzRefresh, clear
  <2> QED BY <1>6, <2>2 DEF SInv, Silent, Kept
<1>7. ASSUME signedOut, NEW t \in ATabs,
             IdpAnswers(t) \/ handleSelectWorkspace(t) \/ ExchangeEnds(t)
      PROVE  FALSE
  <2>1. minting[t].user = Nothing /\ screen[t] \in {"app", "callback"}
    BY <1>7 DEF SInv, Silent, NoMint
  <2> QED BY <1>7, <2>1 DEF IdpAnswers, handleSelectWorkspace, ExchangeEnds
<1>8. ASSUME NEW t \in ATabs,
             \/ AuthzReload(t) \/ IdpAnswers(t) \/ StrayAnswer(t) \/ handleCallback(t)
             \/ MarkerExpires(t) \/ handleSelectWorkspace(t) \/ AuthzRefresh(t) \/ ExchangeEnds(t)
      PROVE  signedOut' = signedOut
  BY <1>8 DEF AuthzReload, IdpAnswers, StrayAnswer, handleCallback, MarkerExpires,
              handleSelectWorkspace, AuthzRefresh, Exchange, ExchangeEnds
<1>9. CASE UNCHANGED <<authzVars, authzGhosts>>
  BY <1>9 DEF authzVars, authzGhosts, SInv, Silent
<1> QED BY <1>1, <1>2, <1>3, <1>4, <1>5, <1>6, <1>7, <1>8, <1>9 DEF AuthzNext

(* In the authz mode, no reload, stray answer, marker or refresh of any tab
   signs the app in again once its user signed out; only a login does.
   (AuthzProvider's effect, handleCallback, _doRefresh) *)
THEOREM AuthzTabsSignOut == AuthzSpec => []SignedOutForGood
<1>1. AuthzInit => SInv
  BY DEF AuthzInit, SInv
<1>2. SInv => SignedOutForGood
  BY DEF SInv, SignedOutForGood
<1> QED BY <1>1, <1>2, InitBounded, NextBounded, SilentNext, PTL DEF AuthzSpec

-----------------------------------------------------------------------------
(* APPBACKEND: the tokens that requests share. *)

mintVars == <<request, cache, pending, mints, refused>>

(* A minted token is its number's and its pair's alone. *)
Minted(token) == token.id \in 1..mints
CacheOK ==
  /\ DOMAIN cache = Pairs
  /\ \A pair \in Pairs : cache[pair] # Missing =>
       Minted(cache[pair]) /\ cache[pair].pair = pair /\ cache[pair].id \notin refused
  /\ \A p, q \in Pairs : cache[p] # Missing /\ cache[q] # Missing /\ cache[p].id = cache[q].id
       => p = q

(* A request waits for a mint that is under way, or carries what one made. *)
Carries(r) == request[r].pc = "verifying" /\ request[r].auto
RequestsOK ==
  /\ DOMAIN request = Requests
  /\ \A r \in Requests :
       /\ request[r].pc = "waiting" => request[r].pair \in pending
       /\ Carries(r) =>
            /\ Minted(request[r].token) /\ request[r].token.pair = request[r].pair
            /\ request[r].pair \in Pairs
            /\ \A p \in Pairs : cache[p] # Missing /\ cache[p].id = request[r].token.id
                 => p = request[r].pair

MintInv == /\ mints \in Nat /\ refused \subseteq 1..mints /\ pending \subseteq Pairs
           /\ CacheOK /\ RequestsOK

-----------------------------------------------------------------------------

LEMMA SameMints == MintInv /\ UNCHANGED mintVars => MintInv'
BY DEF MintInv, mintVars, CacheOK, RequestsOK, Carries, Minted

(* Requests that neither wait nor verify afterwards. *)
LEMMA Leaving ==
  ASSUME MintInv, DOMAIN request' = Requests, UNCHANGED <<cache, pending, mints, refused>>,
         \A r \in Requests : request'[r] = request[r] \/ request'[r].pc \notin {"waiting", "verifying"}
  PROVE  MintInv'
<1>1. CacheOK'
  BY DEF MintInv, CacheOK, Minted
<1>2. RequestsOK'
  BY DEF MintInv, RequestsOK, Carries, Minted
<1> QED BY <1>1, <1>2 DEF MintInv

LEMMA ElsewhereOK ==
  ASSUME MintInv,
         \/ RotateKey \/ MoveRealm \/ JWTAuthMiddleware \/ createAccessVerifier
         \/ verify_m2m_token \/ verifyM2mToken \/ WriteEnds \/ AnswerLost \/ share
         \/ \E p \in Processes : reset_cache(p)
         \/ \E q \in Questions : AnswerExpires(q)
  PROVE  MintInv'
<1>1. UNCHANGED <<request, cache, pending, mints, refused>>
  <2>1. CASE \/ RotateKey \/ MoveRealm \/ WriteEnds \/ AnswerLost \/ share
             \/ \E p \in Processes : reset_cache(p)
             \/ \E q \in Questions : AnswerExpires(q)
    BY <2>1 DEF RotateKey, MoveRealm, WriteEnds, AnswerLost, Answered, share, WriteGoes,
                reset_cache, AnswerExpires, appGhosts
  <2>2. CASE JWTAuthMiddleware \/ createAccessVerifier \/ verify_m2m_token \/ verifyM2mToken
    BY <2>2 DEF JWTAuthMiddleware, createAccessVerifier, verify_m2m_token, verifyM2mToken, OneToken
  <2> QED BY <2>1, <2>2
<1> QED BY <1>1, SameMints DEF mintVars

LEMMA WritingOK ==
  ASSUME MintInv, register_resource \/ unshare \/ Apply \/ WriteRefused
  PROVE  MintInv'
<1>1. /\ UNCHANGED <<cache, pending, mints, refused>>
      /\ request' = Overlap \/ request' = request
  BY DEF register_resource, unshare, Apply, WriteRefused, WriteGoes, appGhosts
<1>2. CASE request' = Overlap
  <2>1. \A r \in Requests : request'[r] = request[r] \/ request'[r].pc \notin {"waiting", "verifying"}
    BY <1>2 DEF Overlap
  <2> QED BY <1>1, <1>2, <2>1, Leaving DEF Overlap
<1>3. CASE request' = request
  BY <1>1, <1>3, SameMints DEF mintVars
<1> QED BY <1>1, <1>2, <1>3

LEMMA AskingOK ==
  ASSUME MintInv, NEW r \in Requests,
         \/ can(r) \/ accessible(r) \/ check(r) \/ CacheAnswer(r) \/ Finish(r) \/ Disconnect(r)
  PROVE  MintInv'
<1>1. /\ UNCHANGED <<cache, pending, mints, refused>>
      /\ DOMAIN request' = Requests
      /\ \A x \in Requests : x # r => request'[x] = request[x]
  BY DEF can, accessible, Ask, check, CacheAnswer, Finish, Disconnect, appGhosts, MintInv, RequestsOK
<1>2. request'[r].pc \notin {"waiting", "verifying"}
  BY DEF can, accessible, Ask, check, CacheAnswer, Finish, Disconnect, Idle, MintInv, RequestsOK
<1> QED BY <1>1, <1>2, Leaving

LEMMA lifespanOK == ASSUME MintInv, lifespan PROVE MintInv'
<1>1. /\ cache' = [pair \in Pairs |-> Missing] /\ pending' = {}
      /\ request' = [r \in Requests |-> Idle] /\ UNCHANGED <<mints, refused>>
  BY DEF lifespan, Started
<1> QED BY <1>1 DEF MintInv, CacheOK, RequestsOK, Carries, Minted, Idle

LEMMA BothTokensOK == ASSUME MintInv, NEW r \in Requests, BothTokens(r) PROVE MintInv'
<1>1. PICK pair, token : request' = [request EXCEPT ![r] = Verifying(pair, token, FALSE)]
  BY DEF BothTokens
<1>2. UNCHANGED <<cache, pending, mints, refused>>
  BY DEF BothTokens, appGhosts
<1>3. request'[r].pc = "verifying" /\ request'[r].auto = FALSE
  BY <1>1 DEF Verifying, MintInv, RequestsOK
<1>4. RequestsOK'
  BY <1>1, <1>2, <1>3 DEF MintInv, RequestsOK, Carries, Minted
<1> QED BY <1>2, <1>4 DEF MintInv, CacheOK, Minted

LEMMA ResolveOK == ASSUME MintInv, NEW r \in Requests, Resolve(r) PROVE MintInv'
<1>1. UNCHANGED <<cache, mints, refused>>
  BY DEF Resolve, appGhosts
<1>2. CacheOK'
  BY <1>1 DEF MintInv, CacheOK, Minted
<1>3. PICK pair \in Pairs :
        \/ /\ cache[pair] # Missing /\ pending' = pending
           /\ request' = [request EXCEPT ![r] = Verifying(pair, cache[pair], TRUE)]
        \/ /\ request' = [request EXCEPT ![r] = [pc |-> "waiting", pair |-> pair]]
           /\ pending' = pending \cup {pair}
  BY DEF Resolve, CacheKey
<1>4. CASE cache[pair] # Missing /\ pending' = pending
           /\ request' = [request EXCEPT ![r] = Verifying(pair, cache[pair], TRUE)]
  <2>1. /\ request'[r].pc = "verifying" /\ request'[r].pair = pair
        /\ request'[r].token = cache[pair] /\ DOMAIN request' = Requests
        /\ \A x \in Requests : x # r => request'[x] = request[x]
    BY <1>4 DEF Verifying, MintInv, RequestsOK
  <2>2. RequestsOK'
    <3>1. Minted(cache[pair]) /\ cache[pair].pair = pair
      BY <1>4 DEF MintInv, CacheOK
    <3>2. \A p \in Pairs : cache[p] # Missing /\ cache[p].id = cache[pair].id => p = pair
      BY <1>4 DEF MintInv, CacheOK
    <3>3. \A x \in Requests : x # r => (Carries(x)' <=> Carries(x))
      BY <2>1 DEF Carries
    <3> QED BY <1>1, <1>4, <2>1, <3>1, <3>2, <3>3 DEF MintInv, RequestsOK, Minted
  <2> QED BY <1>1, <1>2, <1>4, <2>2 DEF MintInv
<1>5. CASE /\ request' = [request EXCEPT ![r] = [pc |-> "waiting", pair |-> pair]]
           /\ pending' = pending \cup {pair}
  <2>1. RequestsOK'
    BY <1>1, <1>5 DEF MintInv, RequestsOK, Carries, Minted
  <2> QED BY <1>1, <1>2, <1>5, <2>1 DEF MintInv
<1> QED BY <1>3, <1>4, <1>5

(* The new token's number is no other's. *)
LEMMA MintAnswersOK == ASSUME MintInv, NEW pair \in Pairs, MintAnswers(pair) PROVE MintInv'
<1>1. PICK token : /\ token.id = mints + 1 /\ token.pair = pair
                   /\ cache' = [cache EXCEPT ![pair] = token]
                   /\ request' = [r \in Requests |-> IF r \in Waiting(pair)
                                    THEN Verifying(request[r].pair, token, TRUE) ELSE request[r]]
  BY DEF MintAnswers
<1>2. /\ mints' = mints + 1 /\ refused' = refused /\ pending' = pending \ {pair}
      /\ mints' \in Nat /\ refused' \subseteq 1..mints'
      /\ \A i \in 1..mints : i \in 1..mints' /\ i # mints + 1
  BY DEF MintAnswers, MintInv
<1>3. /\ cache'[pair] = token /\ token.id \in 1..mints' /\ token.id \notin refused
      /\ \A p \in Pairs : p # pair => cache'[p] = cache[p]
      /\ DOMAIN cache' = Pairs
  BY <1>1, <1>2 DEF MintInv, CacheOK
<1>4. CacheOK'
  BY <1>1, <1>2, <1>3 DEF MintInv, CacheOK, Minted
<1>5. RequestsOK'
  <2> SUFFICES ASSUME NEW r \in Requests
               PROVE  /\ request'[r].pc = "waiting" => request'[r].pair \in pending'
                      /\ request'[r].pc = "verifying" /\ request'[r].auto =>
                           /\ request'[r].token.id \in 1..mints'
                           /\ request'[r].token.pair = request'[r].pair
                           /\ request'[r].pair \in Pairs
                           /\ \A p \in Pairs : cache'[p] # Missing
                                /\ cache'[p].id = request'[r].token.id => p = request'[r].pair
    BY <1>1 DEF RequestsOK, Carries, Minted
  <2>0. \A p \in Pairs : p # pair /\ cache'[p] # Missing => cache'[p].id \in 1..mints
    BY <1>3 DEF MintInv, CacheOK, Minted
  <2>1. CASE r \in Waiting(pair)
    <3>1. request'[r] = Verifying(pair, token, TRUE)
      BY <1>1, <2>1 DEF Waiting, CacheKey
    <3>2. /\ request'[r].pc = "verifying" /\ request'[r].pair = pair /\ request'[r].token = token
      BY <3>1 DEF Verifying
    <3>3. ASSUME NEW p \in Pairs, cache'[p] # Missing, cache'[p].id = token.id PROVE p = pair
      <4>1. mints + 1 \notin 1..mints
        BY DEF MintInv
      <4> QED BY <1>1, <2>0, <3>3, <4>1
    <3>4. token.id \in 1..mints' /\ token.pair = pair
      BY <1>1, <1>3
    <3> QED BY <3>2, <3>3, <3>4
  <2>2. CASE r \notin Waiting(pair)
    <3>1. request'[r] = request[r]
      BY <1>1, <2>2
    <3>2. request[r].pc = "waiting" => request[r].pair \in pending /\ request[r].pair # pair
      BY <2>2 DEF MintInv, RequestsOK, Waiting, CacheKey
    <3>3. Carries(r) => /\ request[r].token.id \in 1..mints /\ request[r].token.pair = request[r].pair
                        /\ request[r].pair \in Pairs
                        /\ \A p \in Pairs : cache[p] # Missing /\ cache[p].id = request[r].token.id
                             => p = request[r].pair
      BY DEF MintInv, RequestsOK, Minted
    <3>4. request'[r].pc = "waiting" => request'[r].pair \in pending'
      BY <1>2, <3>1, <3>2
    <3>5. ASSUME request[r].pc = "verifying" /\ request[r].auto
          PROVE  /\ request[r].token.id \in 1..mints' /\ request[r].token.pair = request[r].pair
                 /\ request[r].pair \in Pairs
                 /\ \A p \in Pairs : cache'[p] # Missing
                      /\ cache'[p].id = request[r].token.id => p = request[r].pair
      <4>1. Carries(r)
        BY <3>5 DEF Carries
      <4>2. request[r].token.id \in 1..mints' /\ request[r].token.id # mints + 1
        BY <1>2, <3>3, <4>1
      <4>3. ASSUME NEW p \in Pairs, cache'[p] # Missing, cache'[p].id = request[r].token.id
            PROVE  p = request[r].pair
        <5>1. p # pair
          BY <1>1, <1>3, <4>2, <4>3
        <5> QED BY <1>3, <3>3, <4>1, <4>3, <5>1
      <4> QED BY <3>3, <4>1, <4>2, <4>3
    <3> QED BY <3>1, <3>4, <3>5
  <2> QED BY <2>1, <2>2
<1> QED BY <1>2, <1>4, <1>5 DEF MintInv

LEMMA MintFailsOK == ASSUME MintInv, NEW pair \in Pairs, MintFails(pair) PROVE MintInv'
<1>1. /\ pending' = pending \ {pair} /\ UNCHANGED <<cache, mints, refused>>
      /\ request' = [r \in Requests |-> IF r \in Waiting(pair) THEN Idle ELSE request[r]]
  BY DEF MintFails, appGhosts
<1>2. CacheOK'
  BY <1>1 DEF MintInv, CacheOK, Minted
<1>3. RequestsOK'
  BY <1>1 DEF MintInv, RequestsOK, Carries, Minted, Waiting, CacheKey, Idle
<1> QED BY <1>1, <1>2, <1>3 DEF MintInv

LEMMA CacheExpiresOK == ASSUME MintInv, NEW pair \in Pairs, CacheExpires(pair) PROVE MintInv'
<1>1. /\ cache' = [cache EXCEPT ![pair] = Missing] /\ UNCHANGED <<request, pending, mints, refused>>
  BY DEF CacheExpires, appGhosts
<1>2. CacheOK'
  BY <1>1 DEF MintInv, CacheOK, Minted
<1>3. RequestsOK'
  BY <1>1 DEF MintInv, CacheOK, RequestsOK, Carries, Minted
<1> QED BY <1>1, <1>2, <1>3 DEF MintInv

LEMMA VerifyOK == ASSUME MintInv, NEW r \in Requests, Verify(r) PROVE MintInv'
<1> DEFINE token == request[r].token
           pair == request[r].pair
<1>1. /\ UNCHANGED <<pending, mints>> /\ request[r].pc = "verifying" /\ DOMAIN request' = Requests
      /\ \A x \in Requests : x # r => request'[x] = request[x]
      /\ request'[r].pc \in {"served", "idle"}
  BY DEF Verify, MintInv, RequestsOK, Idle
<1>2. CASE UNCHANGED <<cache, refused>>
  BY <1>1, <1>2, Leaving
<1>3. CASE /\ request[r].auto /\ cache' = [cache EXCEPT ![pair] = Missing]
           /\ refused' = refused \cup {token.id}
  <2>1. /\ pair \in Pairs /\ token.id \in 1..mints
        /\ \A p \in Pairs : cache[p] # Missing /\ cache[p].id = token.id => p = pair
    BY <1>1, <1>3 DEF MintInv, RequestsOK, Carries, Minted
  <2>2. CacheOK'
    BY <1>1, <1>3, <2>1 DEF MintInv, CacheOK, Minted
  <2>3. RequestsOK'
    BY <1>1, <1>3, <2>1 DEF MintInv, CacheOK, RequestsOK, Carries, Minted
  <2> QED BY <1>1, <1>3, <2>1, <2>2, <2>3 DEF MintInv
<1> QED BY <1>2, <1>3 DEF Verify, Dropped, CacheKey

LEMMA AppInitOK == AppInit => MintInv
BY DEF AppInit, MintInv, CacheOK, RequestsOK, Carries, Minted, Idle

LEMMA AppNextOK == MintInv /\ [AppNext]_<<appVars, appGhosts>> => MintInv'
<1> SUFFICES ASSUME MintInv, [AppNext]_<<appVars, appGhosts>> PROVE MintInv'
  OBVIOUS
<1>1. CASE \/ RotateKey \/ MoveRealm \/ JWTAuthMiddleware \/ createAccessVerifier
           \/ verify_m2m_token \/ verifyM2mToken \/ WriteEnds \/ AnswerLost \/ share
           \/ \E p \in Processes : reset_cache(p)
           \/ \E q \in Questions : AnswerExpires(q)
  BY <1>1, ElsewhereOK
<1>2. CASE register_resource \/ unshare \/ Apply \/ WriteRefused
  BY <1>2, WritingOK
<1>3. CASE lifespan
  BY <1>3, lifespanOK
<1>4. ASSUME NEW pair \in Pairs, \/ _mint(pair) \/ mint(pair) \/ CacheExpires(pair)
                                 \/ _mint_error(pair) \/ resolveErrorResponse(pair)
      PROVE  MintInv'
  BY <1>4, MintAnswersOK, MintFailsOK, CacheExpiresOK DEF _mint, mint, _mint_error, resolveErrorResponse
<1>5. ASSUME NEW r \in Requests,
             \/ BothTokens(r) \/ _auto_resolve(r) \/ resolveOnce(r) \/ dispatch(r) \/ middleware(r)
      PROVE  MintInv'
  BY <1>5, BothTokensOK, ResolveOK, VerifyOK DEF _auto_resolve, resolveOnce, dispatch, middleware
<1>6. ASSUME NEW r \in Requests,
             \/ can(r) \/ accessible(r) \/ check(r) \/ CacheAnswer(r) \/ Finish(r) \/ Disconnect(r)
      PROVE  MintInv'
  BY <1>6, AskingOK
<1>7. CASE UNCHANGED <<appVars, appGhosts>>
  BY <1>7, SameMints DEF appVars, appGhosts, mintVars
<1> QED BY <1>1, <1>2, <1>3, <1>4, <1>5, <1>6, <1>7 DEF AppNext

(* However many requests share a mint, whoever disconnects and whichever mint
   fails: no request waits for a mint that is over, and each verifies a token
   of its own caller and workspace.  (_auto_resolve, _mint) *)
THEOREM MintsAreShared == AppSpec => []SharedMints
<1>1. MintInv => SharedMints
  BY DEF MintInv, RequestsOK, Carries, SharedMints, WaitersAreServed, MintsFitTheirCallers, CacheKey
<1> QED BY <1>1, AppInitOK, AppNextOK, PTL DEF AppSpec

-----------------------------------------------------------------------------
(* APPBACKEND: refusals have a reason. *)

keyVars == <<newest, loaded, cache, request, misled>>

(* A token in use is under the newest key or the one before it, and some
   process publishes its key. *)
Published(key) == /\ key \in {newest, newest - 1} \ {0}
                  /\ \E p \in Processes : key <= loaded[p]
KeysOK ==
  /\ newest \in Nat \ {0} /\ DOMAIN loaded = Processes
  /\ \A p \in Processes : loaded[p] \in {newest, newest - 1} \ {0}
KeyInUse(r) == request[r].pc = "verifying" => Published(request[r].token.key)
KeysInv ==
  /\ KeysOK /\ ~misled
  /\ DOMAIN cache = Pairs /\ \A pair \in Pairs : cache[pair] # Missing => Published(cache[pair].key)
  /\ DOMAIN request = Requests /\ \A r \in Requests : KeyInUse(r)

LEMMA SameKeys == KeysInv /\ UNCHANGED keyVars => KeysInv'
BY DEF KeysInv, keyVars, KeysOK, KeyInUse, Published

(* While the processes agree, each publishes every key that is in use. *)
LEMMA AgreedKeys ==
  ASSUME KeysInv, Settled, NEW key, Published(key), NEW p \in Processes
  PROVE  key \in build_jwks(p)
<1>1. PICK q \in Processes : key <= loaded[q]
  BY DEF Published
<1>2. loaded[q] = loaded[p]
  BY DEF Settled
<1>3. /\ newest \in Nat \ {0} /\ loaded[p] \in {newest, newest - 1} \ {0}
      /\ key \in {newest, newest - 1} \ {0}
  BY DEF KeysInv, KeysOK, Published
<1> QED BY <1>1, <1>2, <1>3 DEF build_jwks, verification_keys

LEMMA LiveKeysPublished == ASSUME KeysInv, NEW key \in LiveKeys PROVE Published(key)
<1> DEFINE KeyPairs == {{loaded[p], newest - 1} : p \in Processes}
<1>0. key # 0 /\ \E S \in KeyPairs : key \in S
  <2>1. key \in (UNION KeyPairs) \ {0}
    BY Zenon DEF LiveKeys
  <2> HIDE DEF KeyPairs
  <2> QED BY <2>1
<1>1. PICK p \in Processes : key \in {loaded[p], newest - 1}
  BY <1>0
<1>2. newest \in Nat \ {0} /\ loaded[p] \in {newest, newest - 1} \ {0}
  BY DEF KeysInv, KeysOK
<1>3. key <= loaded[p] /\ key \in {newest, newest - 1} \ {0}
  BY <1>0, <1>1, <1>2
<1> QED BY <1>3 DEF Published

(* A key is found, but for the cooldown of the fetch. *)
LEMMA KeyFound ==
  ASSUME KeysInv, Settled, NEW key, Published(key), _decode_authz(key), ~CoolingDown(key)
  PROVE  key \in known'
<1>1. CASE Fetched
  BY <1>1, AgreedKeys DEF Fetched
<1>2. CASE key \in known /\ known' = known
  BY <1>2
<1> QED BY <1>1, <1>2 DEF _decode_authz

(* Steps that leave the keys alone: no token comes into use that was not. *)
LEMMA KeysStay ==
  ASSUME KeysInv, UNCHANGED <<newest, loaded>>, ~misled',
         DOMAIN cache' = Pairs, DOMAIN request' = Requests,
         \A pair \in Pairs : \/ cache'[pair] = cache[pair] \/ cache'[pair] = Missing
                             \/ Published(cache'[pair].key),
         \A r \in Requests : \/ request'[r] = request[r] \/ request'[r].pc # "verifying"
                             \/ Published(request'[r].token.key)
  PROVE  KeysInv'
<1>1. \A key : Published(key)' <=> Published(key)
  BY DEF Published
<1>2. KeysOK'
  BY DEF KeysInv, KeysOK
<1>3. \A r \in Requests : KeyInUse(r)'
  BY <1>1 DEF KeysInv, KeyInUse
<1>4. \A pair \in Pairs : (cache[pair] # Missing => Published(cache[pair].key))'
  BY <1>1 DEF KeysInv
<1> QED BY <1>2, <1>3, <1>4 DEF KeysInv

LEMMA RotateKeyOK == ASSUME KeysInv, RotateKey PROVE KeysInv'
<1>1. newest' = newest + 1 /\ UNCHANGED <<loaded, cache, request, misled>>
  BY DEF RotateKey, appGhosts
<1>2. KeysOK' /\ newest \in Nat \ {0}
  BY <1>1 DEF RotateKey, OverlapIsOver, KeysInv, KeysOK
<1>3. \A key : key = newest /\ Published(key) => Published(key)'
  BY <1>1, <1>2 DEF Published
<1>4. \A r \in Requests : KeyInUse(r)'
  BY <1>1, <1>3 DEF RotateKey, OverlapIsOver, KeysInv, KeyInUse
<1>5. \A pair \in Pairs : (cache[pair] # Missing => Published(cache[pair].key))'
  BY <1>1, <1>3 DEF RotateKey, OverlapIsOver, KeysInv
<1> QED BY <1>1, <1>2, <1>4, <1>5 DEF KeysInv

LEMMA reset_cacheOK == ASSUME KeysInv, NEW p \in Processes, reset_cache(p) PROVE KeysInv'
<1>1. loaded' = [loaded EXCEPT ![p] = newest] /\ UNCHANGED <<newest, cache, request, misled>>
  BY DEF reset_cache, appGhosts
<1>2. KeysOK' /\ newest \in Nat \ {0} /\ \A x \in Processes : loaded[x] \in Nat /\ loaded[x] <= loaded'[x]
  BY <1>1 DEF KeysInv, KeysOK
<1>3. \A key : Published(key) => Published(key)'
  <2> SUFFICES ASSUME NEW key, Published(key) PROVE Published(key)'
    OBVIOUS
  <2>1. PICK x \in Processes : key <= loaded[x]
    BY DEF Published
  <2>2. key \in Nat
    BY <1>2 DEF Published
  <2>3. key <= loaded'[x]
    <3>1. loaded[x] \in Nat /\ loaded[x] <= loaded'[x] /\ loaded'[x] \in Nat
      BY <1>2 DEF KeysOK
    <3> QED BY <2>1, <2>2, <3>1
  <2> QED BY <1>1, <2>3 DEF Published
<1>4. \A r \in Requests : KeyInUse(r)'
  BY <1>1, <1>3 DEF KeysInv, KeyInUse
<1>5. \A pair \in Pairs : (cache[pair] # Missing => Published(cache[pair].key))'
  BY <1>1, <1>3 DEF KeysInv
<1> QED BY <1>1, <1>2, <1>4, <1>5 DEF KeysInv

LEMMA QuestionsLeaveKeys ==
  ASSUME KeysInv,
         \/ MoveRealm \/ register_resource \/ share \/ unshare \/ Apply \/ WriteRefused
         \/ WriteEnds \/ AnswerLost
         \/ \E q \in Questions : AnswerExpires(q)
         \/ \E r \in Requests :
              \/ can(r) \/ accessible(r) \/ check(r) \/ CacheAnswer(r) \/ Finish(r) \/ Disconnect(r)
  PROVE  KeysInv'
<1>1. CASE MoveRealm \/ share \/ WriteRefused \/ Apply \/ WriteEnds \/ AnswerLost
           \/ \E q \in Questions : AnswerExpires(q)
  BY <1>1, SameKeys DEF MoveRealm, share, WriteRefused, Apply, WriteGoes, WriteEnds, AnswerLost, Answered,
                        AnswerExpires, appGhosts, keyVars
<1>2. CASE register_resource \/ unshare
  <2>1. /\ request' = Overlap /\ UNCHANGED <<newest, loaded, cache, misled>>
    BY <1>2 DEF register_resource, unshare, WriteGoes, appGhosts
  <2>2. \A r \in Requests : request'[r] = request[r] \/ request'[r].pc # "verifying"
    BY <2>1 DEF Overlap
  <2>3. DOMAIN request' = Requests
    BY <2>1 DEF Overlap
  <2> QED BY <2>1, <2>2, <2>3, KeysStay DEF KeysInv
<1>3. ASSUME NEW r \in Requests,
             \/ can(r) \/ accessible(r) \/ check(r) \/ CacheAnswer(r) \/ Finish(r) \/ Disconnect(r)
      PROVE  KeysInv'
  <2>1. UNCHANGED <<newest, loaded, cache, misled>>
    BY <1>3 DEF can, accessible, Ask, check, CacheAnswer, Finish, Disconnect, appGhosts
  <2>2. PICK next : request' = [request EXCEPT ![r] = next] /\ next.pc # "verifying"
    BY <1>3 DEF can, accessible, Ask, check, CacheAnswer, Finish, Disconnect, Idle
  <2> QED BY <2>1, <2>2, KeysStay DEF KeysInv
<1> QED BY <1>1, <1>2, <1>3

LEMMA lifespanKeys == ASSUME KeysInv, lifespan PROVE KeysInv'
<1>1. /\ cache' = [pair \in Pairs |-> Missing] /\ request' = [r \in Requests |-> Idle]
      /\ UNCHANGED <<newest, loaded, misled>>
  BY DEF lifespan, Started
<1>2. \A r \in Requests : request'[r].pc # "verifying"
  BY <1>1 DEF Idle
<1> QED BY <1>1, <1>2, KeysStay DEF KeysInv

LEMMA TokensGetKeys ==
  ASSUME KeysInv,
         \/ \E r \in Requests : BothTokens(r) \/ Resolve(r)
         \/ \E pair \in Pairs : MintAnswers(pair) \/ MintFails(pair) \/ CacheExpires(pair)
  PROVE  KeysInv'
<1>1. ASSUME NEW r \in Requests, BothTokens(r) PROVE KeysInv'
  <2>1. PICK token \in HeldTokens : \E pair : request' = [request EXCEPT ![r] = Verifying(pair, token, FALSE)]
    BY <1>1 DEF BothTokens
  <2>2. Published(token.key)
    BY LiveKeysPublished DEF HeldTokens
  <2>3. UNCHANGED <<newest, loaded, cache, misled>>
    BY <1>1 DEF BothTokens, appGhosts
  <2> QED BY <2>1, <2>2, <2>3, KeysStay DEF KeysInv, Verifying
<1>2. ASSUME NEW r \in Requests, Resolve(r) PROVE KeysInv'
  <2>1. UNCHANGED <<newest, loaded, cache, misled>>
    BY <1>2 DEF Resolve, appGhosts
  <2>2. PICK pair \in Pairs :
          \/ cache[pair] # Missing /\ request' = [request EXCEPT ![r] = Verifying(pair, cache[pair], TRUE)]
          \/ request' = [request EXCEPT ![r] = [pc |-> "waiting", pair |-> pair]]
    BY <1>2 DEF Resolve, CacheKey
  <2> QED BY <2>1, <2>2, KeysStay DEF KeysInv, Verifying
<1>3. ASSUME NEW pair \in Pairs, MintAnswers(pair) PROVE KeysInv'
  <2>1. PICK p \in Processes : \E token :
          /\ token.key = loaded[p] /\ cache' = [cache EXCEPT ![pair] = token]
          /\ request' = [r \in Requests |-> IF r \in Waiting(pair)
                           THEN Verifying(request[r].pair, token, TRUE) ELSE request[r]]
    BY <1>3 DEF MintAnswers, signing_key
  <2>2. Published(loaded[p])
    <3>1. newest \in Nat \ {0} /\ loaded[p] \in {newest, newest - 1} \ {0} /\ loaded[p] <= loaded[p]
      BY DEF KeysInv, KeysOK
    <3> QED BY <2>1, <3>1 DEF Published
  <2>3. UNCHANGED <<newest, loaded, misled>>
    BY <1>3 DEF MintAnswers
  <2> QED BY <2>1, <2>2, <2>3, KeysStay DEF KeysInv, Verifying
<1>4. ASSUME NEW pair \in Pairs, MintFails(pair) \/ CacheExpires(pair) PROVE KeysInv'
  <2>1. UNCHANGED <<newest, loaded, misled>>
    BY <1>4 DEF MintFails, CacheExpires, appGhosts
  <2>2. /\ DOMAIN cache' = Pairs
        /\ \A x \in Pairs : cache'[x] = cache[x] \/ cache'[x] = Missing
        /\ DOMAIN request' = Requests
        /\ \A r \in Requests : request'[r] = request[r] \/ request'[r] = Idle
    BY <1>4 DEF MintFails, CacheExpires, KeysInv
  <2> QED BY <2>1, <2>2, KeysStay DEF KeysInv, Idle
<1> QED BY <1>1, <1>2, <1>3, <1>4

(* The verifications: what they refuse, they refuse for a reason. *)
LEMMA OneTokenKeys ==
  ASSUME KeysInv, JWTAuthMiddleware \/ createAccessVerifier \/ verify_m2m_token \/ verifyM2mToken
  PROVE  KeysInv'
<1>1. UNCHANGED <<newest, loaded, cache, request>>
  BY DEF JWTAuthMiddleware, createAccessVerifier, verify_m2m_token, verifyM2mToken, OneToken
<1>3. CASE JWTAuthMiddleware
  <2>1. PICK key \in LiveKeys : \/ _decode_authz(key) /\ OneToken(key \in known', TRUE)
                                \/ OneToken(key = pinned, key = pinned)
    BY <1>3 DEF JWTAuthMiddleware
  <2>2. ~CoolingDown(key)
    BY <1>3 DEF JWTAuthMiddleware, CoolingDown
  <2>3. CASE OneToken(key = pinned, key = pinned)
    <3>1. misled' <=> misled \/ (Settled /\ key = pinned /\ ~(key = pinned))
      BY <2>3 DEF OneToken
    <3> QED BY <1>1, <3>1, KeysStay DEF KeysInv
  <2>4. CASE _decode_authz(key) /\ OneToken(key \in known', TRUE)
    <3>1. misled' <=> misled \/ (Settled /\ ~(key \in known'))
      BY <2>4 DEF OneToken
    <3>2. Settled => key \in known'
      BY <2>2, <2>4, KeyFound, LiveKeysPublished
    <3> QED BY <1>1, <3>1, <3>2, KeysStay DEF KeysInv
  <2> QED BY <2>1, <2>3, <2>4
<1>4. CASE createAccessVerifier
  <2>1. PICK key \in LiveKeys : _decode_authz(key) /\ OneToken(key \in known', ~CoolingDown(key))
    BY <1>4 DEF createAccessVerifier
  <2>2. Settled /\ ~CoolingDown(key) => key \in known'
    BY <2>1, KeyFound, LiveKeysPublished
  <2>3. misled' <=> misled \/ (Settled /\ ~CoolingDown(key) /\ ~(key \in known'))
    BY <2>1 DEF OneToken
  <2> QED BY <1>1, <2>2, <2>3, KeysStay DEF KeysInv
<1>5. CASE verify_m2m_token
  <2>1. PICK token \in mint_m2m_token :
          OneToken(token.key = pinned /\ token.svc \in effective_scope,
                   token.key = pinned /\ token.svc = realm /\ scope = realm)
    BY <1>5 DEF verify_m2m_token
  <2>2. misled' <=> misled \/ (Settled /\ (token.key = pinned /\ token.svc = realm /\ scope = realm)
                             /\ ~(token.key = pinned /\ token.svc \in effective_scope))
    BY <2>1 DEF OneToken
  <2>3. misled' <=> misled
    BY <2>2 DEF effective_scope
  <2> QED BY <1>1, <2>3, KeysStay DEF KeysInv
<1>6. CASE verifyM2mToken
  <2>1. PICK token \in mint_m2m_token :
          /\ _decode_authz(token.key)
          /\ OneToken(token.key \in known' /\ token.svc = scope,
                      token.svc = realm /\ scope = realm /\ ~CoolingDown(token.key))
    BY <1>6 DEF verifyM2mToken
  <2>2. Settled /\ (token.svc = realm /\ scope = realm /\ ~CoolingDown(token.key))
          => token.key \in known' /\ token.svc = scope
    BY <2>1, KeyFound, LiveKeysPublished DEF mint_m2m_token
  <2>3. misled' <=> misled \/ (Settled /\ (token.svc = realm /\ scope = realm /\ ~CoolingDown(token.key))
                             /\ ~(token.key \in known' /\ token.svc = scope))
    BY <2>1 DEF OneToken
  <2> QED BY <1>1, <2>2, <2>3, KeysStay DEF KeysInv
<1> QED BY <1>3, <1>4, <1>5, <1>6

LEMMA VerifyKeys == ASSUME KeysInv, NEW r \in Requests, Verify(r) PROVE KeysInv'
<1> DEFINE token == request[r].token
           pair == request[r].pair
           bound == token.pair[1] = pair[1] /\ token.svc \in ScopesTaken
<1>1. /\ UNCHANGED <<newest, loaded>> /\ request[r].pc = "verifying" /\ _decode_authz(token.key)
      /\ request' = [request EXCEPT ![r] = IF token.key \in known' /\ bound
                       THEN [pc |-> "served", pair |-> pair] ELSE Idle]
  BY DEF Verify
<1>2. Published(token.key)
  BY <1>1 DEF KeysInv, KeyInUse
<1>3. Blameless(pair, token) => token.key \in known' /\ bound
  BY <1>1, <1>2, KeyFound DEF Blameless, ScopesTaken, effective_scope, allowedSvc
<1>4. Blameless(pair, token) => request'[r] # Idle
  BY <1>1, <1>3 DEF KeysInv, Idle
<1>5. ~misled'
  <2>1. misled' <=> misled \/ (Blameless(pair, token) /\ request'[r] = Idle)
    BY DEF Verify
  <2> QED BY <1>4, <2>1 DEF KeysInv
<1>6. /\ DOMAIN cache' = Pairs
      /\ \A x \in Pairs : cache'[x] = cache[x] \/ cache'[x] = Missing
  BY DEF Verify, Dropped, CacheKey, KeysInv
<1>7. DOMAIN request' = Requests /\ \A x \in Requests : request'[x] = request[x] \/ request'[x].pc # "verifying"
  BY <1>1 DEF KeysInv, Idle
<1> QED BY <1>1, <1>5, <1>6, <1>7, KeysStay

LEMMA KeysInitOK == AppInit => KeysInv
BY DEF AppInit, KeysInv, KeysOK, KeyInUse, Idle

LEMMA KeysNextOK == KeysInv /\ [AppNext]_<<appVars, appGhosts>> => KeysInv'
<1> SUFFICES ASSUME KeysInv, [AppNext]_<<appVars, appGhosts>> PROVE KeysInv'
  OBVIOUS
<1>1. CASE RotateKey \/ lifespan \/ \E p \in Processes : reset_cache(p)
  BY <1>1, RotateKeyOK, lifespanKeys, reset_cacheOK
<1>2. CASE \/ MoveRealm \/ register_resource \/ share \/ unshare \/ Apply \/ WriteRefused
           \/ WriteEnds \/ AnswerLost
           \/ \E q \in Questions : AnswerExpires(q)
  BY <1>2, QuestionsLeaveKeys
<1>3. CASE JWTAuthMiddleware \/ createAccessVerifier \/ verify_m2m_token \/ verifyM2mToken
  BY <1>3, OneTokenKeys
<1>4. ASSUME NEW pair \in Pairs, \/ _mint(pair) \/ mint(pair) \/ CacheExpires(pair)
                                 \/ _mint_error(pair) \/ resolveErrorResponse(pair)
      PROVE  KeysInv'
  BY <1>4, TokensGetKeys DEF _mint, mint, _mint_error, resolveErrorResponse
<1>5. ASSUME NEW r \in Requests,
             \/ BothTokens(r) \/ _auto_resolve(r) \/ resolveOnce(r) \/ dispatch(r) \/ middleware(r)
      PROVE  KeysInv'
  BY <1>5, TokensGetKeys, VerifyKeys DEF _auto_resolve, resolveOnce, dispatch, middleware
<1>6. ASSUME NEW r \in Requests,
             \/ can(r) \/ accessible(r) \/ check(r) \/ CacheAnswer(r) \/ Finish(r) \/ Disconnect(r)
      PROVE  KeysInv'
  BY <1>6, QuestionsLeaveKeys
<1>7. CASE UNCHANGED <<appVars, appGhosts>>
  BY <1>7, SameKeys DEF appVars, appGhosts, keyVars
<1> QED BY <1>1, <1>2, <1>3, <1>4, <1>5, <1>6, <1>7 DEF AppNext

(* However often keys rotate and apps restart, while Duar's processes agree a
   valid token of the caller and the scope is verified, by a fetched JWKS or by
   a pinned key; and what was refused is not served again.  (dispatch,
   verification_keys, OverlapIsOver) *)
THEOREM RefusalsHaveReasons == AppSpec => []RefusalsAreRight
<1>1. MintInv /\ KeysInv => RefusalsAreRight
  BY DEF MintInv, CacheOK, KeysInv, RefusalsAreRight, RefusedStaysOut, NobodyMisled
<1> QED BY <1>1, AppInitOK, AppNextOK, KeysInitOK, KeysNextOK, PTL DEF AppSpec

-----------------------------------------------------------------------------
(* APPBACKEND: a cached answer is from after the app's own last write. *)

answerVars == <<request, shares, answers, writing>>

(* A question that is under way while a write is sent is late, and the answer
   to one that is not late is of the version Duar has. *)
Questioned(r) ==
  /\ request[r].pc \in {"asking", "told"} /\ Writing => request[r].late
  /\ request[r].pc = "told" /\ ~request[r].late => request[r].version = shares
Seen(q) == answers[q].version # 0 /\ ~answers[q].late /\ writing # "applied"
             => answers[q].version = shares
AnswersInv ==
  /\ DOMAIN request = Requests /\ DOMAIN answers = Questions
  /\ \A r \in Requests : Questioned(r)
  /\ \A q \in Questions : Seen(q)

LEMMA SameAnswers == AnswersInv /\ UNCHANGED answerVars => AnswersInv'
BY DEF AnswersInv, answerVars, Questioned, Seen, Writing

(* Requests that ask nothing afterwards. *)
LEMMA NoQuestions ==
  ASSUME AnswersInv, DOMAIN request' = Requests, UNCHANGED <<shares, answers, writing>>,
         \A r \in Requests : request'[r] = request[r] \/ request'[r].pc \notin {"asking", "told"}
  PROVE  AnswersInv'
<1>1. \A r \in Requests : Questioned(r)'
  BY DEF AnswersInv, Questioned, Writing
<1> QED BY <1>1 DEF AnswersInv, Seen

LEMMA TokensAskNothing ==
  ASSUME AnswersInv,
         \/ RotateKey \/ MoveRealm \/ JWTAuthMiddleware \/ createAccessVerifier
         \/ verify_m2m_token \/ verifyM2mToken
         \/ \E p \in Processes : reset_cache(p)
         \/ \E pair \in Pairs : MintAnswers(pair) \/ MintFails(pair) \/ CacheExpires(pair)
         \/ \E r \in Requests : BothTokens(r) \/ Resolve(r) \/ Verify(r) \/ Disconnect(r) \/ Finish(r)
  PROVE  AnswersInv'
<1>1. CASE \/ RotateKey \/ MoveRealm \/ \E p \in Processes : reset_cache(p)
           \/ \E pair \in Pairs : CacheExpires(pair)
  BY <1>1, SameAnswers DEF RotateKey, MoveRealm, reset_cache, CacheExpires, answerVars
<1>2. CASE JWTAuthMiddleware \/ createAccessVerifier \/ verify_m2m_token \/ verifyM2mToken
  BY <1>2, SameAnswers DEF JWTAuthMiddleware, createAccessVerifier, verify_m2m_token,
                           verifyM2mToken, OneToken, answerVars
<1>3. ASSUME NEW pair \in Pairs, MintAnswers(pair) \/ MintFails(pair) PROVE AnswersInv'
  <2>1. /\ DOMAIN request' = Requests /\ UNCHANGED <<shares, answers, writing>>
        /\ \A r \in Requests :
             request'[r] = request[r] \/ request'[r].pc \notin {"asking", "told"}
    <3>1. CASE MintAnswers(pair)
      BY <1>3, <3>1 DEF MintAnswers, Verifying, Idle
    <3>2. CASE MintFails(pair)
      BY <1>3, <3>2 DEF MintFails, Idle
    <3> QED BY <1>3, <3>1, <3>2
  <2> QED BY <2>1, NoQuestions
<1>4. ASSUME NEW r \in Requests,
             BothTokens(r) \/ Resolve(r) \/ Verify(r) \/ Disconnect(r) \/ Finish(r)
      PROVE  AnswersInv'
  <2>1. UNCHANGED <<shares, answers, writing>>
    BY <1>4 DEF BothTokens, Resolve, Verify, Disconnect, Finish
  <2>2. PICK next : request' = [request EXCEPT ![r] = next] /\ next.pc \notin {"asking", "told"}
    BY <1>4 DEF BothTokens, Resolve, Verify, Disconnect, Finish, Verifying, Idle
  <2> QED BY <2>1, <2>2, NoQuestions DEF AnswersInv
<1> QED BY <1>1, <1>2, <1>3, <1>4

LEMMA lifespanForgets == ASSUME AnswersInv, lifespan PROVE AnswersInv'
<1>1. /\ request' = [r \in Requests |-> Idle] /\ answers' = [q \in Questions |-> Unasked]
  BY DEF lifespan, Started
<1> QED BY <1>1 DEF AnswersInv, Questioned, Seen, Idle, Unasked

(* A write marks the questions under way, and its answer forgets the answers. *)
LEMMA WritesMark ==
  ASSUME AnswersInv,
         \/ register_resource \/ share \/ unshare \/ Apply \/ WriteRefused
         \/ WriteEnds \/ AnswerLost
  PROVE  AnswersInv'
<1>1. CASE register_resource \/ unshare
  <2>1. /\ request' = Overlap /\ UNCHANGED <<shares, answers>>
        /\ writing' = "sent" /\ writing \in {"no", "looking"}
    BY <1>1 DEF register_resource, unshare, WriteGoes
  <2>2. DOMAIN request' = Requests
    BY <2>1 DEF Overlap
  <2>3. ASSUME NEW r \in Requests PROVE Questioned(r)'
    <3>1. CASE request[r].pc \in {"asking", "told"}
      <4>1. request'[r] = [request[r] EXCEPT !.late = TRUE]
        BY <2>1, <3>1 DEF Overlap
      <4> QED BY <4>1, <2>1 DEF Questioned
    <3>2. CASE request[r].pc \notin {"asking", "told"}
      BY <2>1, <3>2 DEF Overlap, Questioned
    <3> QED BY <3>1, <3>2
  <2> QED BY <2>1, <2>2, <2>3 DEF AnswersInv, Seen
<1>2. CASE share \/ WriteRefused
  BY <1>2 DEF share, WriteRefused, WriteGoes, AnswersInv, Questioned, Seen, Writing
<1>3. CASE Apply
  BY <1>3 DEF Apply, WriteGoes, AnswersInv, Questioned, Seen, Writing
<1>4. CASE WriteEnds \/ AnswerLost
  <2>1. UNCHANGED <<request, shares>> /\ writing = "applied" /\ writing' = "no"
    BY <1>4 DEF WriteEnds, AnswerLost, Answered
  <2>2. \A r \in Requests : Questioned(r)'
    BY <2>1 DEF AnswersInv, Questioned, Writing
  <2>3. DOMAIN answers' = Questions
    BY <1>4 DEF WriteEnds, AnswerLost, Answered, _invalidate_cache
  <2>4. ASSUME NEW q \in Questions PROVE answers'[q].version = 0 \/ answers'[q].late
    <3>1. CASE WriteEnds
      BY <3>1 DEF WriteEnds, Answered, _invalidate_cache, Unasked
    <3>2. CASE AnswerLost
      <4> DEFINE cached == answers[q] # Unasked
      <4>1. answers'[q] = [answers[q] EXCEPT !.late = cached]
        BY <3>2 DEF AnswerLost, Answered
      <4>2. CASE cached
        <5>1. cached = TRUE
          BY <4>2
        <5> HIDE DEF cached
        <5> QED BY <4>1, <5>1
      <4>3. CASE ~cached
        <5>1. answers[q].version = 0
          BY <4>3 DEF Unasked
        <5> HIDE DEF cached
        <5> QED BY <4>1, <5>1
      <4> QED BY <4>2, <4>3
    <3> QED BY <1>4, <3>1, <3>2
  <2> QED BY <2>1, <2>2, <2>3, <2>4 DEF AnswersInv, Seen
<1> QED BY <1>1, <1>2, <1>3, <1>4

LEMMA QuestionsOK ==
  ASSUME AnswersInv, NEW r \in Requests, can(r) \/ accessible(r) \/ check(r) \/ CacheAnswer(r)
  PROVE  AnswersInv'
<1>1. ASSUME NEW ask, Ask(r, ask) PROVE AnswersInv'
  <2>1. UNCHANGED <<shares, answers, writing>> /\ DOMAIN request' = Requests
    BY <1>1 DEF Ask, AnswersInv
  <2>2. \A x \in Requests : x # r => request'[x] = request[x]
    BY <1>1 DEF Ask, AnswersInv
  <2>3. request'[r].pc # "told" /\ (request'[r].pc = "asking" /\ Writing => request'[r].late)
    <3>1. \/ request'[r] = Idle
          \/ request'[r] = [pc |-> "asking", pair |-> request[r].pair, ask |-> ask, late |-> Writing]
      BY <1>1 DEF Ask, AnswersInv
    <3>2. Writing \in BOOLEAN
      BY DEF Writing
    <3> QED BY <3>1, <3>2 DEF Idle
  <2>4. \A x \in Requests : Questioned(x)'
    BY <2>1, <2>2, <2>3 DEF AnswersInv, Questioned, Writing
  <2> QED BY <2>1, <2>4 DEF AnswersInv, Seen
<1>2. CASE check(r)
  <2>1. UNCHANGED <<shares, answers, writing>> /\ DOMAIN request' = Requests
    BY <1>2 DEF check, AnswersInv
  <2>2. \A x \in Requests : x # r => request'[x] = request[x]
    BY <1>2 DEF check, AnswersInv
  <2>3. /\ request[r].pc = "asking" /\ request'[r].version = shares
        /\ request'[r].late = request[r].late
    BY <1>2 DEF check, AnswersInv
  <2>4. \A x \in Requests : Questioned(x)'
    BY <2>1, <2>2, <2>3 DEF AnswersInv, Questioned, Writing
  <2> QED BY <2>1, <2>4 DEF AnswersInv, Seen
<1>3. CASE CacheAnswer(r)
  <2>1. /\ UNCHANGED <<shares, writing>> /\ request' = [request EXCEPT ![r] = Idle]
        /\ request[r].pc = "told"
        /\ answers' = [answers EXCEPT ![Question(r)] =
                         [version |-> request[r].version, late |-> request[r].late]]
    BY <1>3 DEF CacheAnswer
  <2>2. DOMAIN answers' = Questions /\ DOMAIN request' = Requests
    BY <2>1 DEF AnswersInv
  <2>3. \A x \in Requests : Questioned(x)'
    BY <2>1 DEF AnswersInv, Questioned, Writing, Idle
  <2>4. ASSUME NEW q \in Questions PROVE Seen(q)'
    <3>1. CASE answers'[q] = answers[q]
      BY <2>1, <3>1 DEF AnswersInv, Seen
    <3>2. CASE answers'[q].version = request[r].version /\ answers'[q].late = request[r].late
      BY <2>1, <3>2 DEF AnswersInv, Seen, Questioned
    <3> QED BY <2>1, <3>1, <3>2 DEF AnswersInv
  <2> QED BY <2>2, <2>3, <2>4 DEF AnswersInv
<1> QED BY <1>1, <1>2, <1>3 DEF can, accessible

LEMMA AnswerExpiresOK == ASSUME AnswersInv, NEW q \in Questions, AnswerExpires(q) PROVE AnswersInv'
<1>1. UNCHANGED <<request, shares, writing>> /\ answers' = [answers EXCEPT ![q] = Unasked]
  BY DEF AnswerExpires
<1> QED BY <1>1 DEF AnswersInv, Questioned, Seen, Writing, Unasked

LEMMA AnswersInitOK == AppInit => AnswersInv
BY DEF AppInit, AnswersInv, Questioned, Seen, Idle, Unasked

LEMMA AnswersNextOK == AnswersInv /\ [AppNext]_<<appVars, appGhosts>> => AnswersInv'
<1> SUFFICES ASSUME AnswersInv, [AppNext]_<<appVars, appGhosts>> PROVE AnswersInv'
  OBVIOUS
<1>1. CASE \/ RotateKey \/ MoveRealm \/ JWTAuthMiddleware \/ createAccessVerifier
           \/ verify_m2m_token \/ verifyM2mToken
           \/ \E p \in Processes : reset_cache(p)
  BY <1>1, TokensAskNothing
<1>2. CASE \/ register_resource \/ share \/ unshare \/ Apply \/ WriteRefused
           \/ WriteEnds \/ AnswerLost
  BY <1>2, WritesMark
<1>3. CASE lifespan
  BY <1>3, lifespanForgets
<1>4. ASSUME NEW pair \in Pairs, \/ _mint(pair) \/ mint(pair) \/ CacheExpires(pair)
                                 \/ _mint_error(pair) \/ resolveErrorResponse(pair)
      PROVE  AnswersInv'
  BY <1>4, TokensAskNothing DEF _mint, mint, _mint_error, resolveErrorResponse
<1>5. ASSUME NEW r \in Requests,
             \/ BothTokens(r) \/ _auto_resolve(r) \/ resolveOnce(r) \/ dispatch(r) \/ middleware(r)
             \/ Finish(r) \/ Disconnect(r)
      PROVE  AnswersInv'
  BY <1>5, TokensAskNothing DEF _auto_resolve, resolveOnce, dispatch, middleware
<1>6. ASSUME NEW r \in Requests, can(r) \/ accessible(r) \/ check(r) \/ CacheAnswer(r)
      PROVE  AnswersInv'
  BY <1>6, QuestionsOK
<1>7. CASE \E q \in Questions : AnswerExpires(q)
  BY <1>7, AnswerExpiresOK
<1>8. CASE UNCHANGED <<appVars, appGhosts>>
  BY <1>8, SameAnswers DEF appVars, appGhosts, answerVars
<1> QED BY <1>1, <1>2, <1>3, <1>4, <1>5, <1>6, <1>7, <1>8 DEF AppNext

(* A cached permission answer is never from before the app's own last write,
   whatever questions were under way, unless they overlapped the write or its
   answer was lost.  (_invalidate_cache, can, accessible) *)
THEOREM OwnWritesSeen == AppSpec => []OwnWritesAreSeen
<1>1. AnswersInv => OwnWritesAreSeen
  BY DEF AnswersInv, Seen, OwnWritesAreSeen
<1> QED BY <1>1, AnswersInitOK, AnswersNextOK, PTL DEF AppSpec

-----------------------------------------------------------------------------
(* THE INSTANCE: its three parts together. *)

(* The instance is one of the three parts, and the others stand still. *)
LEMMA Parts == Spec => TabsSpec /\ AuthzSpec /\ AppSpec
<1>1. Init => TabsInit /\ AuthzInit /\ AppInit
  BY DEF Init
<1>2. [Next]_all => /\ [TabsNext]_<<tabVars, tabGhosts>> /\ [AuthzNext]_<<authzVars, authzGhosts>>
                    /\ [AppNext]_<<appVars, appGhosts>>
  BY DEF Next, all
<1> QED BY <1>1, <1>2, PTL DEF Spec, TabsSpec, AuthzSpec, AppSpec

(* Both modes at once, of the instance that is checked.  (SignedOut) *)
THEOREM EveryTabSignsOut == Spec => []SignedOut
<1>1. SignedOutEverywhere /\ SignedOutForGood => SignedOut
  BY DEF SignedOut
<1> QED BY <1>1, Parts, TabsSignOut, AuthzTabsSignOut, PTL

-----------------------------------------------------------------------------
(* TYPES: every variable keeps to its own. *)

(* A token has been rotated into being, the lock is held by a tab with a
   request, and one store for all is one value. *)
TabsTyped ==
  /\ kind \in Stores /\ told \subseteq Tabs
  /\ page \in [Tabs -> {"app", "provider", "callback", "closed"}]
  /\ \A t \in Tabs : \A k \in Held(t) : k.number > 0
  /\ \A t \in Tabs : sending[t].pc = "idle" => sending[t].token = None
  /\ lock # None => lock \in Tabs /\ sending[lock].pc \in Busy
  /\ \A t \in told : Listening(t)
  /\ kind = "local" => \A t, x \in Tabs : store[t] = store[x]

LEMMA RefreshingTyped ==
  ASSUME IInv, TabsTyped, NEW t \in Tabs,
         refresh(t) \/ _refreshLocked(t) \/ Answer(t) \/ Lose(t) \/ RefreshEnds(t)
  PROVE  TabsTyped'
<1>0. /\ UNCHANGED <<kind, page, told>> /\ \A x \in Tabs : Listening(x)' <=> Listening(x)
      /\ sending[t] \in [pc : {"idle", "waiting"} \cup Busy, token : Tokens \cup {None}]
      /\ \A x \in Tabs : x # t => sending'[x] = sending[x]
  BY DEF refresh, _refreshLocked, _doRefresh, Answer, Lose, RefreshEnds, Listening, tabGhosts, IInv, Typed
<1>1. CASE \/ refresh(t) \/ _refreshLocked(t) \/ Answer(t) \/ Lose(t)
  <2>1. store' = store
    BY <1>1 DEF refresh, _refreshLocked, Answer, Lose
  <2>2. \/ sending'[t] = Rest /\ lock' = lock /\ sending[t].pc = "waiting"
        \/ sending'[t] = [pc |-> "waiting", token |-> store[t]] /\ lock' = lock
             /\ sending[t].pc = "idle" /\ store[t] # None
        \/ sending'[t].pc \in Busy /\ sending'[t].token = sending[t].token /\ lock' \in {lock, t}
             /\ sending[t].pc # "idle"
    BY <1>0, <1>1 DEF refresh, _refreshLocked, _doRefresh, Answer, Lose, Unanswered, Rest, Busy, IInv, Typed
  <2>3. \A x \in Tabs : Held(x)' \subseteq Held(x)
    BY <1>0, <2>1, <2>2 DEF Held, Rest
  <2>4. \A x \in Tabs : sending'[x].pc = "idle" => sending'[x].token = None
    BY <1>0, <2>2 DEF TabsTyped, Rest, Busy
  <2>5. lock' # None => lock' \in Tabs /\ sending'[lock'].pc \in Busy
    BY <1>0, <2>2 DEF TabsTyped, Busy
  <2> QED BY <1>0, <2>1, <2>3, <2>4, <2>5 DEF TabsTyped
<1>2. CASE RefreshEnds(t)
  <2> DEFINE token == sending[t].token
             next == [token EXCEPT !.number = @ + 1]
  <2>1. /\ sending'[t] = Rest /\ sending[t].pc # "idle" /\ token \in Tokens
        /\ lock' = IF lock = t THEN None ELSE lock
    BY <1>2 DEF RefreshEnds, IInv, Typed, Held
  <2>2. next.number > 0
    BY <2>1 DEF Tokens
  <2>3. \A x \in Tabs : store'[x] \in {store[x], next, None}
    BY <1>2 DEF RefreshEnds, Put, IInv, Typed
  <2>4. kind = "local" => \A x, y \in Tabs : store'[x] = store'[y]
    BY <1>2 DEF RefreshEnds, Put, TabsTyped, IInv, Typed
  <2>5. \A x \in Tabs : \A k \in Held(x)' : k \in Held(x) \/ k = next
    BY <1>0, <2>1, <2>3 DEF Held, Rest
  <2>6. \A x \in Tabs : \A k \in Held(x)' : k.number > 0
    BY <2>2, <2>5 DEF TabsTyped
  <2>7. \A x \in Tabs : sending'[x].pc = "idle" => sending'[x].token = None
    BY <1>0, <2>1 DEF TabsTyped, Rest
  <2>8. lock' # None => lock' \in Tabs /\ sending'[lock'].pc \in Busy
    BY <1>0, <2>1 DEF TabsTyped
  <2> QED BY <1>0, <2>4, <2>6, <2>7, <2>8 DEF TabsTyped
<1> QED BY <1>1, <1>2

LEMMA SigningTyped ==
  ASSUME IInv, TabsTyped, NEW t \in Tabs,
         \/ login(t) \/ verifyCallbackState(t) \/ Reload(t)
         \/ selectWorkspace(t) \/ logout(t) \/ onBroadcast(t) \/ destroy(t)
  PROVE  TabsTyped'
<1>1. ASSUME NEW next \in {"app", "provider", "callback"}, Unload(t, next) PROVE TabsTyped'
  <2>1. /\ kind' = kind /\ page' = [page EXCEPT ![t] = next] /\ told' = told \ {t}
        /\ sending'[t] = Rest /\ \A x \in Tabs : x # t => sending'[x] = sending[x]
        /\ lock' = IF lock = t THEN None ELSE lock
        /\ \A x \in Tabs : store'[x] \in {store[x], None}
        /\ kind = "local" => store' = store
    BY <1>1 DEF Unload, IInv, Typed
  <2>2. \A x \in Tabs : Held(x)' \subseteq Held(x)
    BY <2>1 DEF Held, Rest
  <2>3. \A x \in told' : Listening(x)'
    BY <2>1 DEF TabsTyped, Listening
  <2>4. \A x \in Tabs : sending'[x].pc = "idle" => sending'[x].token = None
    BY <2>1 DEF TabsTyped, Rest
  <2>5. lock' # None => lock' \in Tabs /\ sending'[lock'].pc \in Busy
    BY <2>1 DEF TabsTyped
  <2> QED BY <2>1, <2>2, <2>3, <2>4, <2>5 DEF TabsTyped
<1>2. CASE selectWorkspace(t)
  <2> DEFINE token == [family |-> Newest + 1, number |-> 1]
  <2>1. /\ UNCHANGED <<kind, sending, lock, told>> /\ page' = [page EXCEPT ![t] = "app"]
        /\ store' = [x \in Tabs |-> IF x = t \/ kind = "local" THEN token ELSE store[x]]
    BY <1>2 DEF selectWorkspace, Put
  <2>2. \A x \in Tabs : \A k \in Held(x)' : k \in Held(x) \/ k = token
    BY <2>1 DEF Held
  <2>3. \A x \in told' : Listening(x)'
    BY <2>1 DEF TabsTyped, Listening
  <2> QED BY <2>1, <2>2, <2>3 DEF TabsTyped
<1>3. CASE logout(t) \/ onBroadcast(t)
  <2>1. /\ UNCHANGED <<kind, sending, lock, page>>
        /\ told' = Siblings(t) \/ told' = told \ {t}
        /\ store' = [x \in Tabs |-> IF x = t \/ kind = "local" THEN None ELSE store[x]]
    BY <1>3 DEF logout, onBroadcast, Put
  <2>2. \A x \in Tabs : Held(x)' \subseteq Held(x)
    BY <2>1 DEF Held
  <2>3. told' \subseteq Tabs /\ \A x \in told' : Listening(x)'
    BY <2>1 DEF TabsTyped, Listening, Siblings
  <2> QED BY <2>1, <2>2, <2>3 DEF TabsTyped
<1>4. CASE destroy(t)
  <2>1. /\ UNCHANGED <<kind, sending, lock, store>> /\ page' = [page EXCEPT ![t] = "closed"]
        /\ told' = told \ {t}
    BY <1>4 DEF destroy
  <2>2. \A x \in told' : Listening(x)'
    BY <2>1 DEF TabsTyped, Listening
  <2> QED BY <2>1, <2>2 DEF TabsTyped, Held
<1> QED BY <1>1, <1>2, <1>3, <1>4 DEF login, verifyCallbackState, Reload

LEMMA TabsTypedInit == TabsInit => TabsTyped
BY DEF TabsInit, TabsTyped, Held, Rest

LEMMA TabsTypedNext == IInv /\ TabsTyped /\ [TabsNext]_<<tabVars, tabGhosts>> => TabsTyped'
<1> SUFFICES ASSUME IInv, TabsTyped, [TabsNext]_<<tabVars, tabGhosts>> PROVE TabsTyped'
  OBVIOUS
<1>1. CASE (\E token \in orphans : AnswerOrphan(token)) \/ UNCHANGED <<tabVars, tabGhosts>>
  BY <1>1 DEF AnswerOrphan, tabVars, tabGhosts, TabsTyped, Held, Listening
<1>2. CASE \E t \in Tabs :
             refresh(t) \/ _refreshLocked(t) \/ Answer(t) \/ Lose(t) \/ RefreshEnds(t)
  BY <1>2, RefreshingTyped
<1>3. CASE \E t \in Tabs :
             \/ login(t) \/ verifyCallbackState(t) \/ Reload(t)
             \/ selectWorkspace(t) \/ logout(t) \/ onBroadcast(t) \/ destroy(t)
  BY <1>3, SigningTyped
<1> QED BY <1>1, <1>2, <1>3 DEF TabsNext

LEMMA TabsAreTyped == IInv /\ TabsTyped => TypeOK
<1> SUFFICES ASSUME IInv, TabsTyped PROVE TypeOK
  OBVIOUS
<1>1. ASSUME NEW t \in Tabs
      PROVE  /\ page[t] \in {"app", "provider", "callback", "closed"}
             /\ store[t] = None \/ (store[t].family \in Families /\ store[t].number > 0)
             /\ sending[t].pc \in {"idle", "waiting", "sent", "rotated", "refused", "failed"}
             /\ sending[t].token = None <=> sending[t].pc = "idle"
  BY DEF IInv, Typed, TabsTyped, Held, Busy
<1>2. ASSUME kind = "local" PROVE Cardinality({store[t] : t \in Tabs}) = 1
  <2>1. PICK x \in Tabs : TRUE
    BY TabSessionsAssumption
  <2>2. {store[t] : t \in Tabs} = {store[x]}
    BY <1>2 DEF TabsTyped
  <2> QED BY <2>2, FS_Singleton
<1> QED BY <1>1, <1>2 DEF TypeOK, TabsTyped, Busy

-----------------------------------------------------------------------------

(* An answer brought back is an error's or a person's token; an exchange is
   for a person, from the app or the picker. *)
AuthzTyped ==
  /\ redirects \in 0..MaxRedirects
  /\ authz # Nothing => authz.workspace \in MemberOf[authz.user]
  /\ \A t \in ATabs :
       /\ identity[t] \in People \cup {Nothing}
       /\ brought[t] \in Answers \cup {Unread}
       /\ screen[t] \in {"callback", "picker"} <=> brought[t].state # "none"
       /\ screen[t] = "picker" => brought[t].state # "error"
       /\ screen[t] = "idp" => asked[t]
       /\ minting[t].user # Nothing => minting[t].user \in People /\ screen[t] \in {"app", "picker"}

(* A page that loads, to the app, to the picker or back to the provider. *)
LEMMA LoadsTyped ==
  ASSUME Kept, AuthzTyped, NEW t \in ATabs, NEW token \in {authz, Nothing}, NEW nonce, NEW marker,
         NEW next \in {"app", "picker"}, NEW count, NEW answer \in Answers \cup {Unread},
         AuthzProvider(t, token, nonce, marker, next, count),
         next = "picker" => answer.state \notin {"none", "error"},
         brought' = [brought EXCEPT ![t] = IF screen'[t] = "picker" THEN answer ELSE Unread]
  PROVE  AuthzTyped'
<1>1. /\ authz' = token /\ identity' = [identity EXCEPT ![t] = Nothing]
      /\ minting' = [minting EXCEPT ![t] = NoMint]
      /\ \/ /\ screen' = [screen EXCEPT ![t] = "idp"] /\ asked' = [asked EXCEPT ![t] = TRUE]
            /\ redirects < MaxRedirects /\ redirects' = redirects + 1
         \/ /\ screen' = [screen EXCEPT ![t] = next] /\ asked' = [asked EXCEPT ![t] = nonce]
            /\ redirects' = redirects
  BY DEF AuthzProvider, Redirect, Load
<1>2. redirects' \in 0..MaxRedirects
  BY <1>1, AuthzTabsAssumption DEF AuthzTyped
<1>3. authz' # Nothing => authz'.workspace \in MemberOf[authz'.user]
  BY <1>1 DEF AuthzTyped
<1>4. brought'[t] \in Answers \cup {Unread} /\ Unread.state = "none"
  BY DEF Kept, Unread
<1>5. /\ identity'[t] = Nothing /\ minting'[t].user = Nothing
      /\ screen'[t] \in {"idp", next}
      /\ screen'[t] = "idp" => asked'[t]
      /\ brought'[t] = IF screen'[t] = "picker" THEN answer ELSE Unread
  BY <1>1 DEF Kept, NoMint
<1>6. \A x \in ATabs : x # t =>
        /\ identity'[x] = identity[x] /\ brought'[x] = brought[x] /\ screen'[x] = screen[x]
        /\ asked'[x] = asked[x] /\ minting'[x] = minting[x]
  BY <1>1 DEF Kept
<1> DEFINE TabOK(x) ==
      /\ identity[x] \in People \cup {Nothing}
      /\ brought[x] \in Answers \cup {Unread}
      /\ screen[x] \in {"callback", "picker"} <=> brought[x].state # "none"
      /\ screen[x] = "picker" => brought[x].state # "error"
      /\ screen[x] = "idp" => asked[x]
      /\ minting[x].user # Nothing => minting[x].user \in People /\ screen[x] \in {"app", "picker"}
<1>7. TabOK(t)'
  <2>1. CASE screen'[t] = "picker"
    BY <1>4, <1>5, <2>1
  <2>2. CASE screen'[t] # "picker"
    BY <1>4, <1>5, <2>2
  <2> QED BY <2>1, <2>2
<1>8. ASSUME NEW x \in ATabs, x # t PROVE TabOK(x)'
  BY <1>6, <1>8 DEF AuthzTyped
<1>9. \A x \in ATabs : TabOK(x)'
  BY <1>7, <1>8
<1> QED BY <1>2, <1>3, <1>9 DEF AuthzTyped

LEMMA RedirectsTyped ==
  ASSUME Kept, AuthzTyped, NEW t \in ATabs,
         \/ AuthzLogin(t) \/ AuthzReload(t) \/ IdpAnswers(t) \/ StrayAnswer(t)
         \/ handleCallback(t) \/ MarkerExpires(t)
  PROVE  AuthzTyped'
<1>1. CASE AuthzLogin(t)
  <2>1. /\ authz' = authz /\ identity' = [identity EXCEPT ![t] = Nothing]
        /\ minting' = [minting EXCEPT ![t] = NoMint] /\ brought' = brought
        /\ screen' = [screen EXCEPT ![t] = "idp"] /\ asked' = [asked EXCEPT ![t] = TRUE]
        /\ redirects < MaxRedirects /\ redirects' = redirects + 1 /\ screen[t] = "app"
    BY <1>1 DEF AuthzLogin, Redirect, Load
  <2>2. redirects' \in 0..MaxRedirects
    BY <2>1, AuthzTabsAssumption DEF AuthzTyped
  <2> QED BY <2>1, <2>2 DEF AuthzTyped, Kept, NoMint
<1>2. CASE AuthzReload(t)
  <2>1. /\ AuthzProvider(t, authz, asked[t], silent[t], "app", 0)
        /\ brought' = [brought EXCEPT ![t] = Unread] /\ Unread \in Answers \cup {Unread}
    BY <1>2 DEF AuthzReload
  <2>2. brought' = [brought EXCEPT ![t] = IF screen'[t] = "picker" THEN Unread ELSE Unread]
    BY <2>1
  <2> QED BY <2>1, <2>2, LoadsTyped
<1>3. CASE IdpAnswers(t)
  <2>1. PICK answer \in Answers : brought' = [brought EXCEPT ![t] = answer]
    BY <1>3 DEF IdpAnswers
  <2>2. /\ UNCHANGED <<authz, identity, asked, minting, redirects>>
        /\ screen' = [screen EXCEPT ![t] = "callback"] /\ screen[t] = "idp"
    BY <1>3 DEF IdpAnswers
  <2>3. answer.state # "none"
    BY DEF Answers
  <2> QED BY <2>1, <2>2, <2>3 DEF AuthzTyped, Kept
<1>4. CASE StrayAnswer(t)
  <2>1. PICK p \in People : brought' = [brought EXCEPT ![t] = [state |-> "token", owner |-> p]]
    BY <1>4 DEF StrayAnswer
  <2>2. /\ UNCHANGED <<authz, redirects>> /\ asked' = [asked EXCEPT ![t] = FALSE]
        /\ identity' = [identity EXCEPT ![t] = Nothing] /\ minting' = [minting EXCEPT ![t] = NoMint]
        /\ screen' = [screen EXCEPT ![t] = "callback"]
    BY <1>4 DEF StrayAnswer, Load
  <2>3. [state |-> "token", owner |-> p] \in Answers
    BY DEF Answers
  <2> QED BY <2>1, <2>2, <2>3 DEF AuthzTyped, Kept, NoMint
<1>5. CASE handleCallback(t)
  <2>1. screen[t] = "callback" /\ brought[t] \in Answers \cup {Unread} /\ brought[t].state # "none"
    BY <1>5 DEF handleCallback, AuthzTyped
  <2>2. PICK token \in {authz, Nothing}, next \in {"app", "picker"} : \E marker :
          /\ AuthzProvider(t, token, FALSE, marker, next, automatic[t])
          /\ next = "picker" => brought[t].state # "error"
    BY <1>5 DEF handleCallback
  <2>3. brought' = [brought EXCEPT ![t] = IF screen'[t] = "picker" THEN brought[t] ELSE Unread]
    BY <1>5 DEF handleCallback
  <2> QED BY <2>1, <2>2, <2>3, LoadsTyped
<1>6. CASE MarkerExpires(t)
  BY <1>6 DEF MarkerExpires, AuthzTyped
<1> QED BY <1>1, <1>2, <1>3, <1>4, <1>5, <1>6

LEMMA ExchangesTyped ==
  ASSUME Kept, AuthzTyped, NEW t \in ATabs,
         handleSelectWorkspace(t) \/ AuthzRefresh(t) \/ ExchangeEnds(t) \/ AuthzLogout(t)
  PROVE  AuthzTyped'
<1>1. ASSUME NEW u \in People, NEW w, Exchange(t, u, w), screen[t] \in {"app", "picker"} PROVE AuthzTyped'
  BY <1>1 DEF Exchange, AuthzTyped, Kept
<1>2. ASSUME clear(t), UNCHANGED <<screen, asked, brought, redirects>> PROVE AuthzTyped'
  BY <1>2 DEF clear, AuthzTyped, Kept, NoMint
<1>3. CASE handleSelectWorkspace(t)
  <2>1. screen[t] = "picker" /\ brought[t].owner \in People
    BY <1>3 DEF handleSelectWorkspace, AuthzTyped, Answers, Unread
  <2> QED BY <1>1, <1>3, <2>1 DEF handleSelectWorkspace
<1>4. CASE AuthzRefresh(t)
  <2>1. identity[t] # Nothing => identity[t] \in People
    BY DEF AuthzTyped
  <2> QED BY <1>1, <1>2, <1>4, <2>1 DEF AuthzRefresh
<1>5. CASE AuthzLogout(t)
  BY <1>2, <1>5 DEF AuthzLogout
<1>6. CASE ExchangeEnds(t)
  <2>1. /\ screen' = [screen EXCEPT ![t] = "app"] /\ brought' = [brought EXCEPT ![t] = Unread]
        /\ minting' = [minting EXCEPT ![t] = NoMint] /\ UNCHANGED <<asked, redirects>>
        /\ \/ identity' = identity \/ identity' = [identity EXCEPT ![t] = Nothing]
           \/ identity' = [identity EXCEPT ![t] = minting[t].user] /\ minting[t].user \in People
        /\ \/ authz' = authz \/ authz' = Nothing
           \/ authz' = minting[t] /\ minting[t].workspace \in MemberOf[minting[t].user]
    BY <1>6 DEF ExchangeEnds, clear, AuthzTyped
  <2> QED BY <2>1 DEF AuthzTyped, Kept, NoMint, Unread
<1> QED BY <1>3, <1>4, <1>5, <1>6

LEMMA AuthzTypedInit == AuthzInit => AuthzTyped
BY AuthzTabsAssumption DEF AuthzInit, AuthzTyped, Unread, NoMint

LEMMA AuthzTypedNext == AInv /\ AuthzTyped /\ [AuthzNext]_<<authzVars, authzGhosts>> => AuthzTyped'
<1> SUFFICES ASSUME Kept, AuthzTyped, [AuthzNext]_<<authzVars, authzGhosts>> PROVE AuthzTyped'
  BY DEF AInv
<1>1. CASE UNCHANGED <<authzVars, authzGhosts>>
  BY <1>1 DEF authzVars, authzGhosts, AuthzTyped
<1>2. CASE AuthzNext
  BY <1>2, RedirectsTyped, ExchangesTyped DEF AuthzNext
<1> QED BY <1>1, <1>2

LEMMA AuthzIsTyped == AInv /\ AuthzTyped => AuthzTypeOK
BY DEF AInv, Kept, AuthzTyped, AuthzTypeOK

-----------------------------------------------------------------------------

(* What a request carries, and what else the backend keeps. *)
RequestOK(q) ==
  /\ q.pc \in {"idle", "waiting", "verifying", "served", "asking", "told"}
  /\ q.pc = "verifying" => q.token # Missing /\ TokenOK(q.token)
  /\ q.pc \in {"asking", "told"} => app.cache_ttl
  /\ q.pc = "told" => q.version \in 0..shares
CachesOK ==
  /\ \A pair \in Pairs : cache[pair] = Missing \/ TokenOK(cache[pair])
  /\ \A r \in Requests : RequestOK(request[r])
  /\ DOMAIN answers = Questions /\ \A q \in Questions : answers[q].version \in 0..shares
SetupOK ==
  /\ app \in Apps /\ realm \in Nat \ {0} /\ newest + realm <= app.changes + 2
  /\ loaded \in [Processes -> Nat] /\ shares \in Nat \ {0}
  /\ known \subseteq 1..newest /\ pinned \in 1..newest /\ scope \in 0..realm
  /\ pending \subseteq Pairs /\ writing \in {"no", "looking", "sent", "applied"}
AppTyped == SetupOK /\ CachesOK

(* Keys, moves and versions only grow, so what was of its type stays so. *)
LEMMA Grows ==
  ASSUME KeysInv, KeysInv', SetupOK, UNCHANGED app,
         realm' \in Nat, realm <= realm', shares' \in Nat, shares <= shares', newest <= newest'
  PROVE  /\ \A k : TokenOK(k) => TokenOK(k)'
         /\ \A q : RequestOK(q) => RequestOK(q)'
         /\ \A v \in 0..shares : v \in 0..shares'
         /\ \A v \in 0..realm : v \in 0..realm'
         /\ \A v \in 1..newest : v \in 1..newest'
<1>1. newest \in Nat /\ newest' \in Nat
  BY DEF KeysInv, KeysOK
<1>2. /\ \A v \in 0..shares : v \in 0..shares'
      /\ \A v \in 0..realm : v \in 0..realm'
      /\ \A v \in 1..realm : v \in 1..realm'
      /\ \A v \in 1..newest : v \in 1..newest'
  BY <1>1 DEF SetupOK
<1>3. \A k : TokenOK(k) => TokenOK(k)'
  BY <1>2 DEF TokenOK
<1> QED BY <1>2, <1>3 DEF RequestOK

(* A step that only grows the numbers and leaves the rest of the state. *)
LEMMA CachesStay ==
  ASSUME KeysInv, KeysInv', AppTyped, UNCHANGED app,
         realm' \in Nat, realm <= realm', shares' \in Nat, shares <= shares', newest <= newest',
         \A pair \in Pairs : \/ cache'[pair] = cache[pair] \/ cache'[pair] = Missing
                             \/ TokenOK(cache'[pair]),
         \A r \in Requests : request'[r] = request[r] \/ RequestOK(request'[r]),
         DOMAIN answers' = Questions,
         \A q \in Questions : answers'[q].version = answers[q].version \/ answers'[q].version \in 0..shares
  PROVE  CachesOK'
<1>1. SetupOK /\ CachesOK
  BY DEF AppTyped
<1>2. /\ \A k : TokenOK(k) => TokenOK(k)'
      /\ \A q : RequestOK(q) => RequestOK(q)'
      /\ \A v \in 0..shares : v \in 0..shares'
  BY <1>1, Grows
<1>3. ASSUME NEW pair \in Pairs, NEW k, k = cache'[pair] PROVE k = Missing \/ TokenOK(k)'
  BY <1>1, <1>2, <1>3 DEF CachesOK
<1>4. ASSUME NEW r \in Requests, NEW q, q = request'[r] PROVE RequestOK(q)'
  BY <1>1, <1>2, <1>4 DEF CachesOK
<1>5. \A pair \in Pairs : cache'[pair] = Missing \/ (TokenOK(cache[pair]))'
  BY <1>3
<1>6. \A r \in Requests : (RequestOK(request[r]))'
  BY <1>4
<1>7. \A q \in Questions : answers'[q].version \in 0..shares'
  BY <1>1, <1>2 DEF CachesOK
<1> QED BY <1>5, <1>6, <1>7 DEF CachesOK

(* ... of which most leave the set-up alone, too. *)
LEMMA SetupStays ==
  ASSUME SetupOK, UNCHANGED <<app, newest, loaded, realm, known, pinned, scope, shares>>,
         pending' \subseteq Pairs, writing' \in {"no", "looking", "sent", "applied"}
  PROVE  SetupOK'
BY DEF SetupOK

LEMMA ServerTyped ==
  ASSUME KeysInv, KeysInv', AppTyped,
         RotateKey \/ MoveRealm \/ (\E p \in Processes : reset_cache(p)) \/ lifespan
  PROVE  AppTyped'
<1>0. /\ newest \in Nat \ {0} /\ newest' \in Nat /\ loaded \in [Processes -> Nat]
      /\ \A p \in Processes : loaded[p] \in 1..newest
      /\ app \in Apps /\ app.changes \in Nat /\ realm \in Nat \ {0} /\ shares \in Nat \ {0}
  BY AppBackendAssumption DEF KeysInv, KeysOK, AppTyped, SetupOK
<1>1. CASE RotateKey \/ MoveRealm
  <2>1. /\ UNCHANGED <<app, loaded, known, pinned, scope, cache, pending, request, shares, answers, writing>>
        /\ \/ newest' = newest + 1 /\ realm' = realm
           \/ newest' = newest /\ realm' = realm + 1
        /\ newest + realm < app.changes + 2
    BY <1>1 DEF RotateKey, MoveRealm
  <2>2. newest <= newest' /\ realm <= realm' /\ realm' \in Nat \ {0} /\ newest' + realm' <= app.changes + 2
    BY <1>0, <2>1
  <2>3. known \subseteq 1..newest' /\ pinned \in 1..newest' /\ scope \in 0..realm'
    BY <1>0, <2>1, <2>2, Grows DEF AppTyped, SetupOK
  <2>4. SetupOK'
    BY <2>1, <2>2, <2>3 DEF AppTyped, SetupOK
  <2>5. CachesOK'
    BY <1>0, <2>1, <2>2, CachesStay DEF AppTyped, CachesOK
  <2> QED BY <2>4, <2>5 DEF AppTyped
<1>2. ASSUME NEW p \in Processes, reset_cache(p) PROVE AppTyped'
  <2>1. /\ loaded' = [loaded EXCEPT ![p] = newest]
        /\ UNCHANGED <<app, newest, realm, known, pinned, scope, cache, pending, request, shares, answers, writing>>
    BY <1>2 DEF reset_cache
  <2>2. SetupOK'
    BY <1>0, <2>1 DEF AppTyped, SetupOK
  <2>3. CachesOK'
    BY <2>1 DEF AppTyped, CachesOK, RequestOK, TokenOK
  <2> QED BY <2>2, <2>3 DEF AppTyped
<1>3. CASE lifespan
  <2>1. PICK p \in Processes, s \in fetch_whoami : Started(p, s)
    BY <1>3 DEF lifespan
  <2>2. /\ UNCHANGED <<app, newest, loaded, realm, shares>>
        /\ pinned' = loaded[p] /\ scope' = s /\ known' = {} /\ pending' = {} /\ writing' = "no"
        /\ cache' = [pair \in Pairs |-> Missing] /\ request' = [r \in Requests |-> Idle]
        /\ answers' = [q \in Questions |-> Unasked]
    BY <1>3, <2>1 DEF lifespan, Started, fetch_duar_public_key, signing_key
  <2>3. s \in 0..realm
    BY <1>0, <2>1 DEF fetch_whoami
  <2>4. SetupOK'
    BY <1>0, <2>2, <2>3 DEF AppTyped, SetupOK
  <2>5. 0 \in 0..shares /\ shares' = shares
    BY <1>0, <2>2
  <2>6. CachesOK'
    BY <2>2, <2>5 DEF CachesOK, RequestOK, Idle, Unasked
  <2> QED BY <2>4, <2>6 DEF AppTyped
<1> QED BY <1>1, <1>2, <1>3

(* The keys that are published are keys there are. *)
LEMMA KnownKeys ==
  ASSUME KeysInv, AppTyped
  PROVE  /\ LiveKeys \subseteq 1..newest
         /\ \A p \in Processes : loaded[p] \in 1..newest
         /\ \A key : _decode_authz(key) => known' \subseteq 1..newest
<1>1. newest \in Nat \ {0} /\ \A p \in Processes : loaded[p] \in {newest, newest - 1} \ {0}
  BY DEF KeysInv, KeysOK
<1>2. \A key \in {newest, newest - 1} \ {0} : key \in 1..newest
  BY <1>1
<1>3. \A p \in Processes : build_jwks(p) \subseteq 1..newest
  <2> SUFFICES ASSUME NEW p \in Processes, NEW key \in build_jwks(p) PROVE key \in 1..newest
    OBVIOUS
  <2>1. key \in {loaded[p], loaded[p] - 1} /\ key # 0
    BY DEF build_jwks, verification_keys
  <2>2. loaded[p] \in {newest, newest - 1} \ {0}
    BY <1>1
  <2> QED BY <1>1, <2>1, <2>2
<1>4. LiveKeys \subseteq 1..newest
  BY <1>2, LiveKeysPublished DEF Published
<1>5. known \subseteq 1..newest
  BY DEF AppTyped, SetupOK
<1> QED BY <1>1, <1>2, <1>3, <1>4, <1>5 DEF _decode_authz, Fetched

LEMMA TokensTyped ==
  ASSUME KeysInv, KeysInv', MintInv, AppTyped,
         \/ \E r \in Requests : BothTokens(r) \/ Resolve(r)
         \/ \E pair \in Pairs : MintAnswers(pair) \/ MintFails(pair) \/ CacheExpires(pair)
  PROVE  AppTyped'
<1>0. /\ newest \in Nat \ {0} /\ realm \in Nat \ {0} /\ shares \in Nat /\ mints \in Nat
      /\ newest <= newest /\ realm <= realm /\ shares <= shares
      /\ SetupOK /\ DOMAIN request = Requests /\ DOMAIN cache = Pairs /\ DOMAIN answers = Questions
      /\ \A pair \in Pairs : cache[pair] = Missing \/ TokenOK(cache[pair])
      /\ \A r \in Requests : RequestOK(request[r])
  BY DEF KeysInv, KeysOK, AppTyped, SetupOK, CachesOK, MintInv
<1>1. ASSUME NEW r \in Requests, BothTokens(r) PROVE AppTyped'
  <2>1. PICK token \in HeldTokens : \E pair : request' = [request EXCEPT ![r] = Verifying(pair, token, FALSE)]
    BY <1>1 DEF BothTokens
  <2>2. /\ UNCHANGED <<app, newest, loaded, realm, known, pinned, scope, cache, pending, shares, answers, writing>>
    BY <1>1 DEF BothTokens
  <2>3. /\ token.id = 0 /\ token.pair \in Pairs /\ token.key \in 1..newest /\ token.svc \in 1..realm
        /\ token = [id |-> token.id, pair |-> token.pair, key |-> token.key, svc |-> token.svc]
    BY KnownKeys DEF HeldTokens
  <2>4. TokenOK(token) /\ token # Missing
    BY <1>0, <2>3, AppBackendAssumption DEF TokenOK, Pairs
  <2>5. \A x \in Requests : request'[x] = request[x] \/ RequestOK(request'[x])
    BY <1>0, <2>1, <2>4 DEF RequestOK, Verifying
  <2>6. CachesOK'
    BY <1>0, <2>2, <2>5, CachesStay
  <2> QED BY <1>0, <2>2, <2>6, SetupStays DEF AppTyped, SetupOK
<1>2. ASSUME NEW r \in Requests, Resolve(r) PROVE AppTyped'
  <2>1. UNCHANGED <<app, newest, loaded, realm, known, pinned, scope, cache, shares, answers, writing>>
    BY <1>2 DEF Resolve
  <2>2. PICK pair \in Pairs :
          \/ /\ cache[pair] # Missing /\ pending' = pending
             /\ request' = [request EXCEPT ![r] = Verifying(pair, cache[pair], TRUE)]
          \/ /\ request' = [request EXCEPT ![r] = [pc |-> "waiting", pair |-> pair]]
             /\ pending' = pending \cup {pair}
    BY <1>2 DEF Resolve, CacheKey
  <2>3. \A x \in Requests : request'[x] = request[x] \/ RequestOK(request'[x])
    BY <1>0, <2>2 DEF RequestOK, Verifying
  <2>4. CachesOK'
    BY <1>0, <2>1, <2>3, CachesStay
  <2> QED BY <1>0, <2>1, <2>2, <2>4, SetupStays DEF AppTyped, SetupOK
<1>3. ASSUME NEW pair \in Pairs, MintAnswers(pair) PROVE AppTyped'
  <2>1. PICK p \in Processes :
          LET token == [id |-> mints + 1, pair |-> pair, key |-> loaded[p], svc |-> realm] IN
          /\ cache' = [cache EXCEPT ![pair] = token]
          /\ request' = [r \in Requests |-> IF r \in Waiting(pair)
                           THEN Verifying(request[r].pair, token, TRUE) ELSE request[r]]
    BY <1>3 DEF MintAnswers, signing_key
  <2> DEFINE token == [id |-> mints + 1, pair |-> pair, key |-> loaded[p], svc |-> realm]
  <2>2. UNCHANGED <<app, newest, loaded, realm, known, pinned, scope, shares, answers, writing>>
        /\ pending' = pending \ {pair}
    BY <1>3 DEF MintAnswers
  <2>3. loaded[p] \in 1..newest /\ mints + 1 \in Nat /\ realm \in 1..realm
    BY <1>0, KnownKeys
  <2>4. TokenOK(token) /\ token # Missing
    BY <1>0, <2>3, AppBackendAssumption DEF TokenOK, Pairs
  <2>5. /\ cache' = [cache EXCEPT ![pair] = token]
        /\ request' = [r \in Requests |-> IF r \in Waiting(pair)
                         THEN Verifying(request[r].pair, token, TRUE) ELSE request[r]]
    BY <2>1
  <2> HIDE DEF token
  <2>6. \A x \in Requests : request'[x] = request[x] \/ RequestOK(request'[x])
    BY <2>4, <2>5 DEF RequestOK, Verifying
  <2>7. \A x \in Pairs : cache'[x] = cache[x] \/ TokenOK(cache'[x])
    BY <1>0, <2>4, <2>5
  <2>8. CachesOK'
    BY <1>0, <2>2, <2>6, <2>7, CachesStay
  <2> QED BY <1>0, <2>2, <2>8, SetupStays DEF AppTyped, SetupOK
<1>4. ASSUME NEW pair \in Pairs, MintFails(pair) \/ CacheExpires(pair) PROVE AppTyped'
  <2>1. /\ UNCHANGED <<app, newest, loaded, realm, known, pinned, scope, shares, answers, writing>>
        /\ pending' \subseteq pending
    BY <1>4 DEF MintFails, CacheExpires
  <2>2. /\ \A x \in Pairs : cache'[x] = cache[x] \/ cache'[x] = Missing
        /\ \A r \in Requests : request'[r] = request[r] \/ request'[r] = Idle
    BY <1>0, <1>4 DEF MintFails, CacheExpires
  <2>3. RequestOK(Idle)
    BY DEF RequestOK, Idle
  <2>4. CachesOK'
    BY <1>0, <2>1, <2>2, <2>3, CachesStay
  <2> QED BY <1>0, <2>1, <2>4, SetupStays DEF AppTyped, SetupOK
<1> QED BY <1>1, <1>2, <1>3, <1>4

LEMMA VerifyingTyped ==
  ASSUME KeysInv, KeysInv', MintInv, AppTyped,
         \/ JWTAuthMiddleware \/ createAccessVerifier \/ verify_m2m_token \/ verifyM2mToken
         \/ \E r \in Requests : Verify(r)
  PROVE  AppTyped'
<1>1. UNCHANGED <<app, newest, loaded, realm, pinned, scope, pending, shares, answers, writing>>
  BY DEF JWTAuthMiddleware, createAccessVerifier, verify_m2m_token, verifyM2mToken, OneToken, Verify
<1>2. known' \subseteq 1..newest
  <2>1. known' = known \/ \E key : _decode_authz(key)
    BY DEF JWTAuthMiddleware, createAccessVerifier, verify_m2m_token, verifyM2mToken, Verify
  <2> QED BY <2>1, KnownKeys DEF AppTyped, SetupOK
<1>3. /\ \A pair \in Pairs : cache'[pair] = cache[pair] \/ cache'[pair] = Missing
      /\ \A r \in Requests : \/ request'[r] = request[r] \/ request'[r].pc \in {"served", "idle"}
  <2>1. CASE JWTAuthMiddleware \/ createAccessVerifier \/ verify_m2m_token \/ verifyM2mToken
    BY <2>1 DEF JWTAuthMiddleware, createAccessVerifier, verify_m2m_token, verifyM2mToken, OneToken
  <2>2. ASSUME NEW r \in Requests, Verify(r)
        PROVE  /\ \A pair \in Pairs : cache'[pair] = cache[pair] \/ cache'[pair] = Missing
               /\ \A x \in Requests : request'[x] = request[x] \/ request'[x].pc \in {"served", "idle"}
    BY <2>2 DEF Verify, Dropped, CacheKey, Idle, MintInv, CacheOK, RequestsOK
  <2> QED BY <2>1, <2>2
<1>4. \A r \in Requests : request'[r] = request[r] \/ RequestOK(request'[r])
  BY <1>3 DEF RequestOK
<1>5. /\ newest <= newest /\ realm <= realm /\ shares <= shares /\ realm \in Nat /\ shares \in Nat
  BY DEF KeysInv, KeysOK, AppTyped, SetupOK
<1>6. CachesOK'
  BY <1>1, <1>3, <1>4, <1>5, CachesStay DEF AppTyped, CachesOK
<1>7. SetupOK'
  BY <1>1, <1>2 DEF AppTyped, SetupOK
<1> QED BY <1>6, <1>7 DEF AppTyped

LEMMA WritesTyped ==
  ASSUME KeysInv, KeysInv', MintInv, AppTyped,
         \/ register_resource \/ share \/ unshare \/ Apply \/ WriteRefused
         \/ WriteEnds \/ AnswerLost
         \/ \E q \in Questions : AnswerExpires(q)
         \/ \E r \in Requests :
              \/ can(r) \/ accessible(r) \/ check(r) \/ CacheAnswer(r) \/ Finish(r) \/ Disconnect(r)
  PROVE  AppTyped'
<1>0. /\ newest \in Nat /\ realm \in Nat \ {0} /\ shares \in Nat \ {0} /\ newest <= newest /\ realm <= realm
      /\ shares <= shares /\ 0 \in 0..shares /\ shares \in 0..shares
      /\ DOMAIN request = Requests /\ DOMAIN answers = Questions
      /\ SetupOK /\ \A r \in Requests : RequestOK(request[r])
  BY DEF KeysInv, KeysOK, AppTyped, SetupOK, CachesOK, MintInv, RequestsOK
<1>1. CASE \/ register_resource \/ share \/ unshare \/ Apply \/ WriteRefused
  <2>1. /\ UNCHANGED <<app, newest, loaded, realm, known, pinned, scope, cache, pending, answers>>
        /\ request' = Overlap \/ request' = request
        /\ shares' = shares \/ shares' = shares + 1
        /\ writing' \in {"no", "looking", "sent", "applied"}
    BY <1>1 DEF register_resource, share, unshare, Apply, WriteRefused, WriteGoes
  <2>2. \A r \in Requests : request'[r] = request[r] \/ RequestOK(request'[r])
    <3>1. CASE request' = Overlap
      <4> SUFFICES ASSUME NEW r \in Requests, request[r].pc \in {"asking", "told"},
                          request'[r] = [request[r] EXCEPT !.late = TRUE]
                   PROVE  RequestOK(request'[r])
        BY <3>1 DEF Overlap
      <4> QED BY <1>0 DEF RequestOK
    <3> QED BY <2>1, <3>1
  <2>3. shares' \in Nat \ {0} /\ shares <= shares'
    BY <1>0, <2>1
  <2>4. CachesOK'
    BY <1>0, <2>1, <2>2, <2>3, CachesStay
  <2> QED BY <1>0, <2>1, <2>3, <2>4 DEF AppTyped, SetupOK
<1>2. CASE WriteEnds \/ AnswerLost \/ \E q \in Questions : AnswerExpires(q)
  <2>1. /\ UNCHANGED <<app, newest, loaded, realm, known, pinned, scope, cache, pending, request, shares>>
        /\ writing' \in {writing, "no"}
    BY <1>2 DEF WriteEnds, AnswerLost, Answered, AnswerExpires
  <2>2. /\ DOMAIN answers' = Questions
        /\ \A q \in Questions : answers'[q].version = answers[q].version \/ answers'[q].version = 0
    <3>1. CASE WriteEnds \/ \E q \in Questions : AnswerExpires(q)
      BY <1>0, <3>1 DEF WriteEnds, Answered, _invalidate_cache, AnswerExpires, Unasked
    <3>2. CASE AnswerLost
      <4>1. /\ DOMAIN answers' = Questions
            /\ \A q \in Questions : answers'[q] = [answers[q] EXCEPT !.late = (answers[q] # Unasked)]
        BY <3>2 DEF AnswerLost, Answered
      <4>2. \A q \in Questions : answers'[q].version = answers[q].version
        <5> SUFFICES ASSUME NEW q \in Questions, NEW late, answers'[q] = [answers[q] EXCEPT !.late = late]
                     PROVE  answers'[q].version = answers[q].version
          BY <4>1
        <5> QED OBVIOUS
      <4> QED BY <4>1, <4>2
    <3> QED BY <1>2, <3>1, <3>2
  <2>3. CachesOK'
    BY <1>0, <2>1, <2>2, CachesStay
  <2> QED BY <1>0, <2>1, <2>3 DEF AppTyped, SetupOK
<1>3. ASSUME NEW r \in Requests,
             \/ can(r) \/ accessible(r) \/ check(r) \/ CacheAnswer(r) \/ Finish(r) \/ Disconnect(r)
      PROVE  AppTyped'
  <2>1. UNCHANGED <<app, newest, loaded, realm, known, pinned, scope, cache, pending, shares, writing>>
    BY <1>3 DEF can, accessible, Ask, check, CacheAnswer, Finish, Disconnect
  <2>2. PICK next : request' = [request EXCEPT ![r] = next] /\ RequestOK(next)
    <3>1. CASE can(r) \/ accessible(r) \/ Finish(r) \/ Disconnect(r)
      BY <3>1 DEF can, accessible, Ask, Finish, Disconnect, RequestOK, Idle
    <3>2. CASE check(r)
      <4>1. /\ request[r].pc = "asking"
            /\ request' = [request EXCEPT ![r] = [pc |-> "told", pair |-> request[r].pair,
                 ask |-> request[r].ask, late |-> request[r].late, version |-> shares]]
        BY <3>2 DEF check
      <4>2. app.cache_ttl
        BY <1>0, <4>1 DEF RequestOK
      <4>3. RequestOK([pc |-> "told", pair |-> request[r].pair,
                       ask |-> request[r].ask, late |-> request[r].late, version |-> shares])
        BY <1>0, <4>2 DEF RequestOK
      <4> QED BY <4>1, <4>3
    <3>3. CASE CacheAnswer(r)
      <4>1. RequestOK(Idle)
        BY DEF RequestOK, Idle
      <4> QED BY <3>3, <4>1 DEF CacheAnswer
    <3> QED BY <1>3, <3>1, <3>2, <3>3
  <2>3. /\ DOMAIN answers' = Questions
        /\ \A q \in Questions : answers'[q].version = answers[q].version \/ answers'[q].version \in 0..shares
    <3>1. CASE CacheAnswer(r)
      <4>1. request[r].version \in 0..shares
        BY <1>0, <3>1 DEF CacheAnswer, RequestOK
      <4> QED BY <1>0, <3>1, <4>1 DEF CacheAnswer
    <3>2. CASE answers' = answers
      BY <1>0, <3>2
    <3> QED BY <1>3, <3>1, <3>2 DEF can, accessible, Ask, check, Finish, Disconnect
  <2>4. CachesOK'
    BY <1>0, <2>1, <2>2, <2>3, CachesStay
  <2> QED BY <1>0, <2>1, <2>4, SetupStays DEF AppTyped, SetupOK
<1> QED BY <1>1, <1>2, <1>3

LEMMA AppTypedInit == AppInit => AppTyped
<1> SUFFICES ASSUME AppInit PROVE AppTyped
  OBVIOUS
<1>1. app \in Apps /\ app.changes \in Nat
  BY AppBackendAssumption DEF AppInit
<1>2. SetupOK
  BY <1>1 DEF AppInit, SetupOK
<1>3. CachesOK
  BY DEF AppInit, CachesOK, RequestOK, Idle, Unasked
<1> QED BY <1>2, <1>3 DEF AppTyped

LEMMA AppTypedNext ==
  KeysInv /\ MintInv /\ AppTyped /\ [AppNext]_<<appVars, appGhosts>> => AppTyped'
<1> SUFFICES ASSUME KeysInv, MintInv, AppTyped, [AppNext]_<<appVars, appGhosts>> PROVE AppTyped'
  OBVIOUS
<1>0. KeysInv'
  BY KeysNextOK
<1>1. CASE RotateKey \/ MoveRealm \/ lifespan \/ \E p \in Processes : reset_cache(p)
  BY <1>0, <1>1, ServerTyped
<1>2. CASE \/ register_resource \/ share \/ unshare \/ Apply \/ WriteRefused
           \/ WriteEnds \/ AnswerLost
           \/ \E q \in Questions : AnswerExpires(q)
  BY <1>0, <1>2, WritesTyped
<1>3. CASE JWTAuthMiddleware \/ createAccessVerifier \/ verify_m2m_token \/ verifyM2mToken
  BY <1>0, <1>3, VerifyingTyped
<1>4. ASSUME NEW pair \in Pairs, \/ _mint(pair) \/ mint(pair) \/ CacheExpires(pair)
                                 \/ _mint_error(pair) \/ resolveErrorResponse(pair)
      PROVE  AppTyped'
  BY <1>0, <1>4, TokensTyped DEF _mint, mint, _mint_error, resolveErrorResponse
<1>5. ASSUME NEW r \in Requests,
             \/ BothTokens(r) \/ _auto_resolve(r) \/ resolveOnce(r) \/ dispatch(r) \/ middleware(r)
      PROVE  AppTyped'
  BY <1>0, <1>5, TokensTyped, VerifyingTyped DEF _auto_resolve, resolveOnce, dispatch, middleware
<1>6. ASSUME NEW r \in Requests,
             \/ can(r) \/ accessible(r) \/ check(r) \/ CacheAnswer(r) \/ Finish(r) \/ Disconnect(r)
      PROVE  AppTyped'
  BY <1>0, <1>6, WritesTyped
<1>7. CASE UNCHANGED <<appVars, appGhosts>>
  BY <1>7 DEF appVars, appGhosts, AppTyped, SetupOK, CachesOK, RequestOK, TokenOK
<1> QED BY <1>1, <1>2, <1>3, <1>4, <1>5, <1>6, <1>7 DEF AppNext

LEMMA AppIsTyped == KeysInv /\ AppTyped => AppTypeOK
<1> SUFFICES ASSUME KeysInv, AppTyped PROVE AppTypeOK
  OBVIOUS
<1>1. /\ newest \in Nat \ {0} /\ realm \in Nat \ {0} /\ app.changes \in Nat
      /\ newest + realm <= app.changes + 2
  BY AppBackendAssumption DEF KeysInv, KeysOK, AppTyped, SetupOK
<1>2. newest + realm \in 2..(app.changes + 2)
  BY <1>1
<1>3. loaded \in [Processes -> 1..newest]
  BY KnownKeys DEF AppTyped, SetupOK
<1> QED BY <1>2, <1>3 DEF AppTypeOK, AppTyped, SetupOK, CachesOK, RequestOK

(* Every variable of the three parts keeps to its type; among it: the lock is
   held by a tab with a request only, one store is one value, a page without a
   callback holds no answer, and no key or scope is used that does not exist. *)
THEOREM ClientsAreTyped == Spec => []TypesOK
<1>1. TabsSpec => []TypeOK
  BY TabsInitOK, TabsNextOK, TabsTypedInit, TabsTypedNext, TabsAreTyped, PTL DEF TabsSpec
<1>2. AuthzSpec => []AuthzTypeOK
  BY InitBounded, NextBounded, AuthzTypedInit, AuthzTypedNext, AuthzIsTyped, PTL DEF AuthzSpec
<1>3. AppSpec => []AppTypeOK
  BY AppInitOK, AppNextOK, KeysInitOK, KeysNextOK, AppTypedInit, AppTypedNext, AppIsTyped, PTL
     DEF AppSpec
<1>4. TypeOK /\ AuthzTypeOK /\ AppTypeOK => TypesOK
  BY DEF TypesOK
<1> QED BY <1>1, <1>2, <1>3, <1>4, Parts, PTL
=============================================================================
