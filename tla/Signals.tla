------------------------------ MODULE Signals ------------------------------
(* The security signals of sign-ins and refreshes, and the activity rows they
   end in (src/service/src/services/signal_service.py, activity_service.py): of
   one address its failures, of one user the countries.  Every call to Redis is
   a step of its own; the callers run side by side and may fail anywhere, which
   fails nobody's sign-in.

   A notice is named by what is told of: <<"stuffing">>, <<"travel", {a, b}>>,
   <<"new", a>> or <<"context", a>>.  Devices go the way of countries, and the
   client context of a session is told by its country.                        *)
EXTENDS Integers, FiniteSets

CONSTANTS Jobs, Emails, Countries, Unknown,
          Failures, DistinctEmails,   \* signal_stuffing_failures, _distinct_emails
          MaxJobs                     \* bound: sign-ins and refreshes

ASSUME SignalsAssumption == IsFiniteSet(Jobs) /\ MaxJobs \in Nat \ {0}

VARIABLES
  fails,      \* fail:ip, the count of failures and whether it has a TTL
  emails,     \* fail:em, the e-mail addresses tried and whether they have a TTL
  rctx,       \* rctx, the context the session was last refreshed from
  geo, seen,  \* geo:last, seen:cty
  dampers,    \* fail:flag and geo:flag, by their notice
  job         \* per job, where it is and what it has read
signalVars == <<fails, emails, rctx, geo, seen, dampers, job>>

VARIABLES
  rows,       \* notices in activity_log, in the window of their damper
  streamed,   \* notices in the log stream, in the same window
  stuck,      \* a job died between INCR and EXPIRE
  begun
signalGhosts == <<rows, streamed, stuck, begun>>

Ways == {p \in SUBSET Countries : Cardinality(p) = 2}
Damped == {<<"stuffing">>} \cup ({"travel"} \X Ways)
Notices == Damped \cup ({"new", "context"} \X Countries)
Steps == {"incr", "expire", "sadd", "emails_ttl", "judge", "ctx_get", "ctx_set", "get", "set",
          "damp", "flush", "commit", "scard", "seen"}

(* Where a job is, where it goes after a notice, and what it has read. *)
Job == [pc : Steps \cup {"idle"}, then : {"done", "get", "scard"}, notice : Notices \cup {Unknown},
        email : Emails \cup {Unknown}, n : Nat, country : Countries \cup {Unknown},
        old : Countries \cup {Unknown}, empty : BOOLEAN]
NoJob == [pc |-> "idle", then |-> "done", notice |-> Unknown, email |-> Unknown, n |-> 0,
          country |-> Unknown, old |-> Unknown, empty |-> FALSE]

SignalsTypeOK ==
  /\ fails \in [n : 0..MaxJobs, ttl : BOOLEAN] /\ emails \in [set : SUBSET Emails, ttl : BOOLEAN]
  /\ {rctx, geo} \subseteq Countries \cup {Unknown} /\ seen \subseteq Countries
  /\ dampers \subseteq Damped
  /\ job \in [Jobs -> Job]
  /\ rows \in [Notices -> 0..MaxJobs] /\ streamed \in [Notices -> 0..MaxJobs]
  /\ stuck \in BOOLEAN /\ begun \in 0..MaxJobs

SignalsInit ==
  /\ fails = [n |-> 0, ttl |-> FALSE] /\ emails = [set |-> {}, ttl |-> FALSE]
  /\ rctx = Unknown /\ geo = Unknown /\ seen = {} /\ dampers = {}
  /\ job = [j \in Jobs |-> NoJob]
  /\ rows = [x \in Notices |-> 0] /\ streamed = rows /\ stuck = FALSE /\ begun = 0

(* A job starts; a job goes on at a step, with changes to what it holds. *)
Starts(j, local) ==
  /\ job[j] = NoJob /\ begun < MaxJobs /\ begun' = begun + 1
  /\ job' = [job EXCEPT ![j] = local]
  /\ UNCHANGED <<fails, emails, rctx, geo, seen, dampers, rows, streamed, stuck>>
Goes(j, pc, local) ==
  job' = [job EXCEPT ![j] = IF pc = "done" THEN NoJob ELSE [local EXCEPT !.pc = pc]]
GoesOn(j, pc) == Goes(j, pc, job[j])
At(j, pc) == job[j].pc = pc

-----------------------------------------------------------------------------
(* CREDENTIAL STUFFING *)

on_login_failure(j) == \E email \in Emails \cup {Unknown} :
  Starts(j, [NoJob EXCEPT !.pc = "incr", !.email = email])
Incr(j) ==
  /\ At(j, "incr") /\ fails' = [fails EXCEPT !.n = @ + 1]
  /\ Goes(j, IF fails'.n = 1 THEN "expire" ELSE "sadd", [job[j] EXCEPT !.n = fails'.n])
  /\ UNCHANGED <<emails, rctx, geo, seen, dampers, signalGhosts>>
Expire(j) ==
  /\ At(j, "expire") /\ fails' = [fails EXCEPT !.ttl = (fails.n > 0)] /\ GoesOn(j, "sadd")
  /\ UNCHANGED <<emails, rctx, geo, seen, dampers, signalGhosts>>
AddEmail(j) ==
  /\ \/ /\ At(j, "sadd") /\ job[j].email = Unknown /\ GoesOn(j, "judge") /\ UNCHANGED emails
     \/ /\ At(j, "sadd") /\ job[j].email # Unknown /\ GoesOn(j, "emails_ttl")
        /\ emails' = [emails EXCEPT !.set = @ \cup {job[j].email}]
     \/ /\ At(j, "emails_ttl") /\ GoesOn(j, "judge")
        /\ emails' = [emails EXCEPT !.ttl = (emails.set # {})]
  /\ UNCHANGED <<fails, rctx, geo, seen, dampers, signalGhosts>>
Judge(j) ==
  /\ At(j, "judge")
  /\ IF job[j].n >= Failures /\ Cardinality(emails.set) >= DistinctEmails
     THEN Goes(j, "damp", [job[j] EXCEPT !.notice = <<"stuffing">>]) ELSE GoesOn(j, "done")
  /\ UNCHANGED <<fails, emails, rctx, geo, seen, dampers, signalGhosts>>

-----------------------------------------------------------------------------
(* TRAVEL AND FIRST SIGHT *)

(* After a sign-in both rules are applied; after a refresh from a new context,
   which is a notice of its own, only that of travel. *)
on_login_success(j) == \E c \in Countries :
  Starts(j, [NoJob EXCEPT !.pc = "get", !.country = c, !.then = "scard"])
swap_refresh_context(j) ==
  \/ \E c \in Countries : Starts(j, [NoJob EXCEPT !.pc = "ctx_get", !.country = c])
  \/ /\ At(j, "ctx_get") /\ Goes(j, "ctx_set", [job[j] EXCEPT !.old = rctx])
     /\ UNCHANGED <<fails, emails, rctx, geo, seen, dampers, signalGhosts>>
  \/ /\ At(j, "ctx_set") /\ rctx' = job[j].country
     /\ IF job[j].old \in {Unknown, job[j].country} THEN GoesOn(j, "done")
        ELSE Goes(j, "flush", [job[j] EXCEPT !.notice = <<"context", job[j].country>>, !.then = "get"])
     /\ UNCHANGED <<fails, emails, geo, seen, dampers, signalGhosts>>

(* The last country is read and then overwritten; whether the way between the
   two was too fast is left open. *)
_check_travel(j) ==
  \/ /\ At(j, "get")
     /\ Goes(j, "set", [job[j] EXCEPT !.old = geo, !.then = IF @ = "scard" THEN "scard" ELSE "done"])
     /\ UNCHANGED <<fails, emails, rctx, geo, seen, dampers, signalGhosts>>
  \/ /\ At(j, "set") /\ geo' = job[j].country
     /\ \/ GoesOn(j, job[j].then)
        \/ /\ job[j].old \notin {Unknown, job[j].country}
           /\ Goes(j, "damp", [job[j] EXCEPT !.notice = <<"travel", {job[j].old, job[j].country}>>])
     /\ UNCHANGED <<fails, emails, rctx, seen, dampers, signalGhosts>>

(* The first country of all is taken in silence. *)
_check_first_seen(j) ==
  \/ /\ At(j, "scard") /\ Goes(j, "seen", [job[j] EXCEPT !.empty = (seen = {})])
     /\ UNCHANGED <<fails, emails, rctx, geo, seen, dampers, signalGhosts>>
  \/ /\ At(j, "seen") /\ seen' = seen \cup {job[j].country}
     /\ IF job[j].empty \/ job[j].country \in seen THEN GoesOn(j, "done")
        ELSE Goes(j, "flush", [job[j] EXCEPT !.notice = <<"new", job[j].country>>, !.then = "done"])
     /\ UNCHANGED <<fails, emails, rctx, geo, dampers, signalGhosts>>

-----------------------------------------------------------------------------
(* NOTICES *)

(* SET NX lets one of those who found the same through. *)
ReadThenSet(j) ==                                \* mutant: EXISTS, and SET at the end
  /\ At(j, "damp") /\ GoesOn(j, IF job[j].notice \in dampers THEN job[j].then ELSE "flush")
  /\ UNCHANGED <<fails, emails, rctx, geo, seen, dampers, signalGhosts>>
Damp(j) ==
  /\ At(j, "damp")
  /\ IF job[j].notice \in dampers THEN GoesOn(j, job[j].then) ELSE GoesOn(j, "flush")
  /\ dampers' = dampers \cup {job[j].notice}
  /\ UNCHANGED <<fails, emails, rctx, geo, seen, signalGhosts>>

(* The row is flushed, then committed; the stream is told after the commit, and
   may fail to be. *)
log_activity(j) ==
  /\ At(j, "flush") /\ GoesOn(j, "commit")
  /\ UNCHANGED <<fails, emails, rctx, geo, seen, dampers, signalGhosts>>
_register_commit_flush(j) ==
  /\ At(j, "commit") /\ GoesOn(j, job[j].then)
  /\ rows' = [rows EXCEPT ![job[j].notice] = @ + 1]
  /\ \/ streamed' = [streamed EXCEPT ![job[j].notice] = @ + 1]
     \/ streamed' = streamed
  /\ UNCHANGED <<fails, emails, rctx, geo, seen, dampers, stuck, begun>>

(* Redis or the database fails: the session is rolled back and the job ends. *)
FailsOpen(j) ==
  /\ job[j] # NoJob /\ GoesOn(j, "done")
  /\ stuck' = (stuck \/ At(j, "expire"))
  /\ UNCHANGED <<fails, emails, rctx, geo, seen, dampers, rows, streamed, begun>>

(* TTLs.  A damper lives for minutes, longer than the jobs that may ask for it. *)
CountersExpire ==
  /\ \/ fails.ttl /\ fails' = [n |-> 0, ttl |-> FALSE] /\ UNCHANGED emails
     \/ emails.ttl /\ emails' = [set |-> {}, ttl |-> FALSE] /\ UNCHANGED fails
  /\ UNCHANGED <<rctx, geo, seen, dampers, job, signalGhosts>>
DamperExpires(d) ==
  /\ d \in dampers /\ \A j \in Jobs : job[j] # NoJob => job[j].notice # d
  /\ dampers' = dampers \ {d}
  /\ rows' = [rows EXCEPT ![d] = 0] /\ streamed' = [streamed EXCEPT ![d] = 0]
  /\ UNCHANGED <<fails, emails, rctx, geo, seen, job, stuck, begun>>

SignalsNext ==
  \/ CountersExpire \/ \E d \in Damped : DamperExpires(d)
  \/ \E j \in Jobs :
       \/ on_login_failure(j) \/ Incr(j) \/ Expire(j) \/ AddEmail(j) \/ Judge(j)
       \/ on_login_success(j) \/ swap_refresh_context(j) \/ _check_travel(j) \/ _check_first_seen(j)
       \/ Damp(j) \/ log_activity(j) \/ _register_commit_flush(j) \/ FailsOpen(j)

-----------------------------------------------------------------------------
(* PROPERTIES *)

(* Jobs that find the same at once tell of it once: a damped notice is written
   at most once in its window, and a country is new only once. *)
OneSignalPerWindow == \A x \in Notices : x[1] # "context" => rows[x] <= 1

(* The log stream tells of nothing that the table does not have: what is rolled
   back is not told. *)
NoPhantoms == \A x \in Notices : streamed[x] <= rows[x]

(* A failure counter has a TTL, or a job about to give it one, unless a job
   died right there. *)
CountersEnd ==
  fails.n > 0 /\ ~fails.ttl /\ ~stuck => \E j \in Jobs : At(j, "expire")
=============================================================================
