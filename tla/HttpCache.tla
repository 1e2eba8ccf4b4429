----------------------------- MODULE HttpCache -----------------------------
(***************************************************************************)
(* The HTTP cache of a proxy, for one cache key.  Source: r3v3rs3/src/     *)
(* proxy/http/cache.rs.                                                    *)
(*                                                                         *)
(* A request reads the stored response and answers with it, or it leads a  *)
(* flight to the upstream server, or it follows the flight of another one  *)
(* and waits for its notification.  Revalidations in the background,       *)
(* requests that change the resource and purges run beside them.  The      *)
(* versions of the resource stand for the bodies, and a validator matches  *)
(* while the version is the same.                                          *)
(***************************************************************************)
EXTENDS Naturals, FiniteSets

CONSTANTS
  Clients,    \* each sends one request after the other
  MaxVersion  \* bound on the versions of the resource

Versions == 1..MaxVersion
\* Enough names for the revalidations if there were one too many.
Tasks    == {1, 2}

Nothing == [ver |-> 0, age |-> "none", raced |-> FALSE]
NoOne   == "none"

ASSUME CacheAssumption == MaxVersion \in Nat \ {0} /\ NoOne \notin Clients

VARIABLES
  origin,        \* the version that the upstream server has
  entry,         \* the stored response
  inFlight,      \* HttpCache::in_flight: the client that leads, or NoOne
  revalidating,  \* HttpCache::revalidating has the key
  req,           \* [Clients -> the request]
  reval,         \* [Tasks -> a revalidation in the background]
  change,        \* the request that changes the resource
  floor          \* history: the version when the stored response was last invalidated

cacheVars == <<origin, entry, inFlight, revalidating, req, reval, change, floor>>

\* fresh; stale within stale_while_revalidate; stale, for a conditional request.
Ages  == {"fresh", "swr", "stale"}
Entry == [ver : Versions, age : Ages, raced : BOOLEAN] \union {Nothing}
Fresh(ver, raced) == [ver |-> ver, age |-> "fresh", raced |-> raced]

\* stored: the version it found; lead: it holds the FlightGuard; flight: whom it follows;
\* woken: the flight it waits for has ended; got: the version of the answer; raced:
\* history, the stored response was invalidated since the upstream server has answered.
Rest == [pc |-> "rest", stored |-> 0, lead |-> FALSE, flight |-> NoOne,
         woken |-> FALSE, got |-> 0, raced |-> FALSE]
ReqPcs   == {"rest", "find", "miss", "check", "arm", "wait", "fetch", "reply", "merge",
             "body", "stored"}
NoReval  == [pc |-> "none", got |-> 0, raced |-> FALSE]

Live == {k \in Tasks : reval[k].pc # "none"}

\* FlightGuard::cleanup: the flight is over, and notify_waiters wakes who waits by now.
Land(c, f) ==
  [d \in Clients |->
    IF d # c /\ f[d].flight = c
    THEN [f[d] EXCEPT !.flight = NoOne, !.woken = f[d].pc = "wait"]
    ELSE f[d]]

\* The request goes on as next, and gives its guard back if it holds one.
ReleaseOnlyEnd(c, next) ==
  /\ inFlight' = IF req[c].lead /\ next.pc # "rest" THEN NoOne ELSE inFlight
  /\ req' = [Land(c, req) EXCEPT ![c] = [next EXCEPT !.lead = FALSE]]

Release(c, next) ==
  /\ inFlight' = IF req[c].lead THEN NoOne ELSE inFlight
  /\ req' = IF req[c].lead
            THEN [Land(c, req) EXCEPT ![c] = [next EXCEPT !.lead = FALSE]]
            ELSE [req EXCEPT ![c] = next]

Goto(c, pc) == req' = [req EXCEPT ![c].pc = pc]

-----------------------------------------------------------------------------
(* fetch.                                                                   *)

Request(c) ==
  /\ req[c].pc = "rest"
  /\ Goto(c, "find")
  /\ UNCHANGED <<origin, entry, inFlight, revalidating, reval, change, floor>>

\* A fresh response is the answer.
Hit(c) ==
  /\ req[c].pc = "find" /\ entry.age = "fresh"
  /\ req' = [req EXCEPT ![c] = Rest]
  /\ UNCHANGED <<origin, entry, inFlight, revalidating, reval, change, floor>>

Spawn ==
  LET k == CHOOSE k \in Tasks : reval[k].pc = "none" IN
  reval' = [reval EXCEPT ![k].pc = "fetch"]

MarkAlways == revalidating' = TRUE /\ IF Live = Tasks THEN UNCHANGED reval ELSE Spawn

\* revalidate_background: one revalidation of a key at a time.
MarkRevalidating == revalidating' = TRUE /\ IF revalidating THEN UNCHANGED reval ELSE Spawn

\* A stale response is the answer while it is revalidated.
HitStale(c) ==
  /\ req[c].pc = "find" /\ entry.age = "swr"
  /\ MarkRevalidating
  /\ req' = [req EXCEPT ![c] = Rest]
  /\ UNCHANGED <<origin, entry, inFlight, change, floor>>

Miss(c) ==
  /\ req[c].pc = "find" /\ entry.age \in {"none", "stale"}
  /\ req' = [req EXCEPT ![c].pc = "miss", ![c].stored = entry.ver]
  /\ UNCHANGED <<origin, entry, inFlight, revalidating, reval, change, floor>>

StartFlight(c) ==
  /\ req[c].pc = "miss"
  /\ IF inFlight = NoOne
     THEN /\ inFlight' = c
          /\ req' = [req EXCEPT ![c].pc = "fetch", ![c].lead = TRUE]
     ELSE /\ req' = [req EXCEPT ![c].pc = "check", ![c].flight = inFlight]
          /\ UNCHANGED inFlight
  /\ UNCHANGED <<origin, entry, revalidating, reval, change, floor>>

\* wait_for_flight: the look before the wait ...
CheckStored(c) ==
  /\ req[c].pc = "check"
  /\ req' = [req EXCEPT ![c] = IF entry.age = "fresh" THEN Rest ELSE [@ EXCEPT !.pc = "arm"]]
  /\ UNCHANGED <<origin, entry, inFlight, revalidating, reval, change, floor>>

\* ... and the wait, which misses a flight that ended in between.
Wait(c) ==
  /\ req[c].pc = "arm"
  /\ Goto(c, "wait")
  /\ UNCHANGED <<origin, entry, inFlight, revalidating, reval, change, floor>>

\* What it waited for does not matter any more.
Fetching(c) == [Rest EXCEPT !.pc = "fetch", !.stored = req[c].stored]

WaitEndsWoken(c) ==
  /\ req[c].pc = "wait" /\ req[c].woken
  /\ req' = [req EXCEPT ![c] = IF entry.age = "fresh" THEN Rest
                               ELSE Fetching(c)]
  /\ UNCHANGED <<origin, entry, inFlight, revalidating, reval, change, floor>>

\* The notification comes, or ten seconds have passed.  Without a fresh response the
\* request goes to the upstream server, without a guard.
WaitEnds(c) ==
  /\ req[c].pc = "wait"
  /\ req' = [req EXCEPT ![c] = IF entry.age = "fresh" THEN Rest
                               ELSE Fetching(c)]
  /\ UNCHANGED <<origin, entry, inFlight, revalidating, reval, change, floor>>

\* The upstream server answers with what it has.
Answer(c) ==
  /\ req[c].pc = "fetch"
  /\ req' = [req EXCEPT ![c].pc = "reply", ![c].got = origin]
  /\ UNCHANGED <<origin, entry, inFlight, revalidating, reval, change, floor>>

\* The upstream server fails, the answer cannot be stored, or the client goes away, at
\* any time: the guard is dropped.
GiveUp(c) ==
  /\ req[c].pc \in {"miss", "check", "arm", "wait", "fetch", "reply", "body"}
  /\ Release(c, Rest)
  /\ UNCHANGED <<origin, entry, revalidating, reval, change, floor>>

\* 304 Not Modified: the guard is finished before the stored response is refreshed.
NotModified(c) ==
  /\ req[c].pc = "reply" /\ req[c].stored = req[c].got
  /\ Release(c, [req[c] EXCEPT !.pc = "merge"])
  /\ UNCHANGED <<origin, entry, revalidating, reval, change, floor>>

\* handle_304 and refresh_entry, if the headers of the answer allow to store it.
Refresh(c) ==
  /\ req[c].pc = "merge"
  /\ \/ entry' = Fresh(req[c].got, req[c].raced)
     \/ UNCHANGED entry
  /\ req' = [req EXCEPT ![c] = Rest]
  /\ UNCHANGED <<origin, inFlight, revalidating, reval, change, floor>>

\* A response that can be stored: the body goes to the client and into the Recorder.
Record(c) ==
  /\ req[c].pc = "reply" /\ req[c].stored # req[c].got
  /\ Goto(c, "body")
  /\ UNCHANGED <<origin, entry, inFlight, revalidating, reval, change, floor>>

\* Recorder::finish with a whole body stores the response ...
FinishBody(c) ==
  /\ req[c].pc = "body"
  /\ entry' = Fresh(req[c].got, req[c].raced)
  /\ Goto(c, "stored")
  /\ UNCHANGED <<origin, inFlight, revalidating, reval, change, floor>>

\* ... and then finishes the guard.
FinishFlight(c) ==
  /\ req[c].pc = "stored"
  /\ Release(c, Rest)
  /\ UNCHANGED <<origin, entry, revalidating, reval, change, floor>>

-----------------------------------------------------------------------------
(* run_background_revalidation.                                             *)

RevalAnswer(k) ==
  /\ reval[k].pc = "fetch"
  /\ reval' = [reval EXCEPT ![k].pc = "reply", ![k].got = origin]
  /\ UNCHANGED <<origin, entry, inFlight, revalidating, req, change, floor>>

\* The answer is stored, or it is an error or cannot be stored; RevalidationGuard.
RevalEnds(k) ==
  /\ reval[k].pc # "none"
  /\ \/ reval[k].pc = "reply" /\ entry' = Fresh(reval[k].got, reval[k].raced)
     \/ UNCHANGED entry
  /\ reval' = [reval EXCEPT ![k] = NoReval]
  /\ revalidating' = FALSE
  /\ UNCHANGED <<origin, inFlight, req, change, floor>>

-----------------------------------------------------------------------------
(* The time, the requests that change the resource, and the purges.         *)

AgeKeepsBody ==
  /\ \/ entry.age = "fresh" /\ \E a \in {"swr", "stale"} : entry' = [entry EXCEPT !.age = a]
     \/ entry.age = "swr" /\ entry' = [entry EXCEPT !.age = "stale"]
     \/ entry.age = "stale" /\ entry' = [entry EXCEPT !.age = "none"]
  /\ UNCHANGED <<origin, inFlight, revalidating, req, reval, change, floor>>

\* The time passes for the stored response.
Age ==
  /\ \/ entry.age = "fresh" /\ \E a \in {"swr", "stale"} : entry' = [entry EXCEPT !.age = a]
     \/ entry.age = "swr" /\ entry' = [entry EXCEPT !.age = "stale"]
     \/ entry.age = "stale" /\ entry' = Nothing
  /\ UNCHANGED <<origin, inFlight, revalidating, req, reval, change, floor>>

InvalidateOther ==
  /\ entry' = entry
  /\ floor' = origin
  /\ req' = [c \in Clients |-> [req[c] EXCEPT !.raced = req[c].got # 0]]
  /\ reval' = [k \in Tasks |-> [reval[k] EXCEPT !.raced = reval[k].got # 0]]

\* invalidate_target, purge_path and purge: the stored response goes, and what is on its
\* way into the cache does not.
Invalidate ==
  /\ entry' = Nothing
  /\ floor' = origin
  /\ req' = [c \in Clients |-> [req[c] EXCEPT !.raced = req[c].got # 0]]
  /\ reval' = [k \in Tasks |-> [reval[k] EXCEPT !.raced = reval[k].got # 0]]

SendChange ==
  /\ change = "rest" /\ origin < MaxVersion
  /\ change' = "sent"
  /\ UNCHANGED <<origin, entry, inFlight, revalidating, req, reval, floor>>

\* The upstream server changes the resource ...
ChangeOrigin ==
  /\ change = "sent"
  /\ origin' = origin + 1
  /\ change' = "answered"
  /\ UNCHANGED <<entry, inFlight, revalidating, req, reval, floor>>

\* ... and fetch_unsafe invalidates after its answer.
FetchUnsafe ==
  /\ change = "answered"
  /\ Invalidate
  /\ change' = "rest"
  /\ UNCHANGED <<origin, inFlight, revalidating>>

Purge ==
  /\ entry # Nothing
  /\ Invalidate
  /\ UNCHANGED <<origin, inFlight, revalidating, change>>

-----------------------------------------------------------------------------
CacheInit ==
  /\ origin = 1 /\ entry = Nothing /\ inFlight = NoOne /\ revalidating = FALSE
  /\ req = [c \in Clients |-> Rest] /\ reval = [k \in Tasks |-> NoReval]
  /\ change = "rest" /\ floor = 1

\* What the request does by itself, and what it needs the upstream server for.
OwnStep(c) ==
  \/ Hit(c) \/ HitStale(c) \/ Miss(c) \/ StartFlight(c) \/ CheckStored(c) \/ Wait(c)
  \/ WaitEnds(c) \/ NotModified(c) \/ Refresh(c) \/ Record(c) \/ FinishFlight(c)
UpstreamStep(c) == Answer(c) \/ FinishBody(c)
RevalStep(k) == RevalAnswer(k) \/ RevalEnds(k)

CacheNext ==
  \/ \E c \in Clients : Request(c) \/ OwnStep(c) \/ UpstreamStep(c) \/ GiveUp(c)
  \/ \E k \in Tasks : RevalStep(k)
  \/ Age \/ SendChange \/ ChangeOrigin \/ FetchUnsafe \/ Purge

\* A request that nobody gives up goes on by itself, and the wait for a flight has a
\* timeout.  The upstream server need not answer, since a request timeout of 0 is none,
\* and a body that it sends need not end.
CacheFairness == \A c \in Clients : WF_cacheVars(OwnStep(c))

CacheSpec == CacheInit /\ [][CacheNext]_cacheVars /\ CacheFairness

-----------------------------------------------------------------------------
CacheTypeOK ==
  /\ origin \in Versions /\ entry \in Entry /\ inFlight \in Clients \union {NoOne}
  /\ revalidating \in BOOLEAN
  /\ req \in [Clients -> [pc : ReqPcs, stored : 0..MaxVersion, lead : BOOLEAN,
                          flight : Clients \union {NoOne}, woken : BOOLEAN,
                          got : 0..MaxVersion, raced : BOOLEAN]]
  /\ reval \in [Tasks -> [pc : {"none", "fetch", "reply"},
                          got : 0..MaxVersion, raced : BOOLEAN]]
  /\ change \in {"rest", "sent", "answered"} /\ floor \in Versions

\* A flight is in the table exactly while one request holds its guard, however that
\* request ends, so no later request follows a flight that nobody leads.
OneLeader ==
  \A c \in Clients : inFlight = c <=> req[c].lead

\* One revalidation of a key runs at a time, and the key is locked exactly while it runs.
OneRevalidation ==
  Cardinality(Live) = IF revalidating THEN 1 ELSE 0

\* After an invalidation no older version is in the cache, except one that the upstream
\* server had sent before and that was stored after it.
NoOldVersion ==
  entry.ver # 0 => entry.ver >= floor \/ entry.raced

\* One key of the cache: one flight, one revalidation and no version from before a change.
OneFlightPerKey == CacheTypeOK /\ OneLeader /\ OneRevalidation /\ NoOldVersion

\* Every request ends, or the upstream server keeps it waiting: for the answer to its own
\* request, or for the rest of the body.  None waits for ever for the flight of another
\* one, also if that flight hangs or if the request missed its end.
RequestEnds ==
  \A c \in Clients : req[c].pc # "rest" ~> req[c].pc \in {"rest", "fetch", "body"}
=============================================================================
