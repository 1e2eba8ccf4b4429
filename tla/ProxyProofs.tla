--------------------------- MODULE ProxyProofs ------------------------------
(***************************************************************************)
(* Proofs about the tasks behind the proxies: the cache of a key, the      *)
(* sessions of a UDP port, the SRV names and the discovered proxies, each for *)
(* every value of its constants.                                           *)
(***************************************************************************)
EXTENDS HttpCache, UdpSessions, SrvNames, Discovery, FiniteSetTheorems, SequenceTheorems,
        TLAPS

-----------------------------------------------------------------------------
(* HttpCache.  OneLeader alone does not say where the leader is, nor NoOldVersion *)
(* that an answer on its way back is known to be old: RequestsOK, RevalsOK and *)
(* EntryOK say what each task holds at each of its steps.                  *)

\* The rows of the requests and of the revalidations.
ReqRows == [pc : ReqPcs, stored : 0..MaxVersion, lead : BOOLEAN,
            flight : Clients \union {NoOne}, woken : BOOLEAN,
            got : 0..MaxVersion, raced : BOOLEAN]
RevalRows == [pc : {"none", "fetch", "reply"}, got : 0..MaxVersion, raced : BOOLEAN]

\* An answer that waits to be stored: from before the last invalidation only if it is
\* known to be.
AnswerKnown(v) == v.got # 0 => v.got >= floor \/ v.raced

\* The requests: the leader of the flight is on its way to the upstream server or back,
\* and who stores an answer has one.
RequestsOK ==
  /\ req \in [Clients -> ReqRows] /\ inFlight \in Clients \union {NoOne}
  /\ OneLeader
  /\ \A c \in Clients :
       /\ req[c].lead => req[c].pc \in {"fetch", "reply", "body", "stored"}
       /\ req[c].pc \in {"reply", "merge", "body", "stored"} => req[c].got # 0
       /\ AnswerKnown(req[c])

\* The revalidations.
RevalsOK ==
  /\ reval \in [Tasks -> RevalRows] /\ revalidating \in BOOLEAN
  /\ IF revalidating THEN \E k \in Tasks : Live = {k} ELSE Live = {}
  /\ \A k \in Tasks : (reval[k].pc = "reply" => reval[k].got # 0) /\ AnswerKnown(reval[k])

\* The stored response and the resource.
EntryOK ==
  /\ origin \in Versions /\ floor \in Versions /\ floor <= origin /\ entry \in Entry
  /\ change \in {"rest", "sent", "answered"} /\ NoOldVersion
  /\ change = "sent" => origin < MaxVersion

\* The inductive invariant.
CacheInv == RequestsOK /\ RevalsOK /\ EntryOK

\* Versions start at 1; 0 stands for no answer.
LEMMA VersionsIn == Versions \subseteq 0..MaxVersion /\ Versions \subseteq Nat
  /\ 0 \notin Versions /\ 0 \in 0..MaxVersion /\ 1 \in Versions /\ 0..MaxVersion \subseteq Nat
BY CacheAssumption DEF Versions

\* The fields of a request.
LEMMA ReqFields ==
  ASSUME NEW f \in [Clients -> ReqRows], NEW c \in Clients
  PROVE  /\ f[c].pc \in ReqPcs /\ f[c].stored \in 0..MaxVersion /\ f[c].lead \in BOOLEAN
         /\ f[c].flight \in Clients \union {NoOne} /\ f[c].woken \in BOOLEAN
         /\ f[c].got \in 0..MaxVersion /\ f[c].raced \in BOOLEAN
         /\ f[c].got # 0 => f[c].got \in Versions
<1>1. /\ f[c].pc \in ReqPcs /\ f[c].stored \in 0..MaxVersion /\ f[c].lead \in BOOLEAN
         /\ f[c].flight \in Clients \union {NoOne} /\ f[c].woken \in BOOLEAN
         /\ f[c].got \in 0..MaxVersion /\ f[c].raced \in BOOLEAN
  BY DEF ReqRows
<1> QED
  BY <1>1, CacheAssumption DEF Versions

\* The fields of a revalidation.
LEMMA RevalFields ==
  ASSUME NEW f \in [Tasks -> RevalRows], NEW k \in Tasks
  PROVE  /\ f[k].pc \in {"none", "fetch", "reply"} 
         /\ f[k].got \in 0..MaxVersion /\ f[k].raced \in BOOLEAN
         /\ f[k].got # 0 => f[k].got \in Versions
<1>1. /\ f[k].pc \in {"none", "fetch", "reply"} /\ f[k].got \in 0..MaxVersion
        /\ f[k].raced \in BOOLEAN
  BY DEF RevalRows
<1> QED
  BY <1>1, CacheAssumption DEF Versions

\* The fields of the stored response; growing older keeps the rest of it.
LEMMA EntryFields ==
  ASSUME NEW v \in Entry
  PROVE  /\ v.ver \in 0..MaxVersion /\ v.raced \in BOOLEAN
         /\ v.age \in Ages => v.ver \in Versions
              /\ \A b \in Ages : [v EXCEPT !.age = b] \in Entry
                   /\ [v EXCEPT !.age = b].ver = v.ver /\ [v EXCEPT !.age = b].raced = v.raced
<1>1. CASE v \in [ver : Versions, age : Ages, raced : BOOLEAN]
  BY <1>1, VersionsIn DEF Entry
<1>2. CASE v = Nothing
  BY <1>2, VersionsIn DEF Nothing, Ages
<1> QED
  BY <1>1, <1>2 DEF Entry

\* A request that is over holds nothing.
LEMMA RestRow == Rest \in ReqRows /\ Rest.pc = "rest" /\ ~Rest.lead /\ Rest.got = 0
BY VersionsIn DEF Rest, ReqRows, ReqPcs

\* An empty cache.
LEMMA CacheInitInv == CacheInit => CacheInv
<1> SUFFICES ASSUME CacheInit PROVE CacheInv
  OBVIOUS
<1>1. RequestsOK
  BY RestRow, CacheAssumption DEF CacheInit, RequestsOK, OneLeader, AnswerKnown
<1>2. RevalsOK
  <2>1. reval \in [Tasks -> RevalRows] /\ \A k \in Tasks : reval[k].pc = "none"
          /\ reval[k].got = 0
    BY VersionsIn DEF CacheInit, NoReval, RevalRows
  <2> QED
    BY <2>1 DEF CacheInit, RevalsOK, Live, AnswerKnown
<1>3. EntryOK
  BY VersionsIn DEF CacheInit, EntryOK, Nothing, Entry, NoOldVersion
<1> QED
  BY <1>1, <1>2, <1>3 DEF CacheInv

\* One request goes on as v, and others at most stop to follow a flight.
LEMMA RequestGoes ==
  ASSUME RequestsOK, NEW c \in Clients, NEW v \in ReqRows, UNCHANGED floor,
         req' \in [Clients -> ReqRows], req'[c] = v,
         \A d \in Clients \ {c} : /\ req'[d].pc = req[d].pc /\ req'[d].lead = req[d].lead
                                  /\ req'[d].got = req[d].got /\ req'[d].raced = req[d].raced,
         inFlight' \in Clients \union {NoOne},
         inFlight' = c <=> v.lead,
         \A d \in Clients \ {c} : inFlight' = d <=> inFlight = d,
         v.lead => v.pc \in {"fetch", "reply", "body", "stored"},
         v.pc \in {"reply", "merge", "body", "stored"} => v.got # 0,
         AnswerKnown(v)
  PROVE  RequestsOK'
BY DEF RequestsOK, OneLeader, AnswerKnown

\* A request that does not hold the guard, or keeps it.
LEMMA RequestMoves ==
  ASSUME CacheInv, NEW c \in Clients,
         UNCHANGED <<inFlight, floor>>, NEW v \in ReqRows, req' = [req EXCEPT ![c] = v],
         v.lead = req[c].lead,
         v.lead => v.pc \in {"fetch", "reply", "body", "stored"},
         v.pc \in {"reply", "merge", "body", "stored"} => v.got # 0,
         AnswerKnown(v)
  PROVE  RequestsOK'
<1>1. req \in [Clients -> ReqRows] /\ inFlight \in Clients \union {NoOne}
        /\ (inFlight = c <=> req[c].lead)
  BY DEF CacheInv, RequestsOK, OneLeader
<1> QED
  BY <1>1, RequestGoes DEF CacheInv

\* The guard goes back, and the flight with it.
LEMMA ReleaseMoves ==
  ASSUME CacheInv, NEW c \in Clients, NEW v \in ReqRows, Release(c, v),
         UNCHANGED floor, v.lead => req[c].lead,
         v.pc \in {"reply", "merge", "body", "stored"} => v.got # 0,
         AnswerKnown(v)
  PROVE  RequestsOK'
<1>1. req \in [Clients -> ReqRows] /\ inFlight \in Clients \union {NoOne}
      /\ \A d \in Clients : inFlight = d <=> req[d].lead
  BY DEF CacheInv, RequestsOK, OneLeader
<1>2. CASE req[c].lead
  <2> DEFINE f == Land(c, req)
             w == [v EXCEPT !.lead = FALSE]
  <2>1. \A d \in Clients : /\ f[d] \in ReqRows
                           /\ f[d].pc = req[d].pc /\ f[d].lead = req[d].lead
                           /\ f[d].got = req[d].got /\ f[d].raced = req[d].raced
    <3> TAKE d \in Clients
    <3>1. req[d] \in ReqRows
      BY <1>1
    <3>2. CASE d # c /\ req[d].flight = c
      <4>1. PICK b \in BOOLEAN : f[d] = [req[d] EXCEPT !.flight = NoOne, !.woken = b]
        BY <3>2 DEF Land
      <4> QED
        BY <3>1, <4>1 DEF ReqRows
    <3>3. CASE ~(d # c /\ req[d].flight = c)
      BY <3>1, <3>3 DEF Land
    <3> QED
      BY <3>2, <3>3
  <2>2. f \in [Clients -> ReqRows]
    BY <2>1 DEF Land
  <2>3. w \in ReqRows /\ w.pc = v.pc /\ ~w.lead /\ w.got = v.got /\ w.raced = v.raced
    BY DEF ReqRows
  <2>4. req' = [f EXCEPT ![c] = w] /\ inFlight' = NoOne
    BY <1>2 DEF Release
  <2> HIDE DEF f, w
  <2>5. /\ req' \in [Clients -> ReqRows] /\ req'[c] = w
        /\ \A d \in Clients \ {c} : req'[d] = f[d]
    BY <2>2, <2>3, <2>4
  <2>6. AnswerKnown(w)
    BY <2>3 DEF AnswerKnown
  <2>7. NoOne \notin Clients /\ inFlight = c
    BY <1>1, <1>2, CacheAssumption
  <2> QED
    BY <1>1, <2>1, <2>3, <2>4, <2>5, <2>6, <2>7, RequestGoes DEF CacheInv
<1>3. CASE ~req[c].lead
  BY <1>1, <1>3, RequestMoves, ReqFields DEF Release, ReqRows
<1> QED
  BY <1>2, <1>3

\* What a request stores is from after the last invalidation, or is known not to be.
LEMMA StoreEntry ==
  ASSUME EntryOK, UNCHANGED <<origin, floor, change>>, NEW v, v.got \in Versions,
         v.raced \in BOOLEAN, AnswerKnown(v), entry' \in {entry, Fresh(v.got, v.raced)}
  PROVE  EntryOK'
<1>1. CASE entry' = entry
  BY <1>1 DEF EntryOK, NoOldVersion
<1>2. CASE entry' = Fresh(v.got, v.raced)
  <2>1. entry' \in Entry /\ entry'.ver = v.got /\ entry'.raced = v.raced
    BY <1>2 DEF Fresh, Entry, Ages
  <2> QED
    BY <2>1, VersionsIn DEF EntryOK, NoOldVersion, AnswerKnown
<1> QED
  BY <1>1, <1>2

\* A request that neither stores nor gives its guard back.
LEMMA RequestAlone ==
  ASSUME CacheInv, NEW c \in Clients,
         \/ Request(c) \/ Hit(c) \/ Miss(c) \/ CheckStored(c) \/ Wait(c) \/ WaitEnds(c)
         \/ Answer(c) \/ Record(c)
  PROVE  CacheInv'
<1>1. /\ UNCHANGED <<origin, entry, inFlight, revalidating, reval, change, floor>>
  BY DEF Request, Hit, Miss, CheckStored, Wait, WaitEnds, Answer, Record
<1>2. RevalsOK' /\ EntryOK'
  BY <1>1 DEF CacheInv, RevalsOK, EntryOK, Live, AnswerKnown, NoOldVersion
<1>3. /\ req \in [Clients -> ReqRows] /\ req[c] \in ReqRows /\ AnswerKnown(req[c])
      /\ req[c].lead => req[c].pc \in {"fetch", "reply", "body", "stored"}
      /\ req[c].pc \in {"reply", "merge", "body", "stored"} => req[c].got # 0
  BY DEF CacheInv, RequestsOK
<1>4. req[c].pc \in ReqPcs /\ req[c].lead \in BOOLEAN /\ req[c].got \in 0..MaxVersion
      /\ req[c].stored \in 0..MaxVersion
  BY <1>3, ReqFields
<1>5. AnswerKnown(Rest)
  BY RestRow DEF AnswerKnown
<1>6. ASSUME NEW p \in ReqPcs, Goto(c, p), p # "merge",
             req[c].lead => p \in {"fetch", "reply", "body", "stored"},
             p \in {"reply", "body", "stored"} => req[c].got # 0
      PROVE  RequestsOK'
  <2> DEFINE v == [req[c] EXCEPT !.pc = p]
  <2>1. v \in ReqRows /\ v.pc = p /\ v.lead = req[c].lead /\ v.got = req[c].got
          /\ v.raced = req[c].raced
    BY <1>3 DEF ReqRows
  <2>2. req' = [req EXCEPT ![c] = v]
    BY <1>3, <1>6 DEF Goto
  <2>3. AnswerKnown(v)
    BY <1>3, <2>1 DEF AnswerKnown
  <2> HIDE DEF v
  <2> QED
    BY <1>1, <1>6, <2>1, <2>2, <2>3, RequestMoves
<1>7. CASE Request(c) \/ Wait(c) \/ Record(c)
  <2>0. "find" \in ReqPcs /\ "wait" \in ReqPcs /\ "body" \in ReqPcs
    BY DEF ReqPcs
  <2>1. CASE Request(c)
    <3>1. Goto(c, "find") /\ req[c].pc = "rest"
      BY <2>1 DEF Request
    <3> QED
      BY <1>2, <1>3, <1>6, <2>0, <3>1 DEF CacheInv
  <2>2. CASE Wait(c)
    <3>1. Goto(c, "wait") /\ req[c].pc = "arm"
      BY <2>2 DEF Wait
    <3> QED
      BY <1>2, <1>3, <1>6, <2>0, <3>1 DEF CacheInv
  <2>3. CASE Record(c)
    <3>1. Goto(c, "body") /\ req[c].pc = "reply"
      BY <2>3 DEF Record
    <3> QED
      BY <1>2, <1>3, <1>6, <2>0, <3>1 DEF CacheInv
  <2> QED
    BY <1>7, <2>1, <2>2, <2>3
<1>8. CASE req' = [req EXCEPT ![c] = Rest] /\ req[c].pc \in {"find", "check", "wait"}
  <2>1. Rest.lead = req[c].lead
    BY <1>3, <1>4, <1>8 DEF Rest
  <2> QED
    BY <1>1, <1>2, <1>5, <1>8, <2>1, RestRow, RequestMoves DEF CacheInv
<1>9. CASE Miss(c)
  <2> DEFINE v == [req[c] EXCEPT !.pc = "miss", !.stored = entry.ver]
  <2>1. entry.ver \in 0..MaxVersion
    BY EntryFields DEF CacheInv, EntryOK
  <2>2. v \in ReqRows /\ v.pc = "miss" /\ v.lead = req[c].lead /\ v.got = req[c].got
          /\ v.raced = req[c].raced
    BY <1>3, <2>1 DEF ReqRows, ReqPcs
  <2>3. req' = [req EXCEPT ![c] = v]
    BY <1>3, <1>9 DEF Miss
  <2>4. AnswerKnown(v) /\ ~v.lead
    BY <1>3, <1>9, <2>2 DEF AnswerKnown, Miss
  <2> HIDE DEF v
  <2> QED
    BY <1>1, <1>2, <2>2, <2>3, <2>4, RequestMoves DEF CacheInv
<1>10. CASE CheckStored(c)
  <2>1. CASE req' = [req EXCEPT ![c] = [req[c] EXCEPT !.pc = "arm"]]
    <3> DEFINE v == [req[c] EXCEPT !.pc = "arm"]
    <3>1. v \in ReqRows /\ v.pc = "arm" /\ v.lead = req[c].lead /\ v.got = req[c].got
            /\ v.raced = req[c].raced
      BY <1>3 DEF ReqRows, ReqPcs
    <3>2. AnswerKnown(v) /\ ~v.lead
      BY <1>3, <1>10, <3>1 DEF AnswerKnown, CheckStored
    <3> HIDE DEF v
    <3>3. req' = [req EXCEPT ![c] = v]
      BY <2>1 DEF v
    <3> QED
      BY <1>1, <1>2, <3>1, <3>2, <3>3, RequestMoves DEF CacheInv
  <2> QED
    BY <1>8, <1>10, <2>1 DEF CheckStored
<1>11. CASE WaitEnds(c)
  <2>1. CASE req' = [req EXCEPT ![c] = Fetching(c)]
    <3> DEFINE v == Fetching(c)
    <3>1. v \in ReqRows /\ v.pc = "fetch" /\ ~v.lead /\ v.lead \in BOOLEAN /\ v.got = 0
      BY <1>4, RestRow, CacheAssumption DEF Fetching, ReqRows, ReqPcs, Rest
    <3>2. AnswerKnown(v) /\ ~req[c].lead
      BY <1>3, <1>11, <3>1 DEF AnswerKnown, WaitEnds
    <3> HIDE DEF v
    <3>3. req' = [req EXCEPT ![c] = v]
      BY <2>1 DEF v
    <3> QED
      BY <1>1, <1>2, <1>4, <3>1, <3>2, <3>3, RequestMoves DEF CacheInv
  <2> QED
    BY <1>8, <1>11, <2>1 DEF WaitEnds
<1>12. CASE Answer(c)
  <2> DEFINE v == [req[c] EXCEPT !.pc = "reply", !.got = origin]
  <2>1. origin \in Versions /\ floor \in Versions /\ floor <= origin
    BY DEF CacheInv, EntryOK
  <2>2. v \in ReqRows /\ v.pc = "reply" /\ v.lead = req[c].lead /\ v.got = origin
    BY <1>3, <2>1, VersionsIn DEF ReqRows, ReqPcs
  <2>3. req' = [req EXCEPT ![c] = v]
    BY <1>3, <1>12 DEF Answer
  <2> HIDE DEF v
  <2>4. AnswerKnown(v) /\ v.got # 0
    BY <2>1, <2>2, VersionsIn DEF AnswerKnown
  <2> QED
    BY <1>1, <1>2, <2>2, <2>3, <2>4, RequestMoves DEF CacheInv
<1>13. CASE Hit(c)
  BY <1>8, <1>13 DEF Hit
<1> QED
  BY <1>7, <1>9, <1>10, <1>11, <1>12, <1>13

\* A request takes the flight that nobody leads, or follows the one that somebody does.
LEMMA FlightStep ==
  ASSUME CacheInv, NEW c \in Clients, StartFlight(c)
  PROVE  CacheInv'
<1>1. UNCHANGED <<origin, entry, revalidating, reval, change, floor>> /\ req[c].pc = "miss"
  BY DEF StartFlight
<1>2. RevalsOK' /\ EntryOK'
  BY <1>1 DEF CacheInv, RevalsOK, EntryOK, Live, AnswerKnown, NoOldVersion
<1>3. /\ req \in [Clients -> ReqRows] /\ req[c] \in ReqRows /\ AnswerKnown(req[c])
      /\ inFlight \in Clients \union {NoOne} /\ ~req[c].lead
      /\ \A d \in Clients : inFlight = d <=> req[d].lead
  BY <1>1 DEF CacheInv, RequestsOK, OneLeader
<1>4. CASE inFlight = NoOne
  <2> DEFINE v == [req[c] EXCEPT !.pc = "fetch", !.lead = TRUE]
  <2>1. v \in ReqRows /\ v.pc = "fetch" /\ v.lead /\ v.got = req[c].got
          /\ v.raced = req[c].raced
    BY <1>3 DEF ReqRows, ReqPcs
  <2>2. req' = [req EXCEPT ![c] = v] /\ inFlight' = c
    BY <1>3, <1>4 DEF StartFlight
  <2> HIDE DEF v
  <2>3. AnswerKnown(v)
    BY <1>3, <2>1 DEF AnswerKnown
  <2>4. /\ req' \in [Clients -> ReqRows] /\ req'[c] = v
          /\ \A d \in Clients \ {c} : req'[d] = req[d]
    BY <1>3, <2>1, <2>2
  <2>5. \A d \in Clients \ {c} : inFlight' = d <=> inFlight = d
    BY <1>4, <2>2, CacheAssumption
  <2>6. RequestsOK
    BY DEF CacheInv
  <2>7. RequestsOK'
    BY <1>1, <2>1, <2>2, <2>3, <2>4, <2>5, <2>6, RequestGoes
  <2> QED
    BY <1>2, <2>7 DEF CacheInv
<1>5. CASE inFlight # NoOne
  <2> DEFINE v == [req[c] EXCEPT !.pc = "check", !.flight = inFlight]
  <2>1. v \in ReqRows /\ v.pc = "check" /\ v.lead = req[c].lead /\ v.got = req[c].got
          /\ v.raced = req[c].raced
    BY <1>3 DEF ReqRows, ReqPcs
  <2>2. req' = [req EXCEPT ![c] = v] /\ inFlight' = inFlight
    BY <1>3, <1>5 DEF StartFlight
  <2> HIDE DEF v
  <2>3. AnswerKnown(v)
    BY <1>3, <2>1 DEF AnswerKnown
  <2> QED
    BY <1>1, <1>2, <1>3, <2>1, <2>2, <2>3, RequestMoves DEF CacheInv
<1> QED
  BY <1>4, <1>5

\* The ends of a request that has been to the upstream server.
LEMMA RequestEnding ==
  ASSUME CacheInv, NEW c \in Clients,
         GiveUp(c) \/ NotModified(c) \/ Refresh(c) \/ FinishBody(c) \/ FinishFlight(c)
  PROVE  CacheInv'
<1>1. UNCHANGED <<origin, revalidating, reval, change, floor>>
  BY DEF GiveUp, NotModified, Refresh, FinishBody, FinishFlight
<1>2. RevalsOK'
  BY <1>1 DEF CacheInv, RevalsOK, Live, AnswerKnown
<1>3. /\ req \in [Clients -> ReqRows] /\ req[c] \in ReqRows /\ AnswerKnown(req[c])
      /\ req[c].lead => req[c].pc \in {"fetch", "reply", "body", "stored"}
      /\ req[c].pc \in {"reply", "merge", "body", "stored"} => req[c].got # 0
  BY DEF CacheInv, RequestsOK
<1>4. /\ req[c].pc \in ReqPcs /\ req[c].lead \in BOOLEAN /\ req[c].raced \in BOOLEAN
      /\ req[c].got # 0 => req[c].got \in Versions
  BY <1>3, ReqFields
<1>5. AnswerKnown(Rest)
  BY RestRow DEF AnswerKnown
<1>6. ASSUME UNCHANGED entry PROVE EntryOK'
  BY <1>1, <1>6 DEF CacheInv, EntryOK, NoOldVersion
<1>7. CASE GiveUp(c) \/ FinishFlight(c)
  <2>1. Release(c, Rest) /\ UNCHANGED entry
    BY <1>7 DEF GiveUp, FinishFlight
  <2>2. RequestsOK'
    BY <1>1, <1>5, <2>1, ReleaseMoves, RestRow
  <2> QED
    BY <1>2, <1>6, <2>1, <2>2 DEF CacheInv
<1>8. CASE NotModified(c)
  <2> DEFINE v == [req[c] EXCEPT !.pc = "merge"]
  <2>1. v \in ReqRows /\ v.pc = "merge" /\ v.lead = req[c].lead /\ v.got = req[c].got
          /\ v.raced = req[c].raced
    BY <1>3 DEF ReqRows, ReqPcs
  <2>2. Release(c, v) /\ req[c].pc = "reply" /\ UNCHANGED entry
    BY <1>8 DEF NotModified
  <2> HIDE DEF v
  <2>3. AnswerKnown(v)
    BY <1>3, <2>1 DEF AnswerKnown
  <2>4. RequestsOK'
    BY <1>1, <1>3, <2>1, <2>2, <2>3, ReleaseMoves
  <2> QED
    BY <1>2, <1>6, <2>2, <2>4 DEF CacheInv
<1>9. CASE Refresh(c)
  <2>1. RequestsOK'
    <3>1. Rest.lead = req[c].lead
      BY <1>3, <1>4, <1>9 DEF Rest, Refresh
    <3> QED
      BY <1>1, <1>5, <1>9, <3>1, RestRow, RequestMoves DEF Refresh
  <2>2. EntryOK'
    BY <1>1, <1>3, <1>4, <1>9, StoreEntry DEF Refresh, CacheInv
  <2> QED
    BY <1>2, <2>1, <2>2 DEF CacheInv
<1>10. CASE FinishBody(c)
  <2> DEFINE v == [req[c] EXCEPT !.pc = "stored"]
  <2>1. v \in ReqRows /\ v.pc = "stored" /\ v.lead = req[c].lead /\ v.got = req[c].got
          /\ v.raced = req[c].raced
    BY <1>3 DEF ReqRows, ReqPcs
  <2>2. req' = [req EXCEPT ![c] = v] /\ req[c].pc = "body" /\ UNCHANGED inFlight
    BY <1>3, <1>10 DEF FinishBody, Goto
  <2> HIDE DEF v
  <2>3. AnswerKnown(v)
    BY <1>3, <2>1 DEF AnswerKnown
  <2>4. RequestsOK'
    BY <1>1, <1>3, <2>1, <2>2, <2>3, RequestMoves
  <2>5. EntryOK'
    BY <1>1, <1>3, <1>4, <1>10, StoreEntry DEF FinishBody, CacheInv
  <2> QED
    BY <1>2, <2>4, <2>5 DEF CacheInv
<1> QED
  BY <1>7, <1>8, <1>9, <1>10

\* A stale response is the answer, and one revalidation starts if none runs.
LEMMA HitStaleStep ==
  ASSUME CacheInv, NEW c \in Clients, HitStale(c)
  PROVE  CacheInv'
<1>1. UNCHANGED <<origin, entry, inFlight, change, floor>> /\ req[c].pc = "find"
  BY DEF HitStale
<1>2. EntryOK'
  BY <1>1 DEF CacheInv, EntryOK, NoOldVersion
<1>3. RequestsOK'
  <2>1. req[c].lead \in BOOLEAN /\ ~req[c].lead
    BY <1>1, ReqFields DEF CacheInv, RequestsOK
  <2>2. AnswerKnown(Rest) /\ Rest.lead = req[c].lead
    BY <2>1, RestRow DEF AnswerKnown, Rest
  <2> QED
    BY <1>1, <2>2, RestRow, RequestMoves DEF HitStale
<1>4. RevalsOK'
  <2>1. CASE revalidating
    BY <1>1, <2>1 DEF HitStale, MarkRevalidating, CacheInv, RevalsOK, Live, AnswerKnown
  <2>2. CASE ~revalidating
    <3>1. reval \in [Tasks -> RevalRows] /\ \A k \in Tasks : reval[k].pc = "none"
      BY <2>2 DEF CacheInv, RevalsOK, Live
    <3> DEFINE k == CHOOSE k \in Tasks : reval[k].pc = "none"
    <3>2. k \in Tasks
      BY <3>1 DEF Tasks
    <3>3. reval' = [reval EXCEPT ![k].pc = "fetch"] /\ revalidating' = TRUE
      BY <2>2 DEF HitStale, MarkRevalidating, Spawn
    <3> HIDE DEF k
    <3>4. /\ reval' \in [Tasks -> RevalRows] /\ reval'[k].pc = "fetch"
          /\ reval'[k].got = reval[k].got /\ reval'[k].raced = reval[k].raced
          /\ \A j \in Tasks \ {k} : reval'[j] = reval[j]
      BY <3>1, <3>2, <3>3 DEF RevalRows
    <3>5. Live' = {k}
      BY <3>1, <3>2, <3>4 DEF Live
    <3> QED
      BY <1>1, <3>2, <3>3, <3>4, <3>5 DEF CacheInv, RevalsOK, AnswerKnown
  <2> QED
    BY <2>1, <2>2
<1> QED
  BY <1>2, <1>3, <1>4 DEF CacheInv

\* The one revalidation that runs, and its end.
LEMMA RevalidationStep ==
  ASSUME CacheInv, NEW k \in Tasks, RevalStep(k)
  PROVE  CacheInv'
<1>1. UNCHANGED <<origin, inFlight, req, change, floor>>
  BY DEF RevalStep, RevalAnswer, RevalEnds
<1>2. RequestsOK'
  BY <1>1 DEF CacheInv, RequestsOK, OneLeader, AnswerKnown
<1>3. reval \in [Tasks -> RevalRows] /\ revalidating \in BOOLEAN
      /\ (IF revalidating THEN \E j \in Tasks : Live = {j} ELSE Live = {})
      /\ (reval[k].pc = "reply" => reval[k].got # 0) /\ AnswerKnown(reval[k])
  BY DEF CacheInv, RevalsOK
<1>4. CASE RevalAnswer(k)
  <2>1. origin \in Versions /\ floor \in Versions /\ floor <= origin
    BY DEF CacheInv, EntryOK
  <2>2. /\ reval' \in [Tasks -> RevalRows] /\ reval'[k].pc = "reply" /\ reval'[k].got = origin
        /\ \A j \in Tasks \ {k} : reval'[j] = reval[j]
    BY <1>3, <1>4, <2>1, VersionsIn DEF RevalAnswer, RevalRows
  <2>3. Live' = Live
    BY <1>4, <2>2 DEF Live, RevalAnswer
  <2>4. AnswerKnown(reval[k])' /\ reval'[k].got # 0
    BY <1>1, <2>1, <2>2, VersionsIn DEF AnswerKnown
  <2>5. RevalsOK'
    BY <1>1, <1>4, <2>2, <2>3, <2>4 DEF CacheInv, RevalsOK, RevalAnswer, AnswerKnown
  <2>6. EntryOK'
    BY <1>4 DEF CacheInv, EntryOK, NoOldVersion, RevalAnswer
  <2> QED
    BY <1>2, <2>5, <2>6 DEF CacheInv
<1>5. CASE RevalEnds(k)
  <2>1. /\ reval' \in [Tasks -> RevalRows] /\ reval'[k].pc = "none" /\ reval'[k].got = 0
        /\ \A j \in Tasks \ {k} : reval'[j] = reval[j]
    BY <1>3, <1>5, VersionsIn DEF RevalEnds, RevalRows, NoReval
  <2>2. Live = {k}
    BY <1>3, <1>5 DEF RevalEnds, Live
  <2>3. Live' = {}
    BY <2>1, <2>2 DEF Live
  <2>4. RevalsOK'
    BY <1>1, <1>5, <2>1, <2>3 DEF CacheInv, RevalsOK, RevalEnds, AnswerKnown
  <2>5. EntryOK'
    <3>1. CASE UNCHANGED entry
      BY <1>1, <3>1 DEF CacheInv, EntryOK, NoOldVersion
    <3>2. CASE reval[k].pc = "reply" /\ entry' = Fresh(reval[k].got, reval[k].raced)
      BY <1>1, <1>3, <3>2, RevalFields, StoreEntry DEF CacheInv
    <3> QED
      BY <1>5, <3>1, <3>2 DEF RevalEnds
  <2> QED
    BY <1>2, <2>4, <2>5 DEF CacheInv
<1> QED
  BY <1>4, <1>5 DEF RevalStep

\* An invalidation marks what is on its way.
LEMMA InvalidateStep ==
  ASSUME CacheInv, Invalidate, UNCHANGED <<origin, inFlight, revalidating>>,
         change' \in {"rest", change}
  PROVE  CacheInv'
<1>1. origin \in Versions /\ req \in [Clients -> ReqRows] /\ reval \in [Tasks -> RevalRows]
      /\ floor' = origin
  BY DEF CacheInv, EntryOK, RequestsOK, RevalsOK, Invalidate
<1>2. EntryOK'
  BY <1>1, VersionsIn DEF CacheInv, EntryOK, Invalidate, Nothing, Entry, NoOldVersion
<1>3. \A c \in Clients : /\ req'[c] \in ReqRows /\ req'[c].pc = req[c].pc
                         /\ req'[c].lead = req[c].lead
                         /\ req'[c].got = req[c].got /\ (req[c].got # 0 => req'[c].raced)
  <2> TAKE c \in Clients
  <2>1. req[c] \in ReqRows
    BY <1>1
  <2>2. CASE req[c].got # 0
    <3>1. req'[c] = [req[c] EXCEPT !.raced = TRUE]
      BY <2>2 DEF Invalidate
    <3> QED
      BY <2>1, <3>1 DEF ReqRows
  <2>3. CASE req[c].got = 0
    <3>1. (req[c].got # 0) = FALSE
      BY <2>3
    <3>2. req'[c] = [req[c] EXCEPT !.raced = req[c].got # 0]
      BY DEF Invalidate
    <3>3. req'[c] = [req[c] EXCEPT !.raced = FALSE]
      BY <3>1, <3>2, Zenon
    <3> QED
      BY <2>1, <2>3, <3>3 DEF ReqRows
  <2> QED
    BY <2>2, <2>3
<1>4. RequestsOK'
  <2>1. req' \in [Clients -> ReqRows]
    BY <1>3 DEF Invalidate
  <2> QED
    BY <1>3, <2>1 DEF CacheInv, RequestsOK, OneLeader, AnswerKnown
<1>5. \A k \in Tasks : /\ reval'[k] \in RevalRows /\ reval'[k].pc = reval[k].pc
                       /\ reval'[k].got = reval[k].got /\ (reval[k].got # 0 => reval'[k].raced)
  <2> TAKE k \in Tasks
  <2>1. reval[k] \in RevalRows
    BY <1>1
  <2>2. CASE reval[k].got # 0
    <3>1. reval'[k] = [reval[k] EXCEPT !.raced = TRUE]
      BY <2>2 DEF Invalidate
    <3> QED
      BY <2>1, <3>1 DEF RevalRows
  <2>3. CASE reval[k].got = 0
    <3>1. (reval[k].got # 0) = FALSE
      BY <2>3
    <3>2. reval'[k] = [reval[k] EXCEPT !.raced = reval[k].got # 0]
      BY DEF Invalidate
    <3>3. reval'[k] = [reval[k] EXCEPT !.raced = FALSE]
      BY <3>1, <3>2, Zenon
    <3> QED
      BY <2>1, <2>3, <3>3 DEF RevalRows
  <2> QED
    BY <2>2, <2>3
<1>6. RevalsOK'
  <2>1. reval' \in [Tasks -> RevalRows] /\ Live' = Live
    BY <1>5 DEF Invalidate, Live
  <2> QED
    BY <1>5, <2>1 DEF CacheInv, RevalsOK, AnswerKnown
<1> QED
  BY <1>2, <1>4, <1>6 DEF CacheInv

\* Every step of the cache keeps the invariant.
LEMMA CacheStepInv == CacheInv /\ [CacheNext]_cacheVars => CacheInv'
<1> SUFFICES ASSUME CacheInv, [CacheNext]_cacheVars PROVE CacheInv'
  OBVIOUS
<1>1. ASSUME UNCHANGED <<inFlight, revalidating, req, reval, floor>> PROVE RequestsOK'
        /\ RevalsOK'
  BY <1>1 DEF CacheInv, RequestsOK, RevalsOK, OneLeader, Live, AnswerKnown
<1>2. CASE Age
  <2>1. EntryOK'
    <3>0. entry \in Entry
      BY DEF CacheInv, EntryOK
    <3>1. CASE entry' = Nothing
      BY <1>2, <3>1 DEF Age, CacheInv, EntryOK, Nothing, Entry, NoOldVersion
    <3>2. ASSUME NEW b \in {"swr", "stale"}, entry.age \in {"fresh", "swr"},
            entry' = [entry EXCEPT !.age = b]
          PROVE  EntryOK'
      <4>1. entry' \in Entry /\ entry'.ver = entry.ver /\ entry'.raced = entry.raced
        BY <3>0, <3>2, EntryFields DEF Ages
      <4> QED
        BY <1>2, <4>1 DEF Age, CacheInv, EntryOK, NoOldVersion
    <3> QED
      BY <1>2, <3>1, <3>2 DEF Age
  <2> QED
    BY <1>1, <1>2, <2>1 DEF Age, CacheInv
<1>3. CASE SendChange
  <2>1. EntryOK'
    BY <1>3 DEF SendChange, CacheInv, EntryOK, NoOldVersion
  <2> QED
    BY <1>1, <1>3, <2>1 DEF SendChange, CacheInv
<1>4. CASE ChangeOrigin
  <2>1. EntryOK'
    BY <1>4, CacheAssumption DEF ChangeOrigin, CacheInv, EntryOK, NoOldVersion, Versions
  <2> QED
    BY <1>1, <1>4, <2>1 DEF ChangeOrigin, CacheInv
<1>5. CASE FetchUnsafe
  BY <1>5, InvalidateStep DEF FetchUnsafe
<1>6. CASE Purge
  <2>1. change \in {"rest", "sent", "answered"}
    BY DEF CacheInv, EntryOK
  <2> QED
    BY <1>6, <2>1, InvalidateStep DEF Purge
<1>7. CASE UNCHANGED cacheVars
  <2>1. EntryOK'
    BY <1>7 DEF cacheVars, CacheInv, EntryOK, NoOldVersion
  <2> QED
    BY <1>1, <1>7, <2>1 DEF cacheVars, CacheInv
<1> QED
  BY <1>2, <1>3, <1>4, <1>5, <1>6, <1>7, RequestAlone, FlightStep, RequestEnding,
     HitStaleStep, RevalidationStep DEF CacheNext, OwnStep, UpstreamStep

\* The invariant is the property of the run, and more.
LEMMA CacheInvHolds == CacheInv => OneFlightPerKey
<1> SUFFICES ASSUME CacheInv PROVE OneFlightPerKey
  OBVIOUS
<1>1. CacheTypeOK
  BY DEF CacheInv, RequestsOK, RevalsOK, EntryOK, CacheTypeOK, ReqRows, RevalRows
<1>2. OneRevalidation
  <2>1. CASE revalidating
    BY <2>1, FS_Singleton DEF CacheInv, RevalsOK, OneRevalidation
  <2>2. CASE ~revalidating
    BY <2>2, FS_EmptySet DEF CacheInv, RevalsOK, OneRevalidation
  <2> QED
    BY <2>1, <2>2
<1> QED
  BY <1>1, <1>2 DEF CacheInv, RequestsOK, EntryOK, OneFlightPerKey

\* For any number of clients and revalidations: a key has one request in flight and one
\* revalidation, the flight is in the table exactly while its leader holds it, and the stored
\* response is not from before the last invalidation unless its store raced one (cache.rs).
THEOREM CacheOneFlight == CacheSpec => []OneFlightPerKey
<1>1. CacheInit => CacheInv
  BY CacheInitInv
<1>2. CacheInv /\ [CacheNext]_cacheVars => CacheInv'
  BY CacheStepInv
<1>3. CacheInv => OneFlightPerKey
  BY CacheInvHolds
<1> QED
  BY <1>1, <1>2, <1>3, PTL DEF CacheSpec

-----------------------------------------------------------------------------
(* UdpSessions.  The bound on a table also depends on the packets that have *)
(* found room and not yet inserted their session (RoomCounted); a session belongs *)
(* to the client and the table of its packet (SessionsOwned), who may still insert *)
(* one has the settings of now or is known to be late (OpensCurrent), and a table *)
(* that the port has no more is empty or used by a packet (SessionsUsed).  *)

\* The rows of the packets, and of a table.
PacketRows == [pc : PacketPcs, peer : Peers, settings : 1..MaxSettings, table : TableIds,
               late : BOOLEAN]
TableRows == [Peers -> Packets \union {NoSession}]

\* A session in a table belongs to its client, and a reply task to a packet that has
\* opened a session.
SessionsOwned ==
  /\ \A t \in TableIds, c \in Peers : table[t][c] # NoSession =>
       /\ packet[table[t][c]].peer = c /\ packet[table[t][c]].table = t
       /\ packet[table[t][c]].pc \in {"send", "end", "sent"}
  /\ \A p \in Packets : relay[p] = "run" => packet[p].pc \in {"insert", "send", "end", "sent"}

\* A reply task is that of a session in the table of its packet, or about to be.
RelayListed ==
  \A p \in Packets : relay[p] = "run" =>
    packet[p].pc = "insert" \/ table[packet[p].table][packet[p].peer] = p

\* The port or a packet under way has every table with a session.
SessionsUsed ==
  \A t \in TableIds, c \in Peers : table[t][c] # NoSession =>
    t = port \/ \E q \in Packets : Uses(q, t)

\* A packet that may still insert a session of the port has the settings of now, or is
\* late.
OpensCurrent == \A p \in Packets :
  packet[p].table = port /\ packet[p].pc \in {"look", "open", "connect", "insert"} =>
    packet[p].settings = settings \/ packet[p].late

\* The tables that the port gets with later edits are those of no packet.
TablesPast == \A p \in Packets : packet[p].pc # "new" => packet[p].table <= port

\* The packets that have found room are counted until their session is in the table.
RoomIn(t) ==
  IF most = 0 THEN Size(t) = 0 /\ Opening(t) = {}
  ELSE Size(t) + Cardinality(Opening(t)) <= MaxSessions + most - 1
RoomCounted == \A t \in TableIds : RoomIn(t)

\* The inductive invariant.
UdpInv == /\ UdpTypeOK /\ RelayListed /\ SessionsUsed /\ CurrentSettings
          /\ SessionsOwned /\ OpensCurrent /\ TablesPast /\ RoomCounted

\* The fields of the packets.
LEMMA UdpTypes ==
  ASSUME UdpTypeOK
  PROVE  /\ packet \in [Packets -> PacketRows] /\ table \in [TableIds -> TableRows]
         /\ port \in TableIds /\ port \in Nat /\ TableIds \subseteq Nat
         /\ \A p \in Packets : /\ packet[p].pc \in PacketPcs /\ packet[p].peer \in Peers
                               /\ packet[p].settings \in 1..MaxSettings
                               /\ packet[p].table \in TableIds
                               /\ packet[p].late \in BOOLEAN
                               /\ relay[p] \in {"none", "run", "over"} /\ p # NoSession
         /\ \A t \in TableIds : \A c \in Peers : table[t][c] \in Packets \union {NoSession}
<1>1. port \in TableIds /\ port \in Nat /\ TableIds \subseteq Nat
  BY UdpAssumption DEF UdpTypeOK, TableIds
<1>2. packet \in [Packets -> PacketRows] /\ table \in [TableIds -> TableRows]
  BY DEF UdpTypeOK, PacketRows, TableRows
<1>3. \A t \in TableIds : \A c \in Peers : table[t][c] \in Packets \union {NoSession}
  BY <1>2 DEF TableRows
<1>4. \A p \in Packets : relay[p] \in {"none", "run", "over"} /\ p # NoSession
  BY DEF UdpTypeOK, Packets, NoSession
<1> QED
  BY <1>1, <1>2, <1>3, <1>4 DEF PacketRows

\* The two sets that the bound is about are finite.
LEMMA UdpFinite ==
  ASSUME NEW t \in TableIds
  PROVE  /\ IsFiniteSet(Opening(t)) /\ Cardinality(Opening(t)) \in Nat
         /\ IsFiniteSet({c \in Peers : table[t][c] # NoSession}) /\ Size(t) \in Nat
<1>1. IsFiniteSet(Packets)
  BY UdpAssumption, FS_Interval DEF Packets
<1>2. IsFiniteSet(Opening(t))
  BY <1>1, FS_Subset DEF Opening
<1>3. IsFiniteSet({c \in Peers : table[t][c] # NoSession})
  BY UdpAssumption, FS_Subset
<1> QED
  BY <1>2, <1>3, FS_CardinalityType DEF Size

\* A port without sessions.
LEMMA UdpInitInv == UdpInit => UdpInv
<1> SUFFICES ASSUME UdpInit PROVE UdpInv
  OBVIOUS
<1>1. packet \in [Packets -> PacketRows] /\ \A p \in Packets : packet[p].pc = "new"
  <2>1. (CHOOSE c \in Peers : TRUE) \in Peers /\ 1 \in 1..MaxSettings /\ 0 \in TableIds
    BY UdpAssumption DEF TableIds
  <2> QED
    BY <2>1 DEF UdpInit, PacketRows, PacketPcs
<1>2. UdpTypeOK
  <2>1. settings \in 1..MaxSettings /\ port \in TableIds /\ most \in 0..MaxPackets
    BY UdpAssumption DEF UdpInit, TableIds
  <2>2. table \in [TableIds -> [Peers -> Packets \union {NoSession}]]
    BY DEF UdpInit, NoSessions
  <2> QED
    BY <1>1, <2>1, <2>2 DEF UdpInit, UdpTypeOK, PacketRows
<1>3. \A t \in TableIds : \A c \in Peers : table[t][c] = NoSession
  BY DEF UdpInit, NoSessions
<1>4. RoomCounted
  <2> SUFFICES ASSUME NEW t \in TableIds PROVE Size(t) = 0 /\ Opening(t) = {}
    BY DEF RoomCounted, RoomIn, UdpInit
  <2>1. {c \in Peers : table[t][c] # NoSession} = {} /\ Opening(t) = {}
    BY <1>1, <1>3 DEF Opening
  <2> QED
    BY <2>1, FS_EmptySet DEF Size
<1>5. RelayListed
  BY DEF UdpInit, RelayListed
<1>6. SessionsUsed /\ CurrentSettings /\ SessionsOwned
  BY <1>2, <1>3, UdpTypes DEF UdpInit, SessionsUsed, CurrentSettings, SessionsOwned
<1>7. OpensCurrent /\ TablesPast
  BY <1>1 DEF OpensCurrent, TablesPast
<1> QED
  BY <1>2, <1>4, <1>5, <1>6, <1>7 DEF UdpInv

\* The packet p goes to pc, and no other packet moves.
PacketMoves(p, pc) ==
  /\ packet' \in [Packets -> PacketRows]
  /\ \A q \in Packets \ {p} : packet'[q] = packet[q]
  /\ packet'[p].pc = pc /\ packet'[p].peer = packet[p].peer
  /\ packet'[p].settings = packet[p].settings /\ packet'[p].late = packet[p].late
  /\ packet'[p].table = packet[p].table

\* PacketAt moves the task of one packet.
LEMMA AtPacketMoves ==
  ASSUME UdpTypeOK, NEW p \in Packets, NEW pc \in PacketPcs, PacketAt(p, pc)
  PROVE  PacketMoves(p, pc)
BY UdpTypes DEF PacketAt, PacketMoves, PacketRows

\* A packet under way that goes on uses the tables as before.
LEMMA UsesKept ==
  ASSUME NEW p \in Packets, NEW pc \in PacketPcs \ {"new", "sent"}, PacketMoves(p, pc),
         packet[p].pc \notin {"new", "sent"}
  PROVE  \A q \in Packets, t \in TableIds : Uses(q, t)' <=> Uses(q, t)
BY DEF PacketMoves, Uses

\* The sets that the bound counts, when they do not grow.
LEMMA RoomKept ==
  ASSUME NEW t \in TableIds, RoomIn(t), UNCHANGED most, most \in Nat,
         Opening(t)' \subseteq Opening(t),
         {c \in Peers : table'[t][c] # NoSession} \subseteq {c \in Peers : table[t][c] # NoSession}
  PROVE  RoomIn(t)'
<1>1. IsFiniteSet(Opening(t)') /\ Cardinality(Opening(t)') <= Cardinality(Opening(t))
        /\ Cardinality(Opening(t)') \in Nat
  BY UdpFinite, FS_Subset, FS_CardinalityType
<1>2. Size(t)' <= Size(t) /\ Size(t)' \in Nat
  BY UdpFinite, FS_Subset, FS_CardinalityType DEF Size
<1>3. Opening(t) = {} => Opening(t)' = {}
  OBVIOUS
<1>4. Size(t) \in Nat /\ Cardinality(Opening(t)) \in Nat /\ MaxSessions \in Nat
  BY UdpFinite, UdpAssumption
<1>5. CASE most = 0
  <2>1. Size(t) = 0 /\ Opening(t) = {} /\ most' = 0
    BY <1>5 DEF RoomIn
  <2> QED
    BY <1>2, <1>3, <2>1 DEF RoomIn
<1>6. CASE most # 0
  <2>1. Size(t) + Cardinality(Opening(t)) <= MaxSessions + most - 1 /\ most' # 0
    BY <1>6 DEF RoomIn
  <2>2. Size(t)' + Cardinality(Opening(t)') <= MaxSessions + most' - 1
    BY <1>1, <1>2, <1>4, <2>1
  <2> QED
    BY <2>1, <2>2 DEF RoomIn
<1> QED
  BY <1>5, <1>6

\* The bound of every table, when the step adds no session and no packet that opens one.
LEMMA RoomsKept ==
  ASSUME UdpInv, UNCHANGED most,
         \A t \in TableIds : Opening(t)' \subseteq Opening(t),
         \A t \in TableIds : \A c \in Peers : table'[t][c] \in {table[t][c], NoSession}
  PROVE  RoomCounted'
<1>1. most \in Nat /\ RoomCounted
  BY UdpAssumption DEF UdpInv, UdpTypeOK
<1> QED
  BY <1>1, RoomKept DEF RoomCounted

\* A packet that moves without a session of its own.
LEMMA QuietStep ==
  ASSUME UdpInv, NEW p \in Packets,
         Look(p) \/ NotConnected(p) \/ Send(p)
  PROVE  UdpInv'
<1>0. UdpTypeOK
  BY DEF UdpInv
<1>1. PICK pc \in {"send", "open", "end"} : PacketMoves(p, pc)
        /\ (pc = "open" => packet[p].pc = "look")
  <2>1. {"send", "open", "end"} \subseteq PacketPcs
    BY DEF PacketPcs
  <2>2. CASE Look(p)
    BY <1>0, <2>1, <2>2, AtPacketMoves DEF Look
  <2> QED
    BY <1>0, <2>1, <2>2, AtPacketMoves DEF NotConnected, Send
<1>2. UNCHANGED <<settings, port, table, relay, most>>
        /\ packet[p].pc \in {"look", "connect", "send"}
  BY DEF Look, NotConnected, Send
<1>3. UdpTypeOK'
  BY <1>0, <1>1, <1>2 DEF UdpTypeOK, PacketRows, PacketMoves
<1>4. RoomCounted'
  <2>1. \A t \in TableIds : Opening(t)' \subseteq Opening(t)
    BY <1>1, <1>2 DEF Opening, PacketMoves
  <2> QED
    BY <1>2, <2>1, RoomsKept
<1>5. SessionsUsed'
  <2>1. \A q \in Packets, t \in TableIds : Uses(q, t)' <=> Uses(q, t)
    BY <1>1, <1>2, UsesKept DEF PacketPcs
  <2> QED
    BY <1>2, <2>1 DEF UdpInv, SessionsUsed
<1> USE <1>0, <1>1, <1>2, UdpTypes DEF PacketMoves, UdpInv
<1>6. RelayListed'
  BY DEF RelayListed
<1>7. CurrentSettings'
  BY DEF CurrentSettings
<1>8. SessionsOwned'
  BY DEF SessionsOwned
<1>9. OpensCurrent' /\ TablesPast'
  BY DEF OpensCurrent, TablesPast
<1> QED
  BY <1>3, <1>4, <1>5, <1>6, <1>7, <1>8, <1>9

\* A packet comes: its task sees the settings and the table of now.
LEMMA ReceiveStep ==
  ASSUME UdpInv, NEW p \in Packets, NEW c \in Peers, Receive(p, c)
  PROVE  UdpInv'
<1>0. UdpTypeOK
  BY DEF UdpInv
<1>1. /\ packet' \in [Packets -> PacketRows] /\ \A q \in Packets \ {p} : packet'[q] = packet[q]
      /\ packet'[p].pc = "look" /\ packet'[p].settings = settings /\ packet'[p].table = port
  BY <1>0, UdpTypes DEF Receive, PacketRows, PacketPcs, UdpTypeOK
<1>2. UNCHANGED <<settings, port, table, relay, most>> /\ packet[p].pc = "new"
  BY DEF Receive
<1>3. UdpTypeOK'
  BY <1>0, <1>1, <1>2 DEF UdpTypeOK, PacketRows
<1>4. RoomCounted'
  <2>1. \A t \in TableIds : Opening(t)' \subseteq Opening(t)
    BY <1>1, <1>2 DEF Opening
  <2> QED
    BY <1>2, <2>1, RoomsKept
<1> USE <1>0, <1>1, <1>2, UdpTypes DEF UdpInv
<1>5. SessionsUsed'
  <2>1. \A q \in Packets, t \in TableIds : Uses(q, t) => Uses(q, t)'
    BY DEF Uses
  <2> QED
    BY <2>1 DEF SessionsUsed
<1>6. RelayListed'
  BY DEF RelayListed, SessionsOwned
<1>7. CurrentSettings'
  BY DEF CurrentSettings, SessionsOwned
<1>8. SessionsOwned'
  BY DEF SessionsOwned
<1>9. OpensCurrent' /\ TablesPast'
  BY DEF OpensCurrent, TablesPast
<1> QED
  BY <1>3, <1>4, <1>5, <1>6, <1>7, <1>8, <1>9

\* Only sessions that have ended leave the table, and a packet goes on to connect only
\* when there is room, counted against those that connect beside it.
LEMMA OpenStep ==
  ASSUME UdpInv, NEW p \in Packets, OpenSession(p)
  PROVE  UdpInv'
<1>a. UdpTypeOK
  BY DEF UdpInv
<1>b. PICK t \in TableIds : packet[p].table = t
  BY <1>a, UdpTypes
<1> DEFINE size == Cardinality({c \in Peers : table'[t][c] # NoSession})
           pc == IF size >= MaxSessions THEN "end" ELSE "connect"
<1>0. UdpTypeOK /\ t \in TableIds
  BY <1>a
<1>1. /\ table' \in [TableIds -> TableRows] /\ table'[t] = Kept(t)
      /\ \A u \in TableIds \ {t} : table'[u] = table[u]
      /\ \A c \in Peers : table'[t][c] = IF Open(table[t][c]) THEN table[t][c] ELSE NoSession
  <2>1. Kept(t) \in TableRows
    BY <1>0, UdpTypes DEF Kept, TableRows
  <2>2. table' = [table EXCEPT ![t] = Kept(t)] /\ table \in [TableIds -> TableRows]
    BY <1>0, <1>b, UdpTypes DEF OpenSession
  <2> QED
    BY <1>0, <2>1, <2>2 DEF Kept
<1>2. PacketMoves(p, pc)
  <2>1. PacketAt(p, pc) /\ pc \in PacketPcs
    BY <1>1, <1>b DEF OpenSession, PacketPcs
  <2> HIDE DEF pc
  <2> QED
    BY <1>0, <2>1, AtPacketMoves
<1>3. UNCHANGED <<settings, port, relay>> /\ packet[p].pc = "open"
  BY DEF OpenSession
<1>4. most' = IF size < MaxSessions /\ Cardinality(Opening(t)) >= most
             THEN Cardinality(Opening(t)) + 1 ELSE most
  BY <1>1, <1>b DEF OpenSession
<1>5. /\ {c \in Peers : table'[t][c] # NoSession} \subseteq {c \in Peers : table[t][c] # NoSession}
      /\ size = Size(t)' /\ size \in Nat
  <2>1. {c \in Peers : table'[t][c] # NoSession} \subseteq {c \in Peers : table[t][c] # NoSession}
    BY <1>1
  <2>2. Size(t)' = size
    BY DEF Size
  <2>3. size \in Nat
    BY <1>0, <2>1, UdpFinite, FS_Subset, FS_CardinalityType
  <2> QED
    BY <2>1, <2>2, <2>3
<1> HIDE DEF size
<1>6. most \in Nat /\ RoomCounted
  BY <1>0, UdpAssumption DEF UdpInv, UdpTypeOK
<1>7. \A u \in TableIds \ {t} : Opening(u)' = Opening(u) /\ Size(u)' = Size(u)
  <2> SUFFICES ASSUME NEW u \in TableIds, u # t
               PROVE  Opening(u)' = Opening(u) /\ Size(u)' = Size(u)
    OBVIOUS
  <2>1. Opening(u)' = Opening(u)
    BY <1>2, <1>b DEF PacketMoves, Opening
  <2> QED
    BY <1>1, <2>1 DEF Size
<1>8. RoomIn(t)' /\ most' \in 0..MaxPackets /\ most' >= most
  <2>1. CASE size >= MaxSessions
    <3>1. Opening(t)' \subseteq Opening(t)
      BY <1>2, <2>1 DEF PacketMoves, Opening, pc
    <3>2. most' = most
      BY <1>4, <1>5, <2>1, UdpAssumption
    <3>3. RoomIn(t)
      BY <1>0, <1>6 DEF RoomCounted
    <3> QED
      BY <1>0, <1>5, <1>6, <3>1, <3>2, <3>3, RoomKept DEF UdpTypeOK
  <2>2. CASE ~(size >= MaxSessions)
    <3>1. Opening(t)' = Opening(t) \union {p} /\ p \notin Opening(t)
      BY <1>2, <1>3, <1>b, <2>2 DEF PacketMoves, Opening, pc
    <3>2. Cardinality(Opening(t)') = Cardinality(Opening(t)) + 1 /\ Opening(t)' # {}
      BY <1>0, <3>1, UdpFinite, FS_AddElement
    <3>3. Cardinality(Opening(t)') <= MaxPackets
      <4>1. IsFiniteSet(1..MaxPackets) /\ Cardinality(1..MaxPackets) = MaxPackets
        BY UdpAssumption, FS_Interval
      <4>2. Opening(t)' \subseteq 1..MaxPackets
        BY DEF Opening, Packets
      <4> QED
        BY <4>1, <4>2, FS_Subset
    <3>4. most' >= Cardinality(Opening(t)') /\ most' # 0 /\ most' \in 0..MaxPackets
            /\ most' >= most
      <4>a. MaxPackets \in Nat /\ MaxSessions \in Nat
        BY UdpAssumption
      <4>b. Cardinality(Opening(t)) \in Nat /\ most \in 0..MaxPackets
        BY <1>0, UdpFinite DEF UdpTypeOK
      <4>c. size < MaxSessions
        BY <1>5, <2>2, <4>a
      <4>1. /\ Cardinality(Opening(t)) \in Nat /\ most \in 0..MaxPackets
            /\ MaxPackets \in Nat /\ MaxSessions \in Nat /\ size < MaxSessions
        BY <4>a, <4>b, <4>c
      <4>2. CASE Cardinality(Opening(t)) >= most
        <5>1. most' = Cardinality(Opening(t)) + 1
          BY <1>4, <4>1, <4>2
        <5> QED
          BY <3>2, <3>3, <4>1, <4>2, <5>1
      <4>3. CASE ~(Cardinality(Opening(t)) >= most)
        <5>1. most' = most
          BY <1>4, <4>3
        <5> QED
          BY <3>2, <3>3, <4>1, <4>3, <5>1
      <4> QED
        BY <4>2, <4>3
    <3>5. Size(t)' + Cardinality(Opening(t)') <= MaxSessions + most' - 1
      <4>1. /\ Cardinality(Opening(t)') \in Nat /\ MaxSessions \in Nat /\ most' \in Nat
            /\ Size(t)' \in Nat /\ Size(t)' < MaxSessions
        <5>1. MaxSessions \in Nat /\ MaxPackets \in Nat /\ Cardinality(Opening(t)) \in Nat
          BY <1>0, UdpFinite, UdpAssumption
        <5>2. Size(t)' \in Nat /\ Size(t)' < MaxSessions
          BY <1>5, <2>2, <5>1
        <5> QED
          BY <3>2, <3>4, <5>1, <5>2
      <4> QED
        BY <3>4, <4>1
    <3> QED
      BY <3>4, <3>5 DEF RoomIn
  <2> QED
    BY <2>1, <2>2
<1>9. RoomCounted'
  <2> SUFFICES ASSUME NEW u \in TableIds PROVE RoomIn(u)'
    BY DEF RoomCounted
  <2>1. CASE u = t
    BY <1>8, <2>1
  <2>2. CASE u # t
    <3>1. /\ Size(u) \in Nat /\ Cardinality(Opening(u)) \in Nat /\ MaxSessions \in Nat
          /\ MaxPackets \in Nat /\ RoomIn(u) /\ Opening(u)' = Opening(u) /\ Size(u)' = Size(u)
      BY <1>6, <1>7, <2>2, UdpFinite, UdpAssumption DEF RoomCounted
    <3>2. CASE most = 0
      <4>1. Size(u)' = 0 /\ Opening(u)' = {}
        BY <3>1, <3>2 DEF RoomIn
      <4>2. Cardinality(Opening(u)') = 0
        BY <4>1, FS_EmptySet
      <4>3. most' # 0 => Size(u)' + Cardinality(Opening(u)') <= MaxSessions + most' - 1
        BY <1>8, <3>1, <4>1, <4>2
      <4> QED
        BY <4>1, <4>3 DEF RoomIn
    <3>3. CASE most # 0
      <4>1. Size(u) + Cardinality(Opening(u)) <= MaxSessions + most - 1
        BY <3>1, <3>3 DEF RoomIn
      <4>2. most' # 0 /\ Size(u)' + Cardinality(Opening(u)') <= MaxSessions + most' - 1
        BY <1>6, <1>8, <3>1, <3>3, <4>1
      <4> QED
        BY <4>2 DEF RoomIn
    <3> QED
      BY <3>2, <3>3
  <2> QED
    BY <2>1, <2>2
<1>10. UdpTypeOK'
  BY <1>0, <1>1, <1>2, <1>3, <1>8 DEF UdpTypeOK, PacketRows, PacketMoves, TableRows
<1>11. \A u \in TableIds : \A c \in Peers : table'[u][c] # NoSession =>
         table'[u][c] = table[u][c]
  BY <1>1
<1>12. SessionsUsed'
  <2>1. \A q \in Packets, u \in TableIds : Uses(q, u)' <=> Uses(q, u)
    BY <1>2, <1>3, UsesKept DEF PacketPcs, pc
  <2> QED
    BY <1>3, <1>11, <2>1 DEF UdpInv, SessionsUsed
<1>13. RelayListed'
  <2> SUFFICES ASSUME NEW q \in Packets, relay[q] = "run", packet'[q].pc # "insert"
               PROVE  table'[packet[q].table][packet[q].peer] = q
    BY <1>2, <1>3 DEF RelayListed, PacketMoves
  <2>1. q # p /\ packet[q].pc # "insert"
    BY <1>2, <1>3 DEF UdpInv, SessionsOwned, PacketMoves
  <2>2. table[packet[q].table][packet[q].peer] = q
    BY <2>1 DEF UdpInv, RelayListed
  <2>3. packet[q].table \in TableIds /\ packet[q].peer \in Peers /\ q # NoSession
    BY <1>0, UdpTypes
  <2> QED
    BY <1>1, <2>2, <2>3 DEF Open
<1> USE <1>0, <1>2, <1>3, <1>11, UdpTypes DEF PacketMoves, UdpInv, pc
<1>14. CurrentSettings'
  BY DEF CurrentSettings
<1>15. SessionsOwned'
  BY DEF SessionsOwned
<1>16. OpensCurrent' /\ TablesPast'
  BY DEF OpensCurrent, TablesPast
<1> QED
  BY <1>9, <1>10, <1>12, <1>13, <1>14, <1>15, <1>16

\* A session is inserted by the packet that has opened it, and stops the one before it.
LEMMA SessionStep ==
  ASSUME UdpInv, NEW p \in Packets, Connected(p) \/ InsertSession(p) \/ RelayEnds(p)
  PROVE  UdpInv'
<1>0. UdpTypeOK
  BY DEF UdpInv
<1>1. CASE Connected(p)
  <2>1. PacketMoves(p, "insert")
    BY <1>0, <1>1, AtPacketMoves DEF Connected, PacketPcs
  <2>2. UNCHANGED <<settings, port, table, most>> /\ packet[p].pc = "connect"
          /\ relay' = [relay EXCEPT ![p] = "run"]
    BY <1>1 DEF Connected
  <2>3. UdpTypeOK'
    BY <1>0, <2>1, <2>2 DEF UdpTypeOK, PacketRows, PacketMoves
  <2>4. RoomCounted'
    <3>1. \A t \in TableIds : Opening(t)' \subseteq Opening(t)
      BY <2>1, <2>2 DEF Opening, PacketMoves
    <3> QED
      BY <2>2, <3>1, RoomsKept
  <2>5. SessionsUsed'
    <3>1. \A q \in Packets, t \in TableIds : Uses(q, t)' <=> Uses(q, t)
      BY <2>1, <2>2, UsesKept DEF PacketPcs
    <3> QED
      BY <2>2, <3>1 DEF UdpInv, SessionsUsed
  <2>6. relay \in [Packets -> {"none", "run", "over"}]
    BY <1>0 DEF UdpTypeOK
  <2> USE <1>0, <2>1, <2>2, <2>6, UdpTypes DEF PacketMoves, UdpInv
  <2>7. RelayListed'
    BY DEF RelayListed
  <2>8. CurrentSettings'
    BY DEF CurrentSettings
  <2>9. SessionsOwned'
    BY DEF SessionsOwned
  <2>10. OpensCurrent' /\ TablesPast'
    BY DEF OpensCurrent, TablesPast
  <2> QED
    BY <2>3, <2>4, <2>5, <2>7, <2>8, <2>9, <2>10
<1>2. CASE InsertSession(p)
  <2>a. PICK t \in TableIds, c \in Peers : packet[p].table = t /\ packet[p].peer = c
    BY <1>0, UdpTypes
  <2>1. PacketMoves(p, "send")
    BY <1>0, <1>2, AtPacketMoves DEF InsertSession, PacketPcs
  <2>2. UNCHANGED <<settings, port, most>> /\ packet[p].pc = "insert"
    BY <1>2 DEF InsertSession
  <2>3. /\ table' \in [TableIds -> TableRows] /\ table'[t][c] = p
        /\ \A b \in Peers \ {c} : table'[t][b] = table[t][b]
        /\ \A u \in TableIds \ {t} : table'[u] = table[u]
    <3>1. table' = [table EXCEPT ![t][c] = p] /\ table \in [TableIds -> TableRows]
      BY <1>0, <1>2, <2>a, UdpTypes DEF InsertSession
    <3> QED
      BY <3>1 DEF TableRows
  <2>4. /\ relay' \in [Packets -> {"none", "run", "over"}]
        /\ \A q \in Packets : relay'[q] = IF q = table[t][c]
             /\ relay[q] = "run" THEN "over" ELSE relay[q]
    BY <1>0, <1>2, <2>a, UdpTypes DEF InsertSession, Abort
  <2>5. UdpTypeOK'
    BY <1>0, <2>1, <2>2, <2>3, <2>4 DEF UdpTypeOK, PacketRows, PacketMoves, TableRows
  <2>6. RoomCounted'
    <3> DEFINE S == {b \in Peers : table[t][b] # NoSession}
    <3>1. Opening(t) = Opening(t)' \union {p} /\ p \notin Opening(t)' /\ p \in Opening(t)
      BY <2>1, <2>2, <2>a DEF Opening, PacketMoves
    <3>2. IsFiniteSet(Opening(t)') /\ Cardinality(Opening(t)') \in Nat
      BY <3>1, UdpFinite, FS_Subset, FS_CardinalityType
    <3>3. Cardinality(Opening(t)) = Cardinality(Opening(t)') + 1
      BY <3>1, <3>2, FS_AddElement
    <3>4. {b \in Peers : table'[t][b] # NoSession} \subseteq S \union {c}
      BY <2>3
    <3>5. Cardinality(S \union {c}) <= Size(t) + 1 /\ IsFiniteSet(S \union {c})
            /\ Cardinality(S \union {c}) \in Nat
      <4>1. IsFiniteSet(S) /\ Cardinality(S) = Size(t) /\ Size(t) \in Nat
        BY UdpFinite DEF Size
      <4> HIDE DEF S
      <4>2. IsFiniteSet(S \union {c})
              /\ Cardinality(S \union {c}) = IF c \in S THEN Cardinality(S) ELSE Cardinality(S) + 1
        BY <4>1, FS_AddElement
      <4> QED
        BY <4>1, <4>2
    <3>6. Size(t)' <= Size(t) + 1 /\ Size(t)' \in Nat
      <4>1. Size(t)' = Cardinality({b \in Peers : table'[t][b] # NoSession})
        BY DEF Size
      <4>2. IsFiniteSet({b \in Peers : table'[t][b] # NoSession})
            /\ Cardinality({b \in Peers : table'[t][b] # NoSession}) <= Cardinality(S \union {c})
        BY <3>4, <3>5, FS_Subset
      <4>3. Size(t)' \in Nat /\ Size(t)' <= Cardinality(S \union {c}) /\ Size(t) \in Nat
        BY <4>1, <4>2, UdpFinite, FS_CardinalityType
      <4> QED
        BY <4>3, <3>5
    <3>7. RoomIn(t) /\ most # 0 /\ most \in Nat
      <4>1. RoomIn(t) /\ most \in Nat
        BY <1>0, UdpAssumption DEF UdpInv, RoomCounted, UdpTypeOK
      <4> QED
        BY <3>1, <4>1 DEF RoomIn
    <3>8. RoomIn(t)'
      <4>1. Size(t) + Cardinality(Opening(t)) <= MaxSessions + most - 1 /\ most' = most
        BY <2>2, <3>7 DEF RoomIn
      <4>2. Size(t) \in Nat /\ MaxSessions \in Nat
        BY UdpFinite, UdpAssumption
      <4>3. Size(t)' + Cardinality(Opening(t)') <= MaxSessions + most' - 1
        BY <3>2, <3>3, <3>6, <3>7, <4>1, <4>2
      <4> QED
        BY <3>7, <4>1, <4>3 DEF RoomIn
    <3>9. ASSUME NEW u \in TableIds, u # t PROVE RoomIn(u)'
      <4>1. Opening(u)' = Opening(u)
        BY <2>1, <2>2, <2>a, <3>9 DEF Opening, PacketMoves
      <4>2. {b \in Peers : table'[u][b] # NoSession} = {b \in Peers : table[u][b] # NoSession}
        BY <2>3, <3>9
      <4>3. RoomIn(u)
        BY DEF UdpInv, RoomCounted
      <4> QED
        BY <2>2, <3>7, <4>1, <4>2, <4>3, RoomKept
    <3> QED
      BY <3>8, <3>9 DEF RoomCounted
  <2>7. SessionsUsed'
    <3>1. \A q \in Packets, u \in TableIds : Uses(q, u)' <=> Uses(q, u)
      BY <2>1, <2>2, UsesKept DEF PacketPcs
    <3>2. Uses(p, t)
      BY <2>2, <2>a DEF Uses
    <3>3. ASSUME NEW u \in TableIds, NEW b \in Peers, table'[u][b] # NoSession
          PROVE  u = port' \/ \E q \in Packets : Uses(q, u)'
      <4>1. CASE u = t
        BY <3>1, <3>2, <4>1
      <4>2. CASE u # t
        BY <2>2, <2>3, <3>1, <3>3, <4>2 DEF UdpInv, SessionsUsed
      <4> QED
        BY <4>1, <4>2
    <3> QED
      BY <3>3 DEF SessionsUsed
  <2>8. RelayListed'
    <3> SUFFICES ASSUME NEW q \in Packets, relay'[q] = "run", packet'[q].pc # "insert"
                 PROVE  table'[packet'[q].table][packet'[q].peer] = q
      BY DEF RelayListed
    <3>1. CASE q = p
      BY <2>1, <2>3, <2>a, <3>1 DEF PacketMoves
    <3>2. CASE q # p
      <4>1. relay[q] = "run" /\ q # table[t][c] /\ packet'[q] = packet[q]
        BY <2>1, <2>4, <3>2 DEF PacketMoves
      <4>2. table[packet[q].table][packet[q].peer] = q
        BY <4>1 DEF UdpInv, RelayListed
      <4>3. packet[q].table \in TableIds /\ packet[q].peer \in Peers
        BY <1>0, UdpTypes
      <4> QED
        BY <2>3, <4>1, <4>2, <4>3
    <3> QED
      BY <3>1, <3>2
  <2>9. \A u \in TableIds : \A b \in Peers : table'[u][b] # table[u][b] =>
          u = t /\ b = c /\ table'[u][b] = p
    BY <2>3
  <2> USE <1>0, <2>1, <2>2, <2>9, <2>a, UdpTypes DEF PacketMoves, UdpInv
  <2>10. CurrentSettings'
    BY DEF CurrentSettings, OpensCurrent
  <2>11. SessionsOwned'
    BY <2>4 DEF SessionsOwned
  <2>12. OpensCurrent' /\ TablesPast'
    BY DEF OpensCurrent, TablesPast
  <2> QED
    BY <2>5, <2>6, <2>7, <2>8, <2>10, <2>11, <2>12
<1>3. CASE RelayEnds(p)
  <2>1. UNCHANGED <<settings, port, table, packet, most>> /\ relay' = [relay EXCEPT ![p] = "over"]
    BY <1>3 DEF RelayEnds
  <2>2. UdpTypeOK'
    BY <1>0, <2>1 DEF UdpTypeOK
  <2>3. \A q \in Packets : relay'[q] = "run" => relay[q] = "run"
    BY <1>0, <2>1 DEF UdpTypeOK
  <2>4. RoomCounted'
    BY <2>1 DEF UdpInv, RoomCounted, RoomIn, Opening, Size
  <2> QED
    BY <2>1, <2>2, <2>3, <2>4 DEF UdpInv, RelayListed, CurrentSettings, SessionsOwned,
       OpensCurrent, TablesPast, SessionsUsed, Uses
<1> QED
  BY <1>1, <1>2, <1>3

\* The tables T are cleared: they have no session, and every task of one of them stops.
Cleared(T) ==
  /\ table' \in [TableIds -> TableRows] /\ relay' \in [Packets -> {"none", "run", "over"}]
  /\ \A t \in TableIds : table'[t] = IF t \in T THEN NoSessions ELSE table[t]
  /\ \A q \in Packets : relay'[q] = "run" =>
       relay[q] = "run" /\ \A t \in T : \A c \in Peers : table[t][c] # q

\* Clear does that.
LEMMA ClearClears ==
  ASSUME UdpTypeOK, NEW T \in SUBSET TableIds, Clear(T)
  PROVE  /\ Cleared(T)
         /\ \A t \in TableIds : \A c \in Peers : table'[t][c] \in {table[t][c], NoSession}
<1>1. NoSessions \in TableRows
  BY DEF NoSessions, TableRows
<1>2. /\ table' = [t \in TableIds |-> IF t \in T THEN NoSessions ELSE table[t]]
      /\ table \in [TableIds -> TableRows]
  BY UdpTypes DEF Clear
<1>3. relay' \in [Packets -> {"none", "run", "over"}]
  BY DEF Clear, Abort, UdpTypeOK
<1>4. ASSUME NEW q \in Packets, relay'[q] = "run"
      PROVE  relay[q] = "run" /\ \A t \in T : \A c \in Peers : table[t][c] # q
  <2>1. relay[q] = "run" /\ q \notin UNION {{table[t][c] : c \in Peers} : t \in T}
    BY <1>4 DEF Clear, Abort
  <2> QED
    BY <2>1
<1>5. \A t \in TableIds : \A c \in Peers : table'[t][c] \in {table[t][c], NoSession}
  BY <1>2 DEF NoSessions
<1> QED
  BY <1>1, <1>2, <1>3, <1>4, <1>5 DEF Cleared

\* A reply task that runs on after a clearing is listed as before.
LEMMA RelaysCleared ==
  ASSUME UdpInv, NEW T \in SUBSET TableIds, Cleared(T),
         \A q \in Packets : /\ packet'[q].table = packet[q].table
                            /\ packet'[q].peer = packet[q].peer
                            /\ packet[q].pc = "insert" => packet'[q].pc = "insert"
  PROVE  RelayListed'
<1> SUFFICES ASSUME NEW q \in Packets, relay'[q] = "run", packet'[q].pc # "insert"
             PROVE  table'[packet'[q].table][packet'[q].peer] = q
  BY DEF RelayListed
<1>1. packet[q].table \in TableIds /\ packet[q].peer \in Peers
  BY UdpTypes DEF UdpInv
<1>2. relay[q] = "run" /\ table[packet[q].table][packet[q].peer] = q
  BY DEF UdpInv, RelayListed, Cleared
<1>3. packet[q].table \notin T
  BY <1>1, <1>2 DEF Cleared
<1> QED
  BY <1>1, <1>2, <1>3 DEF Cleared

\* The table of the port is cleared.
LEMMA ClearStep ==
  ASSUME UdpInv, Setup \/ Reset
  PROVE  UdpInv'
<1>0. UdpTypeOK /\ port \in TableIds
  BY UdpTypes DEF UdpInv
<1>1. /\ Cleared({port})
      /\ \A t \in TableIds : \A c \in Peers : table'[t][c] \in {table[t][c], NoSession}
  BY <1>0, ClearClears DEF Setup, Reset
<1>2. /\ packet' \in [Packets -> PacketRows]
      /\ \A q \in Packets :
            /\ packet'[q].pc = packet[q].pc /\ packet'[q].peer = packet[q].peer
            /\ packet'[q].settings = packet[q].settings /\ packet'[q].table = packet[q].table
            /\ \/ packet'[q].late /\ Setup
               \/ Setup /\ packet[q].pc \notin {"look", "open", "connect", "insert"}
               \/ Reset /\ packet'[q].late = packet[q].late
  <2>1. CASE Setup
    <3>1. packet' = [p \in Packets |-> [packet[p] EXCEPT
            !.late = packet[p].pc \in {"look", "open", "connect", "insert"}]]
      BY <2>1 DEF Setup
    <3>2. packet \in [Packets -> PacketRows]
      BY <1>0, UdpTypes
    <3>3. \A q \in Packets :
            /\ packet'[q] \in PacketRows
            /\ packet'[q].pc = packet[q].pc /\ packet'[q].peer = packet[q].peer
            /\ packet'[q].settings = packet[q].settings /\ packet'[q].table = packet[q].table
            /\ packet[q].pc \in {"look", "open", "connect", "insert"} => packet'[q].late
      <4> TAKE q \in Packets
      <4>1. packet[q] \in PacketRows
        BY <3>2
      <4>2. CASE packet[q].pc \in {"look", "open", "connect", "insert"}
        <5>1. packet'[q] = [packet[q] EXCEPT !.late = TRUE]
          BY <3>1, <4>2
        <5> QED
          BY <4>1, <5>1 DEF PacketRows
      <4>3. CASE packet[q].pc \notin {"look", "open", "connect", "insert"}
        <5>1. packet'[q] = [packet[q] EXCEPT !.late = FALSE]
          <6>1. (packet[q].pc \in {"look", "open", "connect", "insert"}) = FALSE
            BY <4>3
          <6>2. packet'[q] = [packet[q] EXCEPT
                  !.late = packet[q].pc \in {"look", "open", "connect", "insert"}]
            BY <3>1
          <6> QED
            BY <6>1, <6>2, Zenon
        <5> QED
          BY <4>1, <4>3, <5>1 DEF PacketRows
      <4> QED
        BY <4>2, <4>3
    <3>4. packet' \in [Packets -> PacketRows]
      BY <3>1, <3>3
    <3> QED
      BY <2>1, <3>3, <3>4
  <2>2. CASE Reset
    BY <1>0, <2>2, UdpTypes DEF Reset
  <2> QED
    BY <2>1, <2>2
<1>3. /\ settings' \in 1..MaxSettings /\ port' = port /\ most' = most
      /\ Reset => settings' = settings
  BY <1>0, UdpAssumption DEF Setup, Reset, UdpTypeOK
<1>4. UdpTypeOK'
  BY <1>0, <1>1, <1>2, <1>3 DEF UdpTypeOK, PacketRows, TableRows, Cleared
<1>5. RoomCounted'
  <2>1. \A t \in TableIds : Opening(t)' \subseteq Opening(t)
    BY <1>2 DEF Opening
  <2> QED
    BY <1>1, <1>3, <2>1, RoomsKept
<1>6. RelayListed'
  BY <1>0, <1>1, <1>2, RelaysCleared
<1>7. \A c \in Peers : table'[port][c] = NoSession
  BY <1>0, <1>1 DEF Cleared, NoSessions
<1>8. CurrentSettings'
  BY <1>3, <1>7 DEF CurrentSettings
<1>9. SessionsOwned'
  <2>1. \A t \in TableIds : \A c \in Peers : table'[t][c] # NoSession =>
          table'[t][c] = table[t][c] /\ table[t][c] \in Packets
    BY <1>0, <1>1, UdpTypes
  <2>2. \A q \in Packets : relay'[q] = "run" => relay[q] = "run"
    BY <1>1 DEF Cleared
  <2> QED
    BY <1>2, <2>1, <2>2 DEF UdpInv, SessionsOwned
<1>10. SessionsUsed'
  BY <1>1, <1>2, <1>3 DEF UdpInv, SessionsUsed, Uses
<1>11. OpensCurrent' /\ TablesPast'
  BY <1>2, <1>3 DEF UdpInv, OpensCurrent, TablesPast
<1> QED
  BY <1>4, <1>5, <1>6, <1>8, <1>9, <1>10, <1>11 DEF UdpInv

\* A packet that ends takes the table with it that only it still had.
LEMMA ForwardEndsStep ==
  ASSUME UdpInv, NEW p \in Packets, ForwardEnds(p)
  PROVE  UdpInv'
<1>0. UdpTypeOK
  BY DEF UdpInv
<1>1. PICK T \in SUBSET TableIds :
        /\ T = {t \in TableIds \ {port} : Uses(p, t) /\ \A q \in Packets \ {p} : ~Uses(q, t)}
        /\ Clear(T)
  BY DEF ForwardEnds
<1>2. /\ Cleared(T)
      /\ \A t \in TableIds : \A c \in Peers : table'[t][c] \in {table[t][c], NoSession}
  BY <1>0, <1>1, ClearClears
<1>3. PacketMoves(p, "sent")
  BY <1>0, AtPacketMoves DEF ForwardEnds, PacketPcs
<1>4. UNCHANGED <<settings, port, most>> /\ packet[p].pc = "end"
  BY DEF ForwardEnds
<1>5. UdpTypeOK'
  BY <1>0, <1>2, <1>3, <1>4 DEF UdpTypeOK, PacketRows, TableRows, PacketMoves, Cleared
<1>6. RoomCounted'
  <2>1. \A t \in TableIds : Opening(t)' \subseteq Opening(t)
    BY <1>3 DEF Opening, PacketMoves
  <2> QED
    BY <1>2, <1>4, <2>1, RoomsKept
<1>7. RelayListed'
  <2>1. \A q \in Packets : /\ packet'[q].table = packet[q].table
                           /\ packet'[q].peer = packet[q].peer
                           /\ packet[q].pc = "insert" => packet'[q].pc = "insert"
    BY <1>3, <1>4 DEF PacketMoves
  <2> QED
    BY <1>2, <2>1, RelaysCleared
<1>8. SessionsUsed'
  <2> SUFFICES ASSUME NEW t \in TableIds, NEW c \in Peers, table'[t][c] # NoSession, t # port
               PROVE  \E q \in Packets : Uses(q, t)'
    BY <1>4 DEF SessionsUsed
  <2>1. t \notin T /\ table[t][c] # NoSession
    BY <1>2 DEF Cleared, NoSessions
  <2>2. PICK q \in Packets : Uses(q, t)
    BY <2>1 DEF UdpInv, SessionsUsed
  <2>3. PICK r \in Packets \ {p} : Uses(r, t)
    BY <1>1, <2>1, <2>2
  <2>4. packet'[r] = packet[r]
    BY <1>3 DEF PacketMoves
  <2> QED
    BY <2>3, <2>4 DEF Uses
<1>9. \A t \in TableIds : \A c \in Peers : table'[t][c] # NoSession => table'[t][c] = table[t][c]
  BY <1>2
<1>10. \A q \in Packets : relay'[q] = "run" => relay[q] = "run"
  BY <1>2 DEF Cleared
<1> USE <1>0, <1>3, <1>4, <1>9, UdpTypes DEF PacketMoves, UdpInv
<1>11. CurrentSettings'
  BY DEF CurrentSettings
<1>12. SessionsOwned'
  BY <1>10 DEF SessionsOwned
<1>13. OpensCurrent' /\ TablesPast'
  BY DEF OpensCurrent, TablesPast
<1> QED
  BY <1>5, <1>6, <1>7, <1>8, <1>11, <1>12, <1>13

\* The port gets a table that no packet has, and the one before it is gone or in use.
LEMMA ApplyStep ==
  ASSUME UdpInv, ApplyEdit
  PROVE  UdpInv'
<1>0. UdpTypeOK /\ port \in TableIds /\ port \in Nat
  BY UdpTypes DEF UdpInv
<1>1. PICK T \in SUBSET TableIds :
        T = {t \in {port} : \A p \in Packets : ~Uses(p, t)} /\ Clear(T)
  BY <1>0 DEF ApplyEdit
<1>2. /\ Cleared(T)
      /\ \A t \in TableIds : \A c \in Peers : table'[t][c] \in {table[t][c], NoSession}
  BY <1>0, <1>1, ClearClears
<1>3. UNCHANGED <<settings, packet, most>> /\ port' = port + 1 /\ port' \in TableIds
  BY <1>0, UdpAssumption DEF ApplyEdit, TableIds
<1>4. UdpTypeOK'
  BY <1>0, <1>2, <1>3 DEF UdpTypeOK, TableRows, Cleared
<1>5. RoomCounted'
  <2>1. \A t \in TableIds : Opening(t)' \subseteq Opening(t)
    BY <1>3 DEF Opening
  <2> QED
    BY <1>2, <1>3, <2>1, RoomsKept
<1>6. RelayListed'
  BY <1>2, <1>3, RelaysCleared
<1>7. \A t \in TableIds : \A c \in Peers : table'[t][c] # NoSession => table'[t][c] = table[t][c]
  BY <1>2
<1>8. SessionsUsed'
  <2> SUFFICES ASSUME NEW t \in TableIds, NEW c \in Peers, table'[t][c] # NoSession
               PROVE  \E q \in Packets : Uses(q, t)'
    BY DEF SessionsUsed
  <2>1. t \notin T /\ table[t][c] # NoSession
    BY <1>2 DEF Cleared, NoSessions
  <2>2. PICK q \in Packets : Uses(q, t)
    BY <1>1, <2>1 DEF UdpInv, SessionsUsed
  <2> QED
    BY <1>3, <2>2 DEF Uses
<1>9. \A p \in Packets : packet[p].table = port + 1 => packet[p].pc = "new"
  <2> SUFFICES ASSUME NEW p \in Packets, packet[p].table = port + 1, packet[p].pc # "new"
               PROVE  FALSE
    OBVIOUS
  <2> QED
    BY <1>0 DEF UdpInv, TablesPast
<1>10. \A c \in Peers : table'[port + 1][c] = NoSession
  <2> SUFFICES ASSUME NEW c \in Peers, table'[port + 1][c] # NoSession PROVE FALSE
    OBVIOUS
  <2>1. table[port + 1][c] # NoSession /\ table[port + 1][c] \in Packets
    BY <1>0, <1>3, <1>7, UdpTypes
  <2> QED
    BY <1>3, <1>9, <2>1 DEF UdpInv, SessionsOwned
<1>11. CurrentSettings'
  BY <1>3, <1>10 DEF CurrentSettings
<1>12. SessionsOwned'
  BY <1>2, <1>3, <1>7 DEF UdpInv, SessionsOwned, Cleared
<1>13. OpensCurrent'
  BY <1>3, <1>9 DEF OpensCurrent
<1>14. TablesPast'
  <2> SUFFICES ASSUME NEW p \in Packets, packet[p].pc # "new"
               PROVE  packet[p].table <= port + 1
    BY <1>3 DEF TablesPast
  <2>1. packet[p].table <= port /\ packet[p].table \in Nat
    BY <1>0, UdpTypes DEF UdpInv, TablesPast
  <2> QED
    BY <1>0, <2>1
<1> QED
  BY <1>4, <1>5, <1>6, <1>8, <1>11, <1>12, <1>13, <1>14 DEF UdpInv

\* Every step of the port keeps the invariant.
LEMMA UdpStepInv == UdpInv /\ [UdpNext]_udpVars => UdpInv'
<1> SUFFICES ASSUME UdpInv, [UdpNext]_udpVars PROVE UdpInv'
  OBVIOUS
<1>1. CASE UNCHANGED udpVars
  <2> USE <1>1 DEF udpVars, UdpInv
  <2>1. UdpTypeOK' /\ RelayListed' /\ CurrentSettings' /\ SessionsOwned'
    BY DEF UdpTypeOK, RelayListed, CurrentSettings, SessionsOwned
  <2>2. SessionsUsed' /\ OpensCurrent' /\ TablesPast'
    BY DEF SessionsUsed, Uses, OpensCurrent, TablesPast
  <2>3. RoomCounted'
    <3>1. \A t \in TableIds : Opening(t)' = Opening(t) /\ Size(t)' = Size(t)
      BY DEF Opening, Size
    <3> QED
      BY <3>1 DEF RoomCounted, RoomIn
  <2> QED
    BY <2>1, <2>2, <2>3
<1>2. ASSUME NEW p \in Packets, NEW c \in Peers, Receive(p, c) PROVE UdpInv'
  BY <1>2, ReceiveStep
<1>3. ASSUME NEW p \in Packets, Look(p) \/ NotConnected(p) \/ Send(p) PROVE UdpInv'
  BY <1>3, QuietStep
<1>4. ASSUME NEW p \in Packets, OpenSession(p) PROVE UdpInv'
  BY <1>4, OpenStep
<1>5. ASSUME NEW p \in Packets, Connected(p) \/ InsertSession(p) \/ RelayEnds(p) PROVE UdpInv'
  BY <1>5, SessionStep
<1>6. ASSUME NEW p \in Packets, ForwardEnds(p) PROVE UdpInv'
  BY <1>6, ForwardEndsStep
<1>7. CASE Setup \/ Reset
  BY <1>7, ClearStep
<1>8. CASE ApplyEdit
  BY <1>8, ApplyStep
<1> QED
  BY <1>1, <1>2, <1>3, <1>4, <1>5, <1>6, <1>7, <1>8 DEF UdpNext

\* The invariant is the property of the run, and more.
LEMMA UdpInvHolds == UdpInv => SessionsHold
<1> SUFFICES ASSUME UdpInv PROVE SessionBound /\ NoLostRelay
  BY DEF UdpInv, SessionsHold
<1>1. most \in Nat
  BY UdpAssumption DEF UdpInv, UdpTypeOK
<1>2. SessionBound
  <2> SUFFICES ASSUME NEW t \in TableIds
               PROVE  Size(t) <= MaxSessions + (IF most = 0 THEN 0 ELSE most - 1)
    BY DEF SessionBound
  <2>1. /\ RoomIn(t) /\ Size(t) \in Nat /\ Cardinality(Opening(t)) \in Nat
        /\ MaxSessions \in Nat
    BY UdpFinite, UdpAssumption DEF UdpInv, RoomCounted
  <2>2. CASE most = 0
    BY <2>1, <2>2 DEF RoomIn
  <2>3. CASE most # 0
    <3>1. Size(t) + Cardinality(Opening(t)) <= MaxSessions + most - 1
      BY <2>1, <2>3 DEF RoomIn
    <3> QED
      BY <1>1, <2>1, <2>3, <3>1
  <2> QED
    BY <2>2, <2>3
<1>3. NoLostRelay
  <2> SUFFICES ASSUME NEW p \in Packets, relay[p] = "run", packet[p].pc # "insert"
               PROVE  /\ table[packet[p].table][packet[p].peer] = p
                      /\ \/ packet[p].table = port
                         \/ \E q \in Packets : Uses(q, packet[p].table)
    BY DEF NoLostRelay
  <2>1. /\ packet[p].table \in TableIds /\ packet[p].peer \in Peers /\ p # NoSession
        /\ table[packet[p].table][packet[p].peer] = p
    BY UdpTypes DEF UdpInv, RelayListed
  <2> QED
    BY <2>1 DEF UdpInv, SessionsUsed
<1> QED
  BY <1>2, <1>3

\* For any number of clients, packets, changes of the settings and edits of the port: every
\* reply task that runs has its session in a table that the port or a packet under way has,
\* or is about to get there; the sessions of the port are of the settings of now unless a
\* packet was late; and a table exceeds its limit by no more than the packets that looked at
\* it at the same time (udp.rs).
THEOREM UdpSessionsHold == UdpSpec => []SessionsHold
<1>1. UdpInit => UdpInv
  BY UdpInitInv
<1>2. UdpInv /\ [UdpNext]_udpVars => UdpInv'
  BY UdpStepInv
<1>3. UdpInv => SessionsHold
  BY UdpInvHolds
<1> QED
  BY <1>1, <1>2, <1>3, PTL DEF UdpSpec

-----------------------------------------------------------------------------
(* SrvNames.  The task of a name is found through srvEntry, so TasksOfNames ties *)
(* each task that serves to its name; TodoUnknown and TasksCounted say that the *)
(* loop starts no task twice and has an id for each.                       *)

\* The rows of the tasks, of the entries and of the loop.
RefreshRows == [pc : TaskPcs, name : Names, with : Nameservers,
                got : Answers \union {Failed}, aborted : BOOLEAN]
EntryRows == [task : 0..spawned, targets : Answers]
ServerRows == [pc : {"idle", "sync"}, todo : SUBSET Names, with : Nameservers]

\* A task that was not aborted and has not ended.
Serving(t) == refresh[t].pc \notin {"none", "dead"} /\ ~refresh[t].aborted

\* The task of a name serves that name, and every task that serves is the task of its name.
TasksOfNames ==
  /\ \A n \in Names, t \in TaskIds :
       (Serving(t) /\ refresh[t].name = n) <=> srvEntry[n].task = t
  /\ \A t \in TaskIds : t > spawned => refresh[t].pc = "none"

\* What the loop has still to look up are the names it wants and does not know.
TodoUnknown ==
  /\ server.todo = {n \in wanted : ~Known(n)}
  /\ server.pc = "idle" => server.todo = {}

\* Every task that was started or is still to be started is for a name and a change.
TasksCounted == spawned + Cardinality(server.todo) <= changes * Cardinality(Names)

\* A task that has changed an entry after its abort is in the history.
RaceKnown == \A t \in TaskIds : refresh[t].pc = "send" /\ refresh[t].aborted => raced

\* The inductive invariant.
SrvInv == SrvTypeOK /\ TasksOfNames /\ TodoUnknown /\ TasksCounted /\ RaceKnown
  /\ UpdateOnTheWay

\* There is an id for each name and change.
LEMMA SrvConstants ==
  /\ Cardinality(Names) \in Nat /\ MaxChanges \in Nat
  /\ MaxChanges * Cardinality(Names) \in Nat
  /\ TaskIds \subseteq Nat \ {0} /\ Answers \subseteq Nat /\ 0 \in Answers
       /\ Failed \notin Answers
  /\ \A i \in Nat : i # 0 /\ i <= MaxChanges * Cardinality(Names) => i \in TaskIds
<1>1. Cardinality(Names) \in Nat /\ MaxChanges \in Nat
  BY SrvAssumption, FS_CardinalityType
<1>2. MaxChanges * Cardinality(Names) \in Nat
  BY <1>1
<1> DEFINE m == MaxChanges * Cardinality(Names)
<1>3. TaskIds = 1..m /\ m \in Nat
  BY <1>2 DEF TaskIds
<1> HIDE DEF m
<1>4. /\ TaskIds \subseteq Nat \ {0}
      /\ \A i \in Nat : i # 0 /\ i <= m => i \in TaskIds
  BY <1>3
<1> QED
  BY <1>1, <1>2, <1>4, SrvAssumption DEF m, Answers, Failed

\* The fields of the tasks, of the entries and of the loop.
LEMMA SrvTypes ==
  ASSUME SrvTypeOK
  PROVE  /\ spawned \in Nat /\ changes \in Nat /\ changes <= MaxChanges /\ raced \in BOOLEAN
         /\ refresh \in [TaskIds -> RefreshRows] /\ srvEntry \in [Names -> EntryRows]
         /\ \A t \in TaskIds : /\ refresh[t] \in RefreshRows /\ refresh[t].pc \in TaskPcs
                               /\ refresh[t].name \in Names
                               /\ refresh[t].with \in Nameservers
                                    /\ refresh[t].got \in Answers \union {Failed}
                               /\ refresh[t].aborted \in BOOLEAN /\ t \in Nat /\ t # NoRefresh
         /\ \A n \in Names : /\ srvEntry[n].task \in 0..spawned
                             /\ srvEntry[n].task \in TaskIds \union {NoRefresh}
                             /\ srvEntry[n].targets \in Answers
         /\ server.pc \in {"idle", "sync"} /\ server.todo \subseteq Names
              /\ server.with \in Nameservers
         /\ server \in ServerRows
<1>1. refresh \in [TaskIds -> RefreshRows] /\ srvEntry \in [Names -> EntryRows]
        /\ raced \in BOOLEAN /\ changes \in Nat /\ changes <= MaxChanges
  BY SrvAssumption DEF SrvTypeOK, RefreshRows, EntryRows
<1>2. spawned \in Nat /\ (spawned = 0 \/ spawned \in TaskIds)
  BY SrvConstants DEF SrvTypeOK
<1>3. \A t \in TaskIds : /\ refresh[t] \in RefreshRows /\ refresh[t].pc \in TaskPcs
                         /\ refresh[t].name \in Names
                               /\ refresh[t].with \in Nameservers
                                    /\ refresh[t].got \in Answers \union {Failed}
                               /\ refresh[t].aborted \in BOOLEAN /\ t \in Nat /\ t # NoRefresh
  BY <1>1, SrvConstants DEF RefreshRows, NoRefresh
<1>4. \A n \in Names : srvEntry[n].task \in 0..spawned /\ srvEntry[n].targets \in Answers
  BY <1>1 DEF EntryRows
<1>5. \A i \in 0..spawned : i \in TaskIds \union {NoRefresh}
  <2> DEFINE m == MaxChanges * Cardinality(Names)
  <2>1. TaskIds = 1..m /\ m \in Nat
    BY SrvConstants DEF TaskIds
  <2> HIDE DEF m
  <2> QED
    BY <1>2, <2>1 DEF NoRefresh
<1>6. server.pc \in {"idle", "sync"} /\ server.todo \subseteq Names
        /\ server.with \in Nameservers /\ server \in ServerRows
  BY DEF SrvTypeOK, ServerRows
<1> QED
  BY <1>1, <1>2, <1>3, <1>4, <1>5, <1>6

\* Sets of names are finite.
LEMMA TodoFinite ==
  ASSUME NEW S \in SUBSET Names
  PROVE  IsFiniteSet(S) /\ Cardinality(S) \in Nat /\ Cardinality(S) <= Cardinality(Names)
BY SrvAssumption, FS_Subset, FS_CardinalityType

\* No name is known at the start.
LEMMA SrvInitInv == SrvInit => SrvInv
<1> SUFFICES ASSUME SrvInit PROVE SrvInv
  OBVIOUS
<1>1. nameserver \in Nameservers
  BY SrvAssumption DEF SrvInit
<1>2. refresh \in [TaskIds -> RefreshRows] /\ \A t \in TaskIds : refresh[t].pc = "none"
  <2>1. ASSUME NEW t \in TaskIds PROVE NewTask \in RefreshRows /\ NewTask.pc = "none"
    <3>1. Names # {}
      <4>1. SUFFICES ASSUME Names = {} PROVE FALSE
        OBVIOUS
      <4>2. Cardinality(Names) = 0
        BY <4>1, FS_EmptySet
      <4>3. MaxChanges * Cardinality(Names) = 0
        BY <4>2, SrvAssumption
      <4> QED
        BY <4>3 DEF TaskIds
    <3>2. (CHOOSE n \in Names : TRUE) \in Names
            /\ (CHOOSE s \in Nameservers : TRUE) \in Nameservers
      BY <3>1, SrvAssumption
    <3> QED
      BY <3>2, SrvConstants DEF NewTask, RefreshRows, TaskPcs
  <2> QED
    BY <2>1 DEF SrvInit
<1>3. \A n \in Names : srvEntry[n].task = NoRefresh /\ srvEntry[n].targets = 0
  BY DEF SrvInit, Unknown
<1>4. SrvTypeOK
  <2>1. srvEntry \in [Names -> [task : 0..spawned, targets : Answers]]
    BY SrvConstants DEF SrvInit, Unknown, NoRefresh
  <2>2. server \in [pc : {"idle", "sync"}, todo : SUBSET Names, with : Nameservers]
    BY <1>1 DEF SrvInit
  <2>3. fails \in 0..MaxFails /\ changes \in 0..MaxChanges
    BY SrvAssumption DEF SrvInit
  <2> QED
    BY <1>1, <1>2, <2>1, <2>2, <2>3, SrvConstants DEF SrvInit, SrvTypeOK, RefreshRows
<1>5. TasksOfNames
  BY <1>2, <1>3, SrvConstants DEF TasksOfNames, Serving, NoRefresh
<1>6. TodoUnknown
  BY DEF SrvInit, TodoUnknown
<1>7. TasksCounted
  <2>1. Cardinality({}) = 0 /\ 0 * Cardinality(Names) = 0
    BY FS_EmptySet, SrvConstants
  <2> QED
    BY <2>1 DEF SrvInit, TasksCounted
<1>8. RaceKnown /\ UpdateOnTheWay
  BY <1>2 DEF SrvInit, RaceKnown, UpdateOnTheWay
<1> QED
  BY <1>4, <1>5, <1>6, <1>7, <1>8 DEF SrvInv

\* What an abort of the tasks of the names in N does.
LEMMA AbortRows ==
  ASSUME SrvInv, NEW N \in SUBSET Names
  PROVE  /\ AbortOf(N) \in [TaskIds -> RefreshRows]
         /\ \A t \in TaskIds :
              /\ AbortOf(N)[t].name = refresh[t].name
              /\ \/ /\ \E n \in N : srvEntry[n].task = t
                    /\ AbortOf(N)[t].pc = "dead" \/ (AbortOf(N)[t].pc = "answered"
                         /\ AbortOf(N)[t].aborted)
                 \/ /\ ~\E n \in N : srvEntry[n].task = t
                    /\ AbortOf(N)[t] = refresh[t]
<1>0. SrvTypeOK
  BY DEF SrvInv
<1>1. ASSUME NEW t \in TaskIds
      PROVE  /\ AbortOf(N)[t] \in RefreshRows /\ AbortOf(N)[t].name = refresh[t].name
             /\ \/ /\ \E n \in N : srvEntry[n].task = t
                   /\ AbortOf(N)[t].pc = "dead" \/ (AbortOf(N)[t].pc = "answered"
                        /\ AbortOf(N)[t].aborted)
                \/ /\ ~\E n \in N : srvEntry[n].task = t
                   /\ AbortOf(N)[t] = refresh[t]
  <2>1. refresh[t] \in RefreshRows
    BY <1>0, SrvTypes
  <2>2. CASE ~\E n \in N : srvEntry[n].task = t
    BY <2>1, <2>2 DEF AbortOf
  <2>3. CASE (\E n \in N : srvEntry[n].task = t) /\ refresh[t].pc = "answered"
    <3>1. AbortOf(N)[t] = [refresh[t] EXCEPT !.aborted = TRUE]
      BY <2>3 DEF AbortOf
    <3> QED
      BY <2>1, <2>3, <3>1 DEF RefreshRows
  <2>4. CASE (\E n \in N : srvEntry[n].task = t) /\ refresh[t].pc # "answered"
    <3>1. AbortOf(N)[t] = [refresh[t] EXCEPT !.pc = "dead"]
      BY <2>4 DEF AbortOf
    <3> QED
      BY <2>1, <2>4, <3>1 DEF RefreshRows, TaskPcs
  <2> QED
    BY <2>2, <2>3, <2>4
<1> QED
  BY <1>1 DEF AbortOf

\* The first part of a reload: the names in Gone are forgotten with their tasks.
LEMMA ForgetStep ==
  ASSUME SrvInv, NEW Gone \in SUBSET Names, refresh' = AbortOf(Gone),
         srvEntry' = [n \in Names |-> IF n \in Gone THEN Unknown ELSE srvEntry[n]],
         wanted' \subseteq Names, nameserver' \in Nameservers,
         server' = [pc |-> "sync", todo |-> {n \in wanted' : ~Known(n)'},
           with |-> nameserver'],
         \/ UNCHANGED <<changes, wanted>> /\ server.pc = "idle" /\ Gone \intersect wanted = {}
         \/ changes' = changes + 1 /\ changes < MaxChanges,
         UNCHANGED <<records, spawned, loaded, fails, raced>>, queue' \in {"empty", queue}
  PROVE  SrvInv'
<1>0. SrvTypeOK
  BY DEF SrvInv
<1>1. /\ refresh' \in [TaskIds -> RefreshRows]
      /\ \A t \in TaskIds :
              /\ refresh'[t].name = refresh[t].name
              /\ \/ /\ \E n \in Gone : srvEntry[n].task = t
                    /\ refresh'[t].pc = "dead" \/ (refresh'[t].pc = "answered"
                         /\ refresh'[t].aborted)
                 \/ /\ ~\E n \in Gone : srvEntry[n].task = t
                    /\ refresh'[t] = refresh[t]
  BY AbortRows
<1>2. /\ srvEntry' \in [Names -> EntryRows]
      /\ \A n \in Gone : srvEntry'[n].task = NoRefresh
      /\ \A n \in Names \ Gone : srvEntry'[n] = srvEntry[n]
  <2>1. Unknown \in EntryRows /\ Unknown.task = NoRefresh
    BY <1>0, SrvTypes, SrvConstants DEF Unknown, NoRefresh, EntryRows
  <2> QED
    BY <1>0, <2>1, SrvTypes
<1>3. /\ server' \in [pc : {"idle", "sync"}, todo : SUBSET Names, with : Nameservers]
      /\ server'.pc = "sync" /\ server'.todo = {n \in wanted' : ~Known(n)'}
  OBVIOUS
<1>4. changes' \in 0..MaxChanges
  BY <1>0, SrvTypes, SrvConstants
<1>5. SrvTypeOK'
  BY <1>0, <1>1, <1>2, <1>3, <1>4 DEF SrvTypeOK, RefreshRows, EntryRows
<1>6. TasksOfNames'
  <2>1. \A t \in TaskIds : t > spawned' => refresh'[t].pc = "none"
    <3> SUFFICES ASSUME NEW t \in TaskIds, t > spawned PROVE refresh'[t].pc = "none"
      OBVIOUS
    <3>1. \A n \in Names : srvEntry[n].task # t
      BY <1>0, SrvTypes
    <3> QED
      BY <1>1, <3>1 DEF SrvInv, TasksOfNames
  <2>2. \A n \in Names, t \in TaskIds :
       (Serving(t)' /\ refresh'[t].name = n) <=> srvEntry'[n].task = t
    <3> TAKE n \in Names, t \in TaskIds
    <3>1. (Serving(t) /\ refresh[t].name = n) <=> srvEntry[n].task = t
      BY DEF SrvInv, TasksOfNames
    <3>2. t # NoRefresh
      BY <1>0, SrvTypes
    <3>3. CASE \E m \in Gone : srvEntry[m].task = t
      <4>1. PICK m \in Gone : srvEntry[m].task = t
        BY <3>3
      <4>2. refresh[t].name = m
        BY <4>1 DEF SrvInv, TasksOfNames
      <4>3. ~Serving(t)'
        BY <1>1, <3>3 DEF Serving
      <4>4. srvEntry'[n].task # t
        BY <1>2, <3>1, <3>2, <4>2
      <4> QED
        BY <4>3, <4>4
    <3>4. CASE ~\E m \in Gone : srvEntry[m].task = t
      <4>1. refresh'[t] = refresh[t]
        BY <1>1, <3>4
      <4> QED
        BY <1>2, <3>1, <3>2, <3>4, <4>1 DEF Serving
    <3> QED
      BY <3>3, <3>4
  <2> QED
    BY <2>1, <2>2 DEF TasksOfNames
<1>7. TodoUnknown'
  BY <1>3 DEF TodoUnknown
<1>8. TasksCounted'
  <2> DEFINE k == Cardinality(Names)
             s == Cardinality(server.todo)
             u == Cardinality(server'.todo)
  <2>1. u \in Nat /\ u <= k /\ s \in Nat /\ k \in Nat
    BY <1>0, <1>3, SrvTypes, SrvConstants, TodoFinite
  <2>2. spawned \in Nat /\ spawned + s <= changes * k /\ changes \in Nat
    BY <1>0, SrvTypes DEF SrvInv, TasksCounted
  <2>3. CASE UNCHANGED <<changes, wanted>> /\ server.pc = "idle" /\ Gone \intersect wanted = {}
    <3>1. server.todo = {n \in wanted : ~Known(n)} /\ server.todo = {}
      BY <2>3 DEF SrvInv, TodoUnknown
    <3>2. \A n \in wanted : Known(n)' = Known(n)
      BY <1>2, <2>3 DEF Known
    <3>3. server'.todo = server.todo
      BY <1>3, <2>3, <3>1, <3>2
    <3> QED
      BY <2>2, <2>3, <3>3 DEF TasksCounted
  <2>4. CASE changes' = changes + 1
    <3>1. changes' * k = changes * k + k
      BY <2>1, <2>2, <2>4
    <3> HIDE DEF k, s, u
    <3>2. spawned + u <= changes' * k
      <4> DEFINE x == changes * k
      <4>1. x \in Nat
        BY <2>1, <2>2
      <4> HIDE DEF x
      <4>2. spawned + s <= x /\ changes' * k = x + k
        BY <2>2, <3>1 DEF x
      <4> QED
        BY <2>1, <2>2, <4>1, <4>2
    <3> QED
      BY <3>2 DEF TasksCounted, k, u
  <2> QED
    BY <2>3, <2>4
<1>9. RaceKnown'
  BY <1>1 DEF SrvInv, RaceKnown
<1>10. UpdateOnTheWay'
  BY <1>3 DEF UpdateOnTheWay
<1> QED
  BY <1>5, <1>6, <1>7, <1>8, <1>9, <1>10 DEF SrvInv

\* The tasks and the names stay as they are.
LEMMA TasksStay ==
  ASSUME SrvInv, UNCHANGED <<wanted, srvEntry, spawned, refresh, raced>>
  PROVE  /\ TasksOfNames' /\ RaceKnown'
         /\ server'.todo = server.todo => server'.todo = {n \in wanted' : ~Known(n)'}
         /\ server'.todo = server.todo /\ changes' = changes => TasksCounted'
<1>1. TasksOfNames'
  BY DEF SrvInv, TasksOfNames, Serving
<1>2. RaceKnown'
  BY DEF SrvInv, RaceKnown
<1>3. server'.todo = server.todo => server'.todo = {n \in wanted' : ~Known(n)'}
  BY DEF SrvInv, TodoUnknown, Known
<1>4. server'.todo = server.todo /\ changes' = changes => TasksCounted'
  BY DEF SrvInv, TasksCounted
<1> QED
  BY <1>1, <1>2, <1>3, <1>4

\* SrvUpdated, and a change of the proxies or of the DNS server.
LEMMA ReloadStep ==
  ASSUME SrvInv, SrvUpdated \/ ChangeProxies \/ SetNameserver
  PROVE  SrvInv'
<1>0. SrvTypeOK
  BY DEF SrvInv
<1>1. wanted \subseteq Names /\ nameserver \in Nameservers
  BY <1>0 DEF SrvTypeOK
<1>2. ASSUME NEW N \in SUBSET Names, Forget(N)
      PROVE  LET Gone == {n \in Names : Known(n) /\ n \notin N} IN
             /\ refresh' = AbortOf(Gone)
             /\ srvEntry' = [n \in Names |-> IF n \in Gone THEN Unknown ELSE srvEntry[n]]
             /\ server' = [pc |-> "sync", todo |-> {n \in N : ~Known(n)'}, with |-> nameserver]
  <2> DEFINE Gone == {n \in Names : Known(n) /\ n \notin N}
  <2>1. /\ refresh' = AbortOf(Gone)
        /\ srvEntry' = [n \in Names |-> IF n \in Gone THEN Unknown ELSE srvEntry[n]]
        /\ server' = [pc |-> "sync", todo |-> {n \in N : ~Known(n)}, with |-> nameserver]
    BY <1>2 DEF Forget
  <2>2. {n \in N : ~Known(n)} = {n \in N : ~Known(n)'}
    BY <2>1 DEF Known
  <2> QED
    BY <2>1, <2>2
<1>3. CASE SrvUpdated
  <2> DEFINE Gone == {n \in Names : Known(n) /\ n \notin wanted}
  <2>1. Gone \in SUBSET Names /\ Gone \intersect wanted = {}
    OBVIOUS
  <2>2. UNCHANGED <<records, nameserver, wanted, spawned, loaded, fails, changes,
          raced>> /\ server.pc = "idle" /\ queue' = "empty" /\ Forget(wanted)
    BY <1>3 DEF SrvUpdated
  <2>3. /\ refresh' = AbortOf(Gone)
        /\ srvEntry' = [n \in Names |-> IF n \in Gone THEN Unknown ELSE srvEntry[n]]
        /\ server' = [pc |-> "sync", todo |-> {n \in wanted' : ~Known(n)'},
             with |-> nameserver']
    BY <1>1, <1>2, <2>2
  <2> HIDE DEF Gone
  <2> QED
    BY <1>1, <2>1, <2>2, <2>3, ForgetStep
<1>4. CASE ChangeProxies
  <2>1. PICK N \in SUBSET Names : wanted' = N /\ Forget(N)
    BY <1>4 DEF ChangeProxies
  <2> DEFINE Gone == {n \in Names : Known(n) /\ n \notin N}
  <2>2. Gone \in SUBSET Names
    OBVIOUS
  <2>3. UNCHANGED <<records, nameserver, spawned, queue, loaded, fails, raced>>
          /\ changes' = changes + 1 /\ changes < MaxChanges
    BY <1>4 DEF ChangeProxies
  <2>4. /\ refresh' = AbortOf(Gone)
        /\ srvEntry' = [n \in Names |-> IF n \in Gone THEN Unknown ELSE srvEntry[n]]
        /\ server' = [pc |-> "sync", todo |-> {n \in wanted' : ~Known(n)'},
             with |-> nameserver']
    BY <1>2, <2>1, <2>3
  <2> HIDE DEF Gone
  <2> QED
    BY <1>1, <2>1, <2>2, <2>3, <2>4, ForgetStep
<1>5. CASE SetNameserver
  <2>1. UNCHANGED <<records, wanted, spawned, queue, loaded, fails, raced>>
          /\ changes' = changes + 1 /\ changes < MaxChanges
        /\ refresh' = AbortOf(Names) /\ nameserver' \in Nameservers
    BY <1>5 DEF SetNameserver
  <2>2. srvEntry' = [n \in Names |-> IF n \in Names THEN Unknown ELSE srvEntry[n]]
    BY <1>5 DEF SetNameserver
  <2>3. wanted = {n \in wanted' : ~Known(n)'}
    BY <1>1, <2>1, <2>2 DEF Known, Unknown
  <2>4. server' = [pc |-> "sync", todo |-> {n \in wanted' : ~Known(n)'}, with |-> nameserver']
    BY <1>5, <2>3 DEF SetNameserver
  <2> QED
    BY <1>1, <2>1, <2>2, <2>4, ForgetStep
<1> QED
  BY <1>3, <1>4, <1>5

\* A new name gets the next task, which no name has had.
LEMMA SyncStep ==
  ASSUME SrvInv, NEW n \in Names, SyncName(n)
  PROVE  SrvInv'
<1> DEFINE t == spawned + 1
<1>0. SrvTypeOK
  BY DEF SrvInv
<1>1. server.pc = "sync" /\ n \in server.todo /\ UNCHANGED <<records, nameserver, wanted,
        queue, loaded, changes, raced>>
      /\ spawned' = t
  BY DEF SyncName
<1>2. n \in wanted /\ srvEntry[n].task = NoRefresh
  BY <1>1 DEF SrvInv, TodoUnknown, Known
<1>3. PICK got \in Answers : srvEntry' = [srvEntry EXCEPT ![n] = [task |-> t, targets |-> got]]
  BY SrvConstants DEF SyncName
<1>4. fails' \in 0..MaxFails
  BY <1>0, SrvAssumption DEF SyncName, Lookup, SrvTypeOK
<1>5. spawned \in Nat /\ t \in TaskIds /\ t > spawned
      /\ Cardinality(server.todo \ {n}) = Cardinality(server.todo) - 1
      /\ Cardinality(server.todo) \in Nat
  <2> DEFINE k == Cardinality(Names)
             s == Cardinality(server.todo)
  <2>1. s \in Nat /\ k \in Nat /\ IsFiniteSet(server.todo)
    BY <1>0, SrvTypes, SrvConstants, TodoFinite
  <2>2. spawned \in Nat /\ spawned + s <= changes * k /\ changes \in Nat
          /\ changes <= MaxChanges
    BY <1>0, SrvTypes DEF SrvInv, TasksCounted
  <2>3. Cardinality(server.todo \ {n}) = s - 1 /\ s # 0
    BY <1>1, <2>1, FS_RemoveElement, FS_EmptySet
  <2>4. changes * k <= MaxChanges * k /\ changes * k \in Nat /\ MaxChanges * k \in Nat
    BY <2>1, <2>2, SrvAssumption
  <2>5. t <= MaxChanges * k /\ t \in Nat /\ t # 0
    <3> DEFINE x == changes * k
               y == MaxChanges * k
    <3>1. x \in Nat /\ y \in Nat /\ x <= y /\ spawned + s <= x
      BY <2>2, <2>4
    <3> HIDE DEF x, y, s
    <3>2. t <= y
      BY <2>1, <2>2, <2>3, <3>1
    <3> QED
      BY <2>2, <3>2 DEF y
  <2> QED
    BY <2>1, <2>2, <2>3, <2>5, SrvConstants
<1> HIDE DEF t
<1>6. /\ refresh' \in [TaskIds -> RefreshRows]
      /\ refresh'[t].pc = "sleep" /\ refresh'[t].name = n /\ ~refresh'[t].aborted
      /\ \A u \in TaskIds \ {t} : refresh'[u] = refresh[u]
  <2> DEFINE v == [NewTask EXCEPT !.pc = "sleep", !.name = n, !.with = nameserver]
  <2>1. nameserver \in Nameservers /\ 0 \in Answers
    BY <1>0, SrvConstants DEF SrvTypeOK
  <2>2. NewTask \in RefreshRows /\ NewTask.aborted = FALSE
    BY SrvAssumption, SrvConstants DEF NewTask, RefreshRows, TaskPcs
  <2>3. v \in RefreshRows /\ v.pc = "sleep" /\ v.name = n /\ ~v.aborted
    BY <2>1, <2>2, <1>1 DEF RefreshRows, TaskPcs
  <2> HIDE DEF v
  <2>4. refresh' = [refresh EXCEPT ![t] = v]
    BY DEF SyncName, v, t
  <2> QED
    BY <1>0, <1>5, <2>3, <2>4, SrvTypes
<1>7. /\ srvEntry' \in [Names -> [task : 0..spawned', targets : Answers]]
      /\ srvEntry'[n].task = t /\ \A m \in Names \ {n} : srvEntry'[m] = srvEntry[m]
  <2>1. \A m \in Names : srvEntry[m] \in [task : 0..spawned', targets : Answers]
    <3>1. 0..spawned \subseteq 0..spawned'
      BY <1>1, <1>5 DEF t
    <3> QED
      BY <1>0, <3>1, SrvTypes DEF EntryRows
  <2>2. t \in 0..spawned'
    BY <1>1, <1>5 DEF t
  <2>3. [task |-> t, targets |-> got] \in [task : 0..spawned', targets : Answers]
    BY <2>2
  <2> QED
    BY <1>0, <1>3, <2>1, <2>3, SrvTypes
<1>8. server' \in [pc : {"idle", "sync"}, todo : SUBSET Names, with : Nameservers]
      /\ server'.pc = "sync" /\ server'.todo = server.todo \ {n}
  <2>1. server' = [server EXCEPT !.todo = server.todo \ {n}] /\ server \in ServerRows
    BY <1>0, SrvTypes DEF SyncName
  <2> QED
    BY <1>1, <2>1 DEF ServerRows
<1>9. SrvTypeOK'
  BY <1>0, <1>1, <1>4, <1>5, <1>6, <1>7, <1>8 DEF SrvTypeOK, RefreshRows
<1>10. TasksOfNames'
  <2>1. refresh[t].pc = "none" /\ \A m \in Names : srvEntry[m].task # t
    BY <1>0, <1>5, SrvTypes DEF SrvInv, TasksOfNames
  <2>2. \A u \in TaskIds : u > spawned' => refresh'[u].pc = "none"
    BY <1>0, <1>1, <1>5, <1>6, SrvTypes DEF SrvInv, TasksOfNames, t
  <2>3. \A m \in Names, u \in TaskIds :
       (Serving(u)' /\ refresh'[u].name = m) <=> srvEntry'[m].task = u
    <3> TAKE m \in Names, u \in TaskIds
    <3>1. (Serving(u) /\ refresh[u].name = m) <=> srvEntry[m].task = u
      BY DEF SrvInv, TasksOfNames
    <3>2. u # NoRefresh
      BY <1>0, SrvTypes
    <3>3. CASE u = t
      BY <1>6, <1>7, <2>1, <3>3 DEF Serving
    <3>4. CASE u # t
      BY <1>2, <1>6, <1>7, <3>1, <3>2, <3>4 DEF Serving
    <3> QED
      BY <3>3, <3>4
  <2> QED
    BY <2>2, <2>3 DEF TasksOfNames
<1>11. TodoUnknown'
  <2>1. t # NoRefresh
    BY <1>0, <1>5, SrvTypes
  <2>2. {m \in wanted : ~Known(m)'} = {m \in wanted : ~Known(m)} \ {n}
    BY <1>0, <1>7, <2>1, SrvTypes DEF Known, SrvTypeOK
  <2> QED
    BY <1>1, <1>8, <2>2 DEF SrvInv, TodoUnknown
<1>12. TasksCounted'
  <2> DEFINE x == changes * Cardinality(Names)
             s == Cardinality(server.todo)
  <2>1. spawned + s <= x
    BY DEF SrvInv, TasksCounted
  <2>2. x \in Nat
    BY <1>0, SrvTypes, SrvConstants
  <2>3. x' = x /\ Cardinality(server'.todo) = s - 1 /\ s \in Nat
    BY <1>1, <1>5, <1>8
  <2> HIDE DEF x, s
  <2>4. spawned' + Cardinality(server'.todo) <= x'
    BY <1>1, <1>5, <2>1, <2>2, <2>3 DEF t
  <2> QED
    BY <2>4 DEF TasksCounted, x
<1>13. RaceKnown'
  BY <1>1, <1>6 DEF SrvInv, RaceKnown
<1>14. UpdateOnTheWay'
  BY <1>8 DEF UpdateOnTheWay
<1> QED
  BY <1>9, <1>10, <1>11, <1>12, <1>13, <1>14 DEF SrvInv

\* The proxies are built with what the registry has.
LEMMA BuildStep ==
  ASSUME SrvInv, BuildProxies
  PROVE  SrvInv'
<1>0. SrvTypeOK
  BY DEF SrvInv
<1>1. /\ UNCHANGED <<records, nameserver, wanted, srvEntry, spawned, refresh, queue, fails,
        changes, raced>>
      /\ server.todo = {}
      /\ loaded' = [n \in Names |-> srvEntry[n].targets]
  BY DEF BuildProxies
<1>2. server' \in [pc : {"idle", "sync"}, todo : SUBSET Names, with : Nameservers]
      /\ server'.todo = server.todo
  <2>1. server' = [server EXCEPT !.pc = "idle"] /\ server \in ServerRows
    BY <1>0, SrvTypes DEF BuildProxies
  <2> QED
    BY <2>1 DEF ServerRows
<1>3. loaded' \in [Names -> Answers]
  BY <1>0, <1>1, SrvTypes
<1>4. SrvTypeOK'
  BY <1>0, <1>1, <1>2, <1>3 DEF SrvTypeOK
<1>5. TasksOfNames' /\ TodoUnknown' /\ TasksCounted' /\ RaceKnown'
  BY <1>1, <1>2, TasksStay DEF TodoUnknown
<1>6. UpdateOnTheWay'
  BY <1>0, <1>1 DEF UpdateOnTheWay, SrvTypeOK
<1> QED
  BY <1>4, <1>5, <1>6 DEF SrvInv

\* A task goes on as v, for the same name, and serves it as before.
LEMMA TaskGoes ==
  ASSUME SrvInv, NEW t \in TaskIds, NEW v \in RefreshRows,
         refresh' = [refresh EXCEPT ![t] = v],
         v.name = refresh[t].name, refresh[t].pc # "none",
         Serving(t) <=> (v.pc \notin {"none", "dead"} /\ ~v.aborted),
         v.pc = "send" /\ v.aborted => raced', raced => raced', raced' \in BOOLEAN,
         srvEntry' \in [Names -> EntryRows],
         \A n \in Names : srvEntry'[n].task = srvEntry[n].task,
         fails' \in 0..MaxFails, queue' \in {"srv", queue},
         UNCHANGED <<records, nameserver, wanted, spawned, server, loaded, changes>>
  PROVE  SrvTypeOK' /\ TasksOfNames' /\ TodoUnknown' /\ TasksCounted' /\ RaceKnown'
<1>0. SrvTypeOK
  BY DEF SrvInv
<1>1. refresh' \in [TaskIds -> RefreshRows] /\ refresh'[t] = v
        /\ \A u \in TaskIds \ {t} : refresh'[u] = refresh[u]
  BY <1>0, SrvTypes
<1>2. SrvTypeOK'
  BY <1>0, <1>1 DEF SrvTypeOK, RefreshRows, EntryRows
<1>3. TasksOfNames'
  <2>1. \A u \in TaskIds : u > spawned' => refresh'[u].pc = "none"
    BY <1>1 DEF SrvInv, TasksOfNames
  <2>2. \A u \in TaskIds : (Serving(u)' <=> Serving(u)) /\ refresh'[u].name = refresh[u].name
    BY <1>1 DEF Serving
  <2> QED
    BY <2>1, <2>2 DEF SrvInv, TasksOfNames
<1>4. TodoUnknown' /\ TasksCounted'
  <2>1. \A n \in wanted : Known(n)' = Known(n)
    BY <1>0 DEF Known, SrvTypeOK
  <2> QED
    BY <2>1 DEF SrvInv, TodoUnknown, TasksCounted
<1>5. RaceKnown'
  BY <1>1 DEF SrvInv, RaceKnown
<1> QED
  BY <1>2, <1>3, <1>4, <1>5

\* The steps of a refresh task.
LEMMA TaskStepInv ==
  ASSUME SrvInv, NEW t \in TaskIds, TaskStep(t)
  PROVE  SrvInv'
<1>0. SrvTypeOK
  BY DEF SrvInv
<1>1. /\ refresh \in [TaskIds -> RefreshRows] /\ refresh[t] \in RefreshRows
        /\ refresh[t].name \in Names
      /\ refresh[t].aborted \in BOOLEAN /\ srvEntry \in [Names -> EntryRows]
           /\ fails \in 0..MaxFails
      /\ raced \in BOOLEAN /\ nameserver \in Nameservers
           /\ refresh[t].got \in Answers \union {Failed}
  BY <1>0, SrvTypes DEF SrvTypeOK
<1>2. UNCHANGED <<records, nameserver, wanted, spawned, server, loaded, changes>>
  BY DEF TaskStep, Expire, Resolve, Apply, ApplySame, SendUpdate, AbortedSend
<1>3. \A u \in TaskIds : Serving(u) => Known(refresh[u].name)
  BY <1>0, SrvTypes DEF SrvInv, TasksOfNames, Known
<1>4. ASSUME refresh[t].pc \in {"answered", "send"}
      PROVE  /\ NextLookup(t) \in RefreshRows /\ NextLookup(t).name = refresh[t].name
             /\ NextLookup(t).pc # "send"
             /\ Serving(t) <=> (NextLookup(t).pc \notin {"none", "dead"}
                  /\ ~NextLookup(t).aborted)
  <2>1. CASE Known(refresh[t].name) /\ ~refresh[t].aborted
    <3>1. NextLookup(t) = [refresh[t] EXCEPT !.pc = "sleep", !.with = nameserver]
      BY <2>1 DEF NextLookup
    <3> QED
      BY <1>1, <1>4, <2>1, <3>1 DEF RefreshRows, TaskPcs, Serving
  <2>2. CASE ~(Known(refresh[t].name) /\ ~refresh[t].aborted)
    <3>1. NextLookup(t) = [refresh[t] EXCEPT !.pc = "dead"]
      BY <2>2 DEF NextLookup
    <3>2. ~Serving(t)
      BY <1>3, <2>2 DEF Serving
    <3> QED
      BY <1>1, <3>1, <3>2 DEF RefreshRows, TaskPcs
  <2> QED
    BY <2>1, <2>2
<1>5. CASE Expire(t)
  <2> DEFINE v == [refresh[t] EXCEPT !.pc = "lookup"]
  <2>1. v \in RefreshRows /\ v.name = refresh[t].name /\ v.pc = "lookup"
          /\ v.aborted = refresh[t].aborted
    BY <1>1 DEF RefreshRows, TaskPcs
  <2>2. refresh' = [refresh EXCEPT ![t] = v] /\ refresh[t].pc = "sleep"
          /\ UNCHANGED <<srvEntry, queue, fails, raced>>
    BY <1>1, <1>5 DEF Expire
  <2> HIDE DEF v
  <2>3. SrvTypeOK' /\ TasksOfNames' /\ TodoUnknown' /\ TasksCounted' /\ RaceKnown'
    BY <1>1, <1>2, <2>1, <2>2, TaskGoes DEF Serving
  <2>4. \A u \in TaskIds : refresh[u].pc = "send" => refresh'[u] = refresh[u]
    BY <1>1, <2>2
  <2>5. UpdateOnTheWay'
    BY <1>2, <2>2, <2>4 DEF SrvInv, UpdateOnTheWay
  <2> QED
    BY <2>3, <2>5 DEF SrvInv
<1>6. CASE Resolve(t)
  <2>1. PICK got \in Answers \union {Failed} : Lookup(refresh[t].with, got)
          /\ refresh' = [refresh EXCEPT ![t].pc = "answered", ![t].got = got]
    BY <1>6 DEF Resolve
  <2> DEFINE v == [refresh[t] EXCEPT !.pc = "answered", !.got = got]
  <2>2. v \in RefreshRows /\ v.name = refresh[t].name /\ v.pc = "answered"
          /\ v.aborted = refresh[t].aborted
    BY <1>1 DEF RefreshRows, TaskPcs
  <2>3. refresh' = [refresh EXCEPT ![t] = v] /\ refresh[t].pc = "lookup"
          /\ UNCHANGED <<srvEntry, queue, raced>>
    BY <1>1, <1>6, <2>1 DEF Resolve
  <2>4. fails' \in 0..MaxFails
    BY <1>1, <2>1, SrvAssumption DEF Lookup
  <2> HIDE DEF v
  <2>5. SrvTypeOK' /\ TasksOfNames' /\ TodoUnknown' /\ TasksCounted' /\ RaceKnown'
    BY <1>1, <1>2, <2>2, <2>3, <2>4, TaskGoes DEF Serving
  <2>6. \A u \in TaskIds : refresh[u].pc = "send" => refresh'[u] = refresh[u]
    BY <1>1, <2>3
  <2>7. UpdateOnTheWay'
    BY <1>2, <2>3, <2>6 DEF SrvInv, UpdateOnTheWay
  <2> QED
    BY <2>5, <2>7 DEF SrvInv
<1>7. CASE Apply(t)
  <2> DEFINE v == [refresh[t] EXCEPT !.pc = "send"]
             n == refresh[t].name
  <2>1. v \in RefreshRows /\ v.name = n /\ v.pc = "send" /\ v.aborted = refresh[t].aborted
    BY <1>1 DEF RefreshRows, TaskPcs
  <2>2. refresh' = [refresh EXCEPT ![t] = v] /\ refresh[t].pc = "answered"
          /\ UNCHANGED <<queue, fails>>
        /\ raced' = (raced \/ refresh[t].aborted)
    BY <1>1, <1>7 DEF Apply
  <2>3. /\ srvEntry' \in [Names -> EntryRows]
        /\ \A m \in Names : srvEntry'[m].task = srvEntry[m].task
        /\ \A m \in Names \ {n} : srvEntry'[m] = srvEntry[m]
    <3>1. refresh[t].got \in Answers
      BY <1>1, <1>7 DEF Apply, ChangedAnswer
    <3>2. srvEntry' = [srvEntry EXCEPT ![n].targets = refresh[t].got]
      BY <1>7 DEF Apply
    <3> QED
      BY <1>1, <3>1, <3>2 DEF EntryRows
  <2> HIDE DEF v
  <2>4. SrvTypeOK' /\ TasksOfNames' /\ TodoUnknown' /\ TasksCounted' /\ RaceKnown'
    BY <1>1, <1>2, <2>1, <2>2, <2>3, TaskGoes DEF Serving
  <2>5. refresh'[t].pc = "send" /\ refresh'[t].name = n
          /\ \A u \in TaskIds : refresh[u].pc = "send" => refresh'[u] = refresh[u]
    BY <1>1, <2>1, <2>2
  <2>6. UpdateOnTheWay'
    BY <1>0, <1>1, <1>2, <2>2, <2>3, <2>5 DEF SrvInv, UpdateOnTheWay, SrvTypeOK
  <2> QED
    BY <2>4, <2>6 DEF SrvInv
<1>8. CASE ApplySame(t)
  <2> DEFINE v == NextLookup(t)
  <2>1. refresh' = [refresh EXCEPT ![t] = v] /\ refresh[t].pc = "answered"
          /\ UNCHANGED <<srvEntry, queue, fails, raced>>
    BY <1>8 DEF ApplySame
  <2>2. /\ v \in RefreshRows /\ v.name = refresh[t].name /\ v.pc # "send"
        /\ Serving(t) <=> (v.pc \notin {"none", "dead"} /\ ~v.aborted)
    BY <1>4, <2>1
  <2> HIDE DEF v
  <2>3. SrvTypeOK' /\ TasksOfNames' /\ TodoUnknown' /\ TasksCounted' /\ RaceKnown'
    BY <1>1, <1>2, <2>1, <2>2, TaskGoes
  <2>4. \A u \in TaskIds : refresh[u].pc = "send" => refresh'[u] = refresh[u]
    BY <1>1, <2>1
  <2>5. UpdateOnTheWay'
    BY <1>2, <2>1, <2>4 DEF SrvInv, UpdateOnTheWay
  <2> QED
    BY <2>3, <2>5 DEF SrvInv
<1>9. CASE SendUpdate(t)
  <2> DEFINE v == NextLookup(t)
  <2>1. refresh' = [refresh EXCEPT ![t] = v] /\ refresh[t].pc = "send"
          /\ UNCHANGED <<srvEntry, fails, raced>> /\ queue' = "srv"
    BY <1>9 DEF SendUpdate
  <2>2. /\ v \in RefreshRows /\ v.name = refresh[t].name /\ v.pc # "send"
        /\ Serving(t) <=> (v.pc \notin {"none", "dead"} /\ ~v.aborted)
    BY <1>4, <2>1
  <2> HIDE DEF v
  <2>3. SrvTypeOK' /\ TasksOfNames' /\ TodoUnknown' /\ TasksCounted' /\ RaceKnown'
    BY <1>1, <1>2, <2>1, <2>2, TaskGoes
  <2>4. UpdateOnTheWay'
    BY <2>1 DEF UpdateOnTheWay
  <2> QED
    BY <2>3, <2>4 DEF SrvInv
<1>10. CASE AbortedSend(t)
  <2> DEFINE v == [refresh[t] EXCEPT !.pc = "dead"]
  <2>1. v \in RefreshRows /\ v.name = refresh[t].name /\ v.pc = "dead"
    BY <1>1 DEF RefreshRows, TaskPcs
  <2>2. refresh' = [refresh EXCEPT ![t] = v] /\ refresh[t].pc = "send"
          /\ refresh[t].aborted /\ UNCHANGED <<srvEntry, queue, fails, raced>>
    BY <1>1, <1>10 DEF AbortedSend
  <2> HIDE DEF v
  <2>3. SrvTypeOK' /\ TasksOfNames' /\ TodoUnknown' /\ TasksCounted' /\ RaceKnown'
    BY <1>1, <1>2, <2>1, <2>2, TaskGoes DEF Serving
  <2>4. UpdateOnTheWay'
    BY <2>2 DEF SrvInv, RaceKnown, UpdateOnTheWay
  <2> QED
    BY <2>3, <2>4 DEF SrvInv
<1> QED
  BY <1>5, <1>6, <1>7, <1>8, <1>9, <1>10 DEF TaskStep

\* Every step of the resolver keeps the invariant.
LEMMA SrvStepInv == SrvInv /\ [SrvNext]_srvVars => SrvInv'
<1> SUFFICES ASSUME SrvInv, [SrvNext]_srvVars PROVE SrvInv'
  OBVIOUS
<1>0. SrvTypeOK
  BY DEF SrvInv
<1>1. CASE OtherCommand
  <2>1. SrvTypeOK' /\ UpdateOnTheWay'
    BY <1>0, <1>1 DEF OtherCommand, SrvInv, SrvTypeOK, UpdateOnTheWay
  <2> QED
    BY <1>1, <2>1, TasksStay DEF OtherCommand, SrvInv, TodoUnknown
<1>2. CASE RecordsChange
  <2>1. records' \in [Nameservers -> Answers] /\ UNCHANGED <<nameserver, wanted, srvEntry,
          spawned, refresh, queue, server, loaded, fails, changes, raced>>
    BY <1>0, <1>2, SrvAssumption DEF RecordsChange, SrvTypeOK, Answers
  <2> QED
    <3>1. SrvTypeOK' /\ UpdateOnTheWay'
      BY <1>0, <2>1 DEF SrvInv, SrvTypeOK, UpdateOnTheWay
    <3> QED
      BY <2>1, <3>1, TasksStay DEF SrvInv, TodoUnknown
<1>3. CASE OtherSender
  <2>1. /\ changes' = changes + 1 /\ changes' \in 0..MaxChanges /\ queue = "empty"
          /\ queue' = "other"
        /\ UNCHANGED <<records, nameserver, wanted, srvEntry, spawned, refresh, server,
             loaded, fails, raced>>
    BY <1>0, <1>3, SrvTypes, SrvAssumption DEF OtherSender
  <2>2. SrvTypeOK'
    BY <1>0, <2>1 DEF SrvTypeOK
  <2>3. TasksCounted'
    <3> DEFINE k == Cardinality(Names)
               s == Cardinality(server.todo)
               x == changes * k
    <3>1. k \in Nat /\ s \in Nat /\ spawned \in Nat /\ changes \in Nat
      BY <1>0, SrvTypes, SrvConstants, TodoFinite
    <3>2. x \in Nat /\ changes' * k = x + k /\ spawned + s <= x
      BY <2>1, <3>1 DEF SrvInv, TasksCounted
    <3> HIDE DEF k, s, x
    <3>3. spawned + s <= changes' * k
      BY <3>1, <3>2
    <3> QED
      BY <2>1, <3>3 DEF TasksCounted, k, s
  <2> QED
    BY <2>1, <2>2, <2>3, TasksStay DEF SrvInv, TodoUnknown, UpdateOnTheWay
<1>4. CASE UNCHANGED srvVars
  <2>1. SrvTypeOK' /\ UpdateOnTheWay'
    BY <1>0, <1>4 DEF srvVars, SrvInv, SrvTypeOK, UpdateOnTheWay
  <2> QED
    BY <1>4, <2>1, TasksStay DEF srvVars, SrvInv, TodoUnknown
<1> QED
  BY <1>1, <1>2, <1>3, <1>4, ReloadStep, SyncStep, BuildStep, TaskStepInv
     DEF SrvNext, ServerLoop

\* The invariant is the property of the run, and more.
LEMMA SrvInvHolds == SrvInv => NamesRefreshed
<1> SUFFICES ASSUME SrvInv PROVE OneRefresh
  BY DEF SrvInv, NamesRefreshed
<1> SUFFICES ASSUME NEW n \in Names
             PROVE  {t \in TaskIds : refresh[t].pc \notin {"none", "dead"}
                    /\ refresh[t].name = n
                       /\ ~refresh[t].aborted} = {srvEntry[n].task} \ {NoRefresh}
  BY DEF OneRefresh
<1>1. srvEntry[n].task \in TaskIds \union {NoRefresh} /\ NoRefresh \notin TaskIds
  BY SrvTypes DEF SrvInv
<1> QED
  BY <1>1 DEF SrvInv, TasksOfNames, Serving

\* For any number of names, name servers and changes: every name the proxies use has exactly
\* one refresh task, and targets that the proxies were not built with are on their way to
\* them, unless an aborted task raced its successor (srv.rs).
THEOREM SrvNamesRefreshed == SrvSpec => []NamesRefreshed
<1>1. SrvInit => SrvInv
  BY SrvInitInv
<1>2. SrvInv /\ [SrvNext]_srvVars => SrvInv'
  BY SrvStepInv
<1>3. SrvInv => NamesRefreshed
  BY SrvInvHolds
<1> QED
  BY <1>1, <1>2, <1>3, PTL DEF SrvSpec

-----------------------------------------------------------------------------
(* Discovery.  A snapshot is taken over only when its generation is the current *)
(* one, so TasksStarted relates the generations, the setting and the channel. *)

\* The rows of the tasks and of the record.
WatchRows == [pc : WatchPcs, read : Revisions]
RecordRows == [there : BOOLEAN, gen : 0..MaxGeneration, read : Revisions, proxies : BOOLEAN]

\* A provider that is on has a task, and before the first task there is no snapshot.
TasksStarted ==
  /\ running <=> setting = "on"
  /\ generation = 0 => snapshots = <<>>
  /\ \A g \in Generations : watch[g].pc # "none" => generation # 0

\* The inductive invariant.
DiscoveryInv == DiscoveryCurrent /\ TasksStarted

\* No provider runs at the start.
LEMMA DiscoveryInitInv == DiscoveryInit => DiscoveryInv
<1> SUFFICES ASSUME DiscoveryInit PROVE DiscoveryInv
  OBVIOUS
<1>1. 0 \in Revisions /\ 0 \in 0..MaxGeneration /\ 0 \in 0..MaxErrors
  BY DiscoveryAssumption DEF Revisions
<1>2. watch \in [Generations -> [pc : WatchPcs, read : Revisions]]
  BY <1>1 DEF DiscoveryInit, NoTask, WatchPcs
<1>3. record \in [there : BOOLEAN, gen : 0..MaxGeneration, read : Revisions, proxies : BOOLEAN]
      /\ ~record.proxies
  BY <1>1 DEF DiscoveryInit, NoRecord
<1>4. snapshots \in Seq(Snapshots)
  BY DEF DiscoveryInit
<1> QED
  BY <1>1, <1>2, <1>3, <1>4 DEF DiscoveryInit, DiscoveryInv, DiscoveryCurrent, DiscoveryTypeOK,
    ProxiesOfRunning, TasksStarted, NoTask

\* A task that moves, and at most sends a snapshot of its own.
LEMMA WatchMoves ==
  ASSUME DiscoveryInv, NEW g \in Generations, NEW v \in WatchRows,
         watch' = [watch EXCEPT ![g] = v],
         v.pc # "none" => watch[g].pc # "none",
         \/ UNCHANGED snapshots
         \/ watch[g].pc # "none" /\ \E full \in BOOLEAN : snapshots' = Append(snapshots,
              Snapshot(g, full, watch[g].read)),
         UNCHANGED <<follows, revision, setting, generation, running, record>>,
                   errors' \in 0..MaxErrors
  PROVE  DiscoveryInv'
<1>1. watch \in [Generations -> WatchRows] /\ snapshots \in Seq(Snapshots)
  BY DEF DiscoveryInv, DiscoveryCurrent, DiscoveryTypeOK, WatchRows
<1>2. watch' \in [Generations -> WatchRows] /\ \A h \in Generations :
        watch'[h].pc # "none" => watch[h].pc # "none"
  BY <1>1
<1>3. snapshots' \in Seq(Snapshots)
  <2>1. \A full \in BOOLEAN : Snapshot(g, full, watch[g].read) \in Snapshots
    BY <1>1 DEF Snapshot, Snapshots, WatchRows
  <2> QED
    BY <1>1, <2>1, AppendProperties
<1>4. DiscoveryTypeOK'
  BY <1>2, <1>3 DEF DiscoveryInv, DiscoveryCurrent, DiscoveryTypeOK, WatchRows
<1>5. TasksStarted'
  BY <1>2 DEF DiscoveryInv, TasksStarted
<1> QED
  BY <1>4, <1>5 DEF DiscoveryInv, DiscoveryCurrent, ProxiesOfRunning

\* The steps of a discovery task.
LEMMA TaskMoves ==
  ASSUME DiscoveryInv, NEW g \in Generations, WatchStep(g) \/ WatchFails(g) \/ Aborted(g)
  PROVE  DiscoveryInv'
<1>1. /\ watch \in [Generations -> WatchRows] /\ watch[g] \in WatchRows
        /\ revision \in Revisions
      /\ errors \in 0..MaxErrors
  BY DEF DiscoveryInv, DiscoveryCurrent, DiscoveryTypeOK, WatchRows
<1>2. ASSUME NEW p \in WatchPcs, WatchAt(g, p)
      PROVE  /\ [watch[g] EXCEPT !.pc = p] \in WatchRows
             /\ [watch[g] EXCEPT !.pc = p].pc = p
             /\ watch' = [watch EXCEPT ![g] = [watch[g] EXCEPT !.pc = p]]
  BY <1>1, <1>2 DEF WatchAt, WatchRows
<1>3. {"open", "read", "wait", "failed", "backoff"} \subseteq WatchPcs
  BY DEF WatchPcs
<1>4. ASSUME NEW p \in WatchPcs, WatchAt(g, p), UNCHANGED <<follows, revision, setting,
        generation, running, record>>,
             errors' \in 0..MaxErrors, watch[g].pc # "none",
             \/ UNCHANGED snapshots
             \/ \E full \in BOOLEAN : snapshots' = Append(snapshots, Snapshot(g, full,
                  watch[g].read))
      PROVE  DiscoveryInv'
  <2> DEFINE v == [watch[g] EXCEPT !.pc = p]
  <2>1. v \in WatchRows /\ v.pc = p /\ watch' = [watch EXCEPT ![g] = v]
    BY <1>2, <1>4
  <2> HIDE DEF v
  <2> QED
    BY <1>4, <2>1, WatchMoves
<1>5. CASE Hello(g)
  <2>1. WatchAt(g, "open") /\ snapshots' = Append(snapshots, Snapshot(g, FALSE, watch[g].read))
        /\ watch[g].pc = "hello" /\ UNCHANGED <<follows, revision, setting, generation,
             running, record, errors>>
    BY <1>5 DEF Hello, Report
  <2> QED
    BY <1>1, <1>3, <1>4, <2>1
<1>6. CASE ReportAll(g)
  <2>1. WatchAt(g, "wait") /\ snapshots' = Append(snapshots, Snapshot(g, TRUE, watch[g].read))
        /\ watch[g].pc = "report" /\ UNCHANGED <<follows, revision, setting, generation,
             running, record, errors>>
    BY <1>6 DEF ReportAll, Report
  <2> QED
    BY <1>1, <1>3, <1>4, <2>1
<1>7. CASE ReportFailure(g)
  <2>1. WatchAt(g, "backoff") /\ snapshots' = Append(snapshots, Snapshot(g, FALSE,
          watch[g].read))
        /\ watch[g].pc = "failed" /\ UNCHANGED <<follows, revision, setting, generation,
             running, record, errors>>
    BY <1>7 DEF ReportFailure, Report
  <2> QED
    BY <1>1, <1>3, <1>4, <2>1
<1>8. CASE OpenStream(g) \/ Changed(g) \/ BackoffPasses(g)
  BY <1>1, <1>3, <1>4, <1>8 DEF OpenStream, Changed, BackoffPasses
<1>9. CASE WatchFails(g)
  <2>1. errors' \in 0..MaxErrors
    BY <1>1, <1>9, DiscoveryAssumption DEF WatchFails
  <2> QED
    BY <1>1, <1>3, <1>4, <1>9, <2>1 DEF WatchFails
<1>10. CASE ReadAll(g)
  <2> DEFINE v == [pc |-> "report", read |-> revision]
  <2>1. v \in WatchRows /\ v.pc = "report"
    BY <1>1 DEF WatchRows, WatchPcs
  <2> HIDE DEF v
  <2>2. watch' = [watch EXCEPT ![g] = v] /\ watch[g].pc = "read"
          /\ UNCHANGED <<follows, revision, setting, generation, running, snapshots,
               record, errors>>
    BY <1>10 DEF ReadAll, v
  <2> QED
    BY <1>1, <2>1, <2>2, WatchMoves
<1>11. CASE Aborted(g)
  <2>1. NoTask \in WatchRows /\ NoTask.pc = "none"
    BY DiscoveryAssumption DEF NoTask, WatchRows, WatchPcs, Revisions
  <2> QED
    BY <1>1, <1>11, <2>1, WatchMoves DEF Aborted
<1> QED
  BY <1>5, <1>6, <1>7, <1>8, <1>9, <1>10, <1>11 DEF WatchStep

\* The new settings: the proxies go, and so does the running task.
LEMMA RestartStep ==
  ASSUME DiscoveryInv, NEW s \in {"off", "on", "bad"}, RestartDiscovery(s)
  PROVE  DiscoveryInv'
<1>1. /\ watch \in [Generations -> WatchRows] /\ generation \in 0..MaxGeneration
  BY DEF DiscoveryInv, DiscoveryCurrent, DiscoveryTypeOK, WatchRows
<1>2. record' \in RecordRows /\ ~record'.proxies
  <2>1. 0 \in Revisions /\ 0 \in 0..MaxGeneration /\ (s = "bad") \in BOOLEAN
    BY DiscoveryAssumption DEF Revisions
  <2>2. PICK b \in BOOLEAN : record' = [NoRecord EXCEPT !.there = b]
    BY <2>1 DEF RestartDiscovery
  <2> QED
    BY <2>1, <2>2 DEF NoRecord, RecordRows
<1>3. CASE s = "on"
  <2>1. generation + 1 \in Generations /\ generation' = generation + 1
          /\ generation' \in 0..MaxGeneration /\ generation' # 0
    BY <1>1, <1>3, DiscoveryAssumption DEF RestartDiscovery, Generations
  <2>2. [NoTask EXCEPT !.pc = "hello"] \in WatchRows
    BY DiscoveryAssumption DEF NoTask, WatchRows, WatchPcs, Revisions
  <2>3. watch' \in [Generations -> WatchRows]
    BY <1>1, <1>3, <2>1, <2>2 DEF RestartDiscovery
  <2>4. running' = TRUE /\ setting' = "on" /\ UNCHANGED <<follows, revision, snapshots,
          errors>>
    BY <1>3 DEF RestartDiscovery
  <2> QED
    BY <1>2, <2>1, <2>3, <2>4 DEF DiscoveryInv, DiscoveryCurrent, DiscoveryTypeOK,
       WatchRows, RecordRows, TasksStarted, ProxiesOfRunning
<1>4. CASE s # "on"
  <2>1. running' = FALSE /\ setting' = s /\ UNCHANGED <<follows, revision, snapshots,
          errors, generation, watch>>
    BY <1>4 DEF RestartDiscovery
  <2> QED
    BY <1>2, <1>4, <2>1 DEF DiscoveryInv, DiscoveryCurrent, DiscoveryTypeOK, WatchRows,
       RecordRows, TasksStarted, ProxiesOfRunning
<1> QED
  BY <1>3, <1>4

\* A snapshot that is accepted is of the running task.
LEMMA SnapshotStep ==
  ASSUME DiscoveryInv, SetDiscovery
  PROVE  DiscoveryInv'
<1>1. snapshots \in Seq(Snapshots) /\ snapshots # <<>> /\ record \in RecordRows
        /\ generation \in 0..MaxGeneration
  BY DEF DiscoveryInv, DiscoveryCurrent, DiscoveryTypeOK, RecordRows, SetDiscovery
<1> DEFINE s == Head(snapshots)
<1>2. s \in Snapshots /\ snapshots' \in Seq(Snapshots)
  BY <1>1, HeadTailProperties DEF SetDiscovery
<1>3. s.gen \in 0..MaxGeneration /\ s.full \in BOOLEAN /\ s.read \in Revisions
  <2>1. s.gen \in Generations /\ s.full \in BOOLEAN /\ s.read \in Revisions
    BY <1>2 DEF Snapshots
  <2> QED
    BY <2>1, DiscoveryAssumption DEF Generations
<1> HIDE DEF s
<1>4. generation # 0 /\ (running <=> setting = "on")
  BY <1>1 DEF DiscoveryInv, TasksStarted
<1>5. UNCHANGED <<follows, revision, setting, generation, running, watch, errors>>
  BY DEF SetDiscovery
<1>6. /\ record' \in RecordRows
      /\ record'.proxies => setting = "on" /\ running /\ record'.gen = generation
  <2>1. CASE Accepts(s)
    <3>1. record' = Update(s) /\ running /\ s.gen = generation
      BY <1>4, <2>1 DEF SetDiscovery, Accepts, s
    <3>2. Update(s) \in RecordRows /\ Update(s).gen = s.gen
      BY <1>1, <1>3 DEF Update, RecordRows
    <3> QED
      BY <1>4, <3>1, <3>2
  <2>2. CASE ~Accepts(s)
    <3>1. record' = record
      BY <2>2 DEF SetDiscovery, s
    <3> QED
      BY <1>1, <3>1 DEF DiscoveryInv, DiscoveryCurrent, ProxiesOfRunning
  <2> QED
    BY <2>1, <2>2
<1> QED
  BY <1>2, <1>4, <1>5, <1>6 DEF DiscoveryInv, DiscoveryCurrent, DiscoveryTypeOK, RecordRows,
     TasksStarted, ProxiesOfRunning

\* Every step of the provider keeps the invariant.
LEMMA DiscoveryStepInv == DiscoveryInv /\ [DiscoveryNext]_discoveryVars => DiscoveryInv'
<1> SUFFICES ASSUME DiscoveryInv, [DiscoveryNext]_discoveryVars PROVE DiscoveryInv'
  OBVIOUS
<1>1. CASE ResourcesChange
  BY <1>1, DiscoveryAssumption
     DEF ResourcesChange, DiscoveryInv, DiscoveryCurrent, DiscoveryTypeOK,
     TasksStarted, ProxiesOfRunning, Revisions
<1>2. CASE UNCHANGED discoveryVars
  BY <1>2 DEF discoveryVars, DiscoveryInv, DiscoveryCurrent, DiscoveryTypeOK,
     TasksStarted, ProxiesOfRunning
<1> QED
  BY <1>1, <1>2, TaskMoves, RestartStep, SnapshotStep DEF DiscoveryNext

\* For any number of restarts, resources and errors: the discovered proxies belong to the
\* task that runs, never to one that was stopped (discovery.rs).
THEOREM DiscoveredCurrent == DiscoverySpec => []DiscoveryCurrent
<1>1. DiscoveryInit => DiscoveryInv
  BY DiscoveryInitInv
<1>2. DiscoveryInv /\ [DiscoveryNext]_discoveryVars => DiscoveryInv'
  BY DiscoveryStepInv
<1>3. DiscoveryInv => DiscoveryCurrent
  BY DEF DiscoveryInv
<1> QED
  BY <1>1, <1>2, <1>3, PTL DEF DiscoverySpec
=============================================================================
