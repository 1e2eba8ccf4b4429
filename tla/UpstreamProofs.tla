--------------------------- MODULE UpstreamProofs ---------------------------
(***************************************************************************)
(* Proofs about Upstream, for any number of servers, requests and reloads,  *)
(* and about RoundRobin, for any number of servers and any weights.         *)
(***************************************************************************)
EXTENDS Upstream, RoundRobin, FiniteSetTheorems, WellFoundedInduction, TLAPS

\* The sizes of the counters and of the timers.
LEMMA Bounds ==
  /\ Window \in Nat /\ OpenDuration \in Nat /\ FailTimeout \in Nat
  /\ CounterMax \in Nat /\ MaxFails \in Nat /\ Attempts \in Nat \ {0}
  /\ MaxReloads \in Nat /\ MinRequests \in Nat \ {0}
BY UpstreamAssumption

-----------------------------------------------------------------------------
(* The operators of one breaker and of one health record.                   *)

\* Every operation of a Breaker returns a Breaker: the counters saturate.
LEMMA BreakerTypes ==
  ASSUME NEW b \in Breakers, NEW failed \in BOOLEAN, NEW trial \in BOOLEAN
  PROVE  /\ ClosedBreaker \in Breakers /\ OpenBreaker \in Breakers
         /\ Admit(b) \in Breakers
         /\ Record(b, trial, failed) \in Breakers
         /\ ReleaseTrial(b) \in Breakers
<1> USE Bounds
<1>1. ClosedBreaker \in Breakers
  BY DEF ClosedBreaker, Breakers, Circuits
<1>2. OpenBreaker \in Breakers
  BY DEF OpenBreaker, ClosedBreaker, Breakers, Circuits
<1>3. Admit(b) \in Breakers /\ ReleaseTrial(b) \in Breakers
  BY DEF Admit, ReleaseTrial, Breakers, Circuits
<1>4. \A n \in 0..CounterMax : Saturating(n) \in 0..CounterMax
  BY DEF Saturating
<1>5. Count(b, failed) \in Breakers
  <2> DEFINE old(n) == IF b.window > 0 THEN n ELSE 0
             w == IF b.window > 0 THEN b.window ELSE Window
             q == Saturating(old(b.requests))
             f == IF failed THEN Saturating(old(b.failures)) ELSE old(b.failures)
  <2>1. w \in 0..Window /\ q \in 0..CounterMax /\ f \in 0..CounterMax
    BY <1>4 DEF Breakers
  <2>2. Count(b, failed) = [circuit |-> b.circuit, trial |-> b.trial, left |-> b.left,
                            window |-> w, requests |-> q, failures |-> f]
    BY DEF Count, Breakers
  <2> HIDE DEF w, q, f
  <2> QED BY <2>1, <2>2 DEF Breakers
<1>6. Record(b, trial, failed) \in Breakers
  BY <1>1, <1>2, <1>5 DEF Record
<1> QED BY <1>1, <1>2, <1>3, <1>6

\* Every operation of a ServerHealth returns a ServerHealth.
LEMMA HealthTypes ==
  ASSUME NEW h \in Healths, NEW passed \in BOOLEAN
  PROVE  /\ GoodHealth \in Healths
         /\ ReportSuccess(h) \in Healths /\ ReportFailure(h) \in Healths
         /\ RecordCheck(h, passed) \in Healths
<1> USE Bounds
<1>1. GoodHealth \in Healths
  BY DEF GoodHealth, Healths
<1>2. ReportSuccess(h) \in Healths
  BY DEF ReportSuccess, Healths
<1>3. ReportFailure(h) \in Healths
  BY DEF ReportFailure, Healths, Saturating
<1>4. RecordCheck(h, passed) \in Healths
  BY <1>1 DEF RecordCheck, Healths
<1> QED BY <1>1, <1>2, <1>3, <1>4

\* What record does to the slot of the trial: a trial of a half-open circuit
\* frees it, and every other result leaves a taken slot alone.
LEMMA RecordSlot ==
  ASSUME NEW b \in Breakers, NEW failed \in BOOLEAN
  PROVE  /\ b.circuit = "half" => Record(b, TRUE, failed).circuit # "half"
         /\ b.circuit = "half" => Record(b, FALSE, failed) = b
         /\ b.circuit # "half" => Record(b, FALSE, failed).circuit # "half"
BY DEF Record, OpenBreaker, ClosedBreaker, Count, Breakers, Circuits

-----------------------------------------------------------------------------
(* Types, and what every request keeps.                                     *)

\* A request record is typed when its fields are.
LEMMA ReqType ==
  ASSUME NEW step \in Steps, NEW g \in Gens, NEW tiers \in Tiers,
         NEW s \in Servers, NEW trial \in BOOLEAN, NEW tries \in 0..Attempts
  PROVE  Req(step, g, tiers, s, trial, tries) \in ReqStates
BY DEF Req, ReqStates

LEMMA NoRequestType == NoRequest \in ReqStates /\ NoTiers \in Tiers
<1>1. NoTiers \in Tiers
  BY DEF NoTiers, Tiers
<1>2. (CHOOSE s \in Servers : TRUE) \in Servers
  BY UpstreamAssumption
<1>3. 0 \in Gens /\ 0 \in 0..Attempts /\ "idle" \in Steps
  BY Bounds DEF Gens, Steps
<1> QED BY <1>1, <1>2, <1>3 DEF NoRequest, Req, ReqStates

\* The candidates are three sets of servers.
LEMMA CandidatesType ==
  ASSUME NEW g, NEW pinned \in SUBSET Servers
  PROVE  Candidates(g, pinned) \in Tiers
BY DEF Candidates, Tiers

\* The part of TypeOK that does not need the counters.
PartTypeOK ==
  /\ breaker \in [Gens -> [Servers -> Breakers]]
  /\ health \in [Gens -> [Servers -> Healths]]
  /\ req \in [Requests -> ReqStates]
  /\ cur \in Gens
  /\ clear \in [Requests -> SUBSET Servers]

LEMMA ObserveType ==
  ASSUME PartTypeOK, Observe
  PROVE  clear' \in [Requests -> SUBSET Servers]
BY DEF PartTypeOK, Observe, Unblocked

\* One cell of a table changes.
LEMMA AtType ==
  ASSUME NEW T, NEW f \in [Gens -> [Servers -> T]], NEW g \in Gens,
         NEW s \in Servers, NEW v \in T
  PROVE  At(f, g, s, v) \in [Gens -> [Servers -> T]]
BY DEF At

\* The steps of a request keep the types and ReqInv.
LEMMA RequestTypes ==
  ASSUME PartTypeOK, ReqInv, NEW r \in Requests, Request(r)
  PROVE  /\ breaker' \in [Gens -> [Servers -> Breakers]]
         /\ health' \in [Gens -> [Servers -> Healths]]
         /\ req' \in [Requests -> ReqStates]
         /\ cur' = cur
         /\ Observe
         /\ ReqInv'
<1> DEFINE q == req[r]
<1>0. q \in ReqStates /\ q.group \in Gens /\ q.server \in Servers /\ q.trial \in BOOLEAN
      /\ q.tiers \in Tiers /\ q.tries \in 0..Attempts
  BY DEF PartTypeOK, ReqStates
<1>b. breaker[q.group][q.server] \in Breakers /\ health[q.group][q.server] \in Healths
  BY <1>0 DEF PartTypeOK
<1>s. /\ "ready" \in Steps /\ "sent" \in Steps /\ "guard" \in Steps
      /\ "refused" \in Steps /\ 0 \in 0..Attempts /\ TRUE \in BOOLEAN /\ FALSE \in BOOLEAN
  BY Bounds DEF Steps
<1>u. ASSUME NEW p \in ReqStates, req' = [req EXCEPT ![r] = p], cur' = cur,
             p.group <= cur, p.step = "ready" => p.tries < Attempts,
             p.step = "sent" => p.tries > 0,
             p.trial => p.step = "sent" /\ Enabled[p.group]
      PROVE  req' \in [Requests -> ReqStates] /\ ReqInv'
  BY <1>u DEF PartTypeOK, ReqInv
<1>n. /\ NoRequest.group <= cur /\ NoRequest.step = "idle" /\ ~NoRequest.trial
  BY Bounds DEF NoRequest, Req, PartTypeOK, Gens
<1>c. ASSUME NEW failed \in BOOLEAN, RecordCircuit(r, failed)
      PROVE  breaker' \in [Gens -> [Servers -> Breakers]]
  <2>1. Record(breaker[q.group][q.server], q.trial, failed) \in Breakers
    BY <1>0, <1>b, BreakerTypes
  <2> QED BY <2>1, <1>0, <1>c, AtType DEF RecordCircuit, PartTypeOK
<1>1. CASE Select(r)
  <2>1. PICK pinned \in SUBSET Servers :
          req' = [req EXCEPT ![r] = Req("ready", cur, Candidates(cur, pinned), q.server, FALSE, 0)]
    BY <1>1 DEF Select
  <2>2. Req("ready", cur, Candidates(cur, pinned), q.server, FALSE, 0) \in ReqStates
    BY <1>0, <1>s, ReqType, CandidatesType DEF PartTypeOK
  <2>3. cur' = cur /\ breaker' = breaker /\ health' = health /\ Observe
    BY <1>1 DEF Select
  <2>4. req' \in [Requests -> ReqStates] /\ ReqInv'
    <3> DEFINE p == Req("ready", cur, Candidates(cur, pinned), q.server, FALSE, 0)
    <3>1. p.group = cur /\ p.step = "ready" /\ p.tries = 0 /\ ~p.trial
      BY DEF Req
    <3>2. cur <= cur /\ 0 < Attempts
      BY Bounds DEF PartTypeOK, Gens
    <3>3. p \in ReqStates /\ req' = [req EXCEPT ![r] = p]
      BY <2>1, <2>2
    <3> HIDE DEF p
    <3> QED BY <3>1, <3>2, <3>3, <2>3, <1>u
  <2> QED BY <2>3, <2>4 DEF PartTypeOK
<1>2. CASE Acquire(r)
  <2> DEFINE Rest(i, s) == [q.tiers EXCEPT ![i] = @ \ {s}]
             Skip(i, s) ==
               /\ req' = [req EXCEPT ![r] = Req("ready", q.group, Rest(i, s), q.server, FALSE, q.tries)]
               /\ breaker' = breaker
             Take(i, s) ==
               /\ breaker' = IF Enabled[q.group]
                               THEN At(breaker, q.group, s, Admit(breaker[q.group][s]))
                               ELSE breaker
               /\ req' = [req EXCEPT ![r] = Req("sent", q.group, Rest(i, s), s,
                     Enabled[q.group] /\ breaker[q.group][s].circuit # "closed", q.tries + 1)]
  <2>0. PICK i \in 1..3 : \E s \in q.tiers[i] : Skip(i, s) \/ Take(i, s)
    BY <1>2 DEF Acquire
  <2>1. PICK s \in q.tiers[i] : Skip(i, s) \/ Take(i, s)
    BY <2>0
  <2> DEFINE rest == Rest(i, s)
  <2>2. s \in Servers /\ rest \in Tiers
    BY <1>0 DEF Tiers
  <2> HIDE DEF rest
  <2>3. cur' = cur /\ health' = health /\ Observe /\ q.step = "ready"
    BY <1>2 DEF Acquire
  <2>4. q.tries < Attempts /\ q.group <= cur /\ q.tries + 1 \in 0..Attempts
        /\ q.tries + 1 > 0
    BY <2>3, <1>0, Bounds DEF ReqInv
  <2>5. CASE /\ req' = [req EXCEPT ![r] = Req("ready", q.group, rest, q.server, FALSE, q.tries)]
             /\ breaker' = breaker
    <3>1. Req("ready", q.group, rest, q.server, FALSE, q.tries) \in ReqStates
      BY <1>0, <1>s, <2>2, ReqType
    <3>2. req' \in [Requests -> ReqStates] /\ ReqInv'
      BY <3>1, <2>3, <2>4, <2>5, <1>u DEF Req
    <3> QED BY <3>2, <2>3, <2>5 DEF PartTypeOK
  <2>6. CASE /\ breaker' = IF Enabled[q.group]
                             THEN At(breaker, q.group, s, Admit(breaker[q.group][s]))
                             ELSE breaker
             /\ req' = [req EXCEPT ![r] = Req("sent", q.group, rest, s,
                   Enabled[q.group] /\ breaker[q.group][s].circuit # "closed", q.tries + 1)]
    <3> DEFINE t == Enabled[q.group] /\ breaker[q.group][s].circuit # "closed"
    <3>0. t \in BOOLEAN /\ (t => Enabled[q.group])
      OBVIOUS
    <3> HIDE DEF t
    <3>1. Req("sent", q.group, rest, s, t, q.tries + 1) \in ReqStates
      BY <1>0, <1>s, <2>2, <2>4, <3>0, ReqType
    <3>2. req' \in [Requests -> ReqStates] /\ ReqInv'
      BY <3>0, <3>1, <2>3, <2>4, <2>6, <1>u DEF Req, t
    <3>3. Admit(breaker[q.group][s]) \in Breakers
      BY <1>0, <2>2, BreakerTypes DEF PartTypeOK
    <3>4. breaker' \in [Gens -> [Servers -> Breakers]]
      BY <3>3, <1>0, <2>2, <2>6, AtType DEF PartTypeOK
    <3> QED BY <3>2, <3>4, <2>3 DEF PartTypeOK
  <2> QED BY <2>1, <2>5, <2>6 DEF rest
<1>3. CASE Exhausted(r)
  <2>1. cur' = cur /\ breaker' = breaker /\ health' = health /\ Observe
    BY <1>3 DEF Exhausted
  <2>2. Req("refused", q.group, NoTiers, q.server, FALSE, 0) \in ReqStates
    BY <1>0, <1>s, ReqType, NoRequestType
  <2>3. req' \in [Requests -> ReqStates] /\ ReqInv'
    <3>1. CASE req' = [req EXCEPT ![r] = NoRequest]
      BY <3>1, <2>1, <1>n, <1>u, NoRequestType
    <3>2. CASE req' = [req EXCEPT ![r] = Req("refused", q.group, NoTiers, q.server, FALSE, 0)]
      BY <3>2, <2>1, <2>2, <1>u DEF Req, ReqInv
    <3> QED BY <3>1, <3>2, <1>3 DEF Exhausted
  <2> QED BY <2>1, <2>3 DEF PartTypeOK
<1>4. CASE Succeed(r)
  <2>1. cur' = cur /\ Observe /\ breaker' \in [Gens -> [Servers -> Breakers]]
    BY <1>4, <1>c DEF Succeed
  <2>2. Req("guard", q.group, NoTiers, q.server, FALSE, 0) \in ReqStates
    BY <1>0, <1>s, ReqType, NoRequestType
  <2>3. req' \in [Requests -> ReqStates] /\ ReqInv'
    BY <1>4, <2>1, <2>2, <1>u DEF Succeed, Req, ReqInv
  <2>4. health' \in [Gens -> [Servers -> Healths]]
    BY <1>4, <1>0, <1>b, HealthTypes, AtType DEF Succeed, PartTypeOK
  <2> QED BY <2>1, <2>3, <2>4
<1>5. CASE FailTry(r)
  <2>1. cur' = cur /\ Observe /\ breaker' \in [Gens -> [Servers -> Breakers]]
    BY <1>5, <1>c DEF FailTry
  <2>2. Req("ready", q.group, q.tiers, q.server, FALSE, q.tries) \in ReqStates
    BY <1>0, <1>s, ReqType
  <2>3. req' \in [Requests -> ReqStates] /\ ReqInv'
    <3>1. CASE req' = [req EXCEPT ![r] = NoRequest]
      BY <3>1, <2>1, <1>n, <1>u, NoRequestType
    <3>2. CASE /\ q.tries < Attempts
               /\ req' = [req EXCEPT ![r] = Req("ready", q.group, q.tiers, q.server, FALSE, q.tries)]
      BY <3>2, <2>1, <2>2, <1>u DEF Req, ReqInv
    <3> QED BY <3>1, <3>2, <1>5 DEF FailTry
  <2>4. health' \in [Gens -> [Servers -> Healths]]
    <3>1. PICK h \in Healths : health' = At(health, q.group, q.server, h)
      BY <1>5, <1>b, HealthTypes DEF FailTry
    <3>2. At(health, q.group, q.server, h) \in [Gens -> [Servers -> Healths]]
      BY <1>0, AtType DEF PartTypeOK
    <3> QED BY <3>1, <3>2
  <2> QED BY <2>1, <2>3, <2>4
<1>6. CASE Abandon(r)
  <2>1. cur' = cur /\ Observe /\ health' = health /\ req' = [req EXCEPT ![r] = NoRequest]
    BY <1>6 DEF Abandon
  <2>2. breaker' \in [Gens -> [Servers -> Breakers]]
    <3>1. ReleaseTrial(breaker[q.group][q.server]) \in Breakers
      BY <1>0, <1>b, BreakerTypes
    <3> QED BY <3>1, <1>6, <1>0, AtType DEF Abandon, PartTypeOK
  <2>3. req' \in [Requests -> ReqStates] /\ ReqInv'
    BY <2>1, <1>n, <1>u, NoRequestType
  <2> QED BY <2>1, <2>2, <2>3 DEF PartTypeOK
<1>7. CASE Close(r)
  <2>1. /\ cur' = cur /\ Observe /\ health' = health /\ breaker' = breaker
        /\ req' = [req EXCEPT ![r] = NoRequest]
    BY <1>7 DEF Close
  <2>3. req' \in [Requests -> ReqStates] /\ ReqInv'
    BY <2>1, <1>n, <1>u, NoRequestType
  <2> QED BY <2>1, <2>3 DEF PartTypeOK
<1> QED BY <1>1, <1>2, <1>3, <1>4, <1>5, <1>6, <1>7 DEF Request

\* Every step keeps the types and ReqInv.
LEMMA StepTypes ==
  ASSUME PartTypeOK, ReqInv, [ReloadNext]_vars
  PROVE  PartTypeOK' /\ ReqInv'
<1>1. ASSUME NEW r \in Requests, Request(r) PROVE PartTypeOK' /\ ReqInv'
  BY <1>1, RequestTypes, ObserveType DEF PartTypeOK
<1>2. ASSUME NEW g \in Gens, NEW s \in Servers, Check(g, s) PROVE PartTypeOK' /\ ReqInv'
  <2>1. PICK passed \in BOOLEAN :
          health' = At(health, g, s, RecordCheck(health[g][s], passed))
    BY <1>2 DEF Check
  <2>2. RecordCheck(health[g][s], passed) \in Healths
    BY HealthTypes DEF PartTypeOK
  <2>3. health' \in [Gens -> [Servers -> Healths]]
    BY <2>1, <2>2, AtType DEF PartTypeOK
  <2> QED BY <1>2, <2>3, ObserveType DEF Check, PartTypeOK, ReqInv
<1>3. CASE Tick
  <2>1. ASSUME NEW b \in Breakers
        PROVE  [b EXCEPT !.left = Less(@), !.window = Less(@)] \in Breakers
    <3>1. Less(b.left) \in 0..OpenDuration /\ Less(b.window) \in 0..Window
      BY Bounds DEF Less, Breakers
    <3> QED BY <3>1 DEF Breakers
  <2>2. ASSUME NEW h \in Healths PROVE [h EXCEPT !.left = Less(@)] \in Healths
    <3>1. Less(h.left) \in 0..FailTimeout
      BY Bounds DEF Less, Healths
    <3> QED BY <3>1 DEF Healths
  <2>3. breaker' \in [Gens -> [Servers -> Breakers]]
    BY <1>3, <2>1 DEF Tick, PartTypeOK
  <2>4. health' \in [Gens -> [Servers -> Healths]]
    BY <1>3, <2>2 DEF Tick, PartTypeOK
  <2> QED BY <1>3, <2>3, <2>4, ObserveType DEF Tick, PartTypeOK, ReqInv
<1>4. CASE Reload
  <2>1. cur + 1 \in Gens /\ cur \in Nat
    BY <1>4, Bounds DEF Reload, PartTypeOK, Gens
  <2>2. /\ breaker' \in [Gens -> [Servers -> Breakers]]
        /\ health' \in [Gens -> [Servers -> Healths]]
        /\ cur' = cur + 1 /\ req' = req /\ Observe
    BY <1>4, <2>1 DEF Reload, PartTypeOK
  <2>3. \A r \in Requests : req[r].group \in Nat
    BY DEF PartTypeOK, ReqStates, Gens
  <2>4. ReqInv'
    BY <2>1, <2>2, <2>3 DEF ReqInv
  <2> QED BY <2>1, <2>2, <2>4, ObserveType DEF PartTypeOK
<1>5. CASE UNCHANGED vars
  BY <1>5 DEF vars, PartTypeOK, ReqInv
<1> QED BY <1>1, <1>2, <1>3, <1>4, <1>5 DEF ReloadNext, Next

-----------------------------------------------------------------------------
(* The counters of the connections.                                         *)

Counted(q) == q.step \in {"sent", "guard"}
Users(s)   == {r \in Requests : Counted(req[r]) /\ req[r].server = s}

\* One request changes: the counters follow when the counter of its server goes
\* up or down with its permit.
LEMMA CountStep ==
  ASSUME active \in [Servers -> Nat], req \in [Requests -> ReqStates], ActiveCounts,
         NEW r \in Requests, NEW p \in ReqStates,
         req' = [req EXCEPT ![r] = p],
         \/ /\ Counted(p) <=> Counted(req[r])
            /\ Counted(p) => p.server = req[r].server
            /\ active' = active
         \/ /\ Counted(p) /\ ~Counted(req[r])
            /\ active' = [active EXCEPT ![p.server] = @ + 1]
         \/ /\ ~Counted(p) /\ Counted(req[r])
            /\ active' = [active EXCEPT ![req[r].server] = @ - 1]
  PROVE  active' \in [Servers -> Nat] /\ ActiveCounts'
<1>1. \A s \in Servers : IsFiniteSet(Users(s)) /\ Cardinality(Users(s)) \in Nat
  BY UpstreamAssumption, FS_Subset, FS_CardinalityType DEF Users
<1>2. \A s \in Servers : active[s] = Cardinality(Users(s))
  BY DEF ActiveCounts, Users, Counted
<1>3. p.server \in Servers /\ req[r].server \in Servers
  BY DEF ReqStates
<1>4. CASE /\ Counted(p) <=> Counted(req[r])
           /\ Counted(p) => p.server = req[r].server
           /\ active' = active
  <2>1. \A s \in Servers : Users(s)' = Users(s)
    BY <1>4 DEF Users, Counted
  <2> QED BY <1>2, <1>4, <2>1 DEF ActiveCounts, Users, Counted
<1>5. CASE /\ Counted(p) /\ ~Counted(req[r])
           /\ active' = [active EXCEPT ![p.server] = @ + 1]
  <2>1. \A s \in Servers : Users(s)' = IF s = p.server THEN Users(s) \cup {r} ELSE Users(s)
    BY <1>5 DEF Users, Counted
  <2>2. r \notin Users(p.server)
    BY <1>5 DEF Users
  <2>3. Cardinality(Users(p.server) \cup {r}) = Cardinality(Users(p.server)) + 1
    BY <1>1, <1>3, <2>2, FS_AddElement
  <2>4. \A s \in Servers : active'[s] = Cardinality(Users(s)')
    BY <1>2, <1>3, <1>5, <2>1, <2>3
  <2>5. active' \in [Servers -> Nat]
    BY <1>3, <1>5
  <2> QED BY <2>4, <2>5 DEF ActiveCounts, Users, Counted
<1>6. CASE /\ ~Counted(p) /\ Counted(req[r])
           /\ active' = [active EXCEPT ![req[r].server] = @ - 1]
  <2> DEFINE t == req[r].server
  <2>1. \A s \in Servers : Users(s)' = IF s = t THEN Users(s) \ {r} ELSE Users(s)
    BY <1>6 DEF Users, Counted
  <2>2. r \in Users(t)
    BY <1>6 DEF Users
  <2>3. Cardinality(Users(t) \ {r}) = Cardinality(Users(t)) - 1
    BY <1>1, <1>3, <2>2, FS_RemoveElement
  <2>4. Cardinality(Users(t) \ {r}) \in Nat
    BY <1>1, <1>3, FS_RemoveElement, FS_CardinalityType
  <2>5. \A s \in Servers : active'[s] = Cardinality(Users(s)') /\ active'[s] \in Nat
    BY <1>1, <1>2, <1>3, <1>6, <2>1, <2>3, <2>4
  <2>6. active' \in [Servers -> Nat]
    BY <1>6, <2>5
  <2> QED BY <2>5, <2>6 DEF ActiveCounts, Users, Counted
<1> QED BY <1>4, <1>5, <1>6

\* Every step keeps the counters.
LEMMA StepCounts ==
  ASSUME TypeOK, ReqInv, ActiveCounts, [ReloadNext]_vars
  PROVE  active' \in [Servers -> Nat] /\ ActiveCounts'
<1>0. active \in [Servers -> Nat] /\ req \in [Requests -> ReqStates] /\ PartTypeOK
  BY DEF TypeOK, PartTypeOK
<1>s. ASSUME active' = active, req' = req PROVE active' \in [Servers -> Nat] /\ ActiveCounts'
  BY <1>0, <1>s DEF ActiveCounts
<1>1. ASSUME NEW r \in Requests, Request(r)
      PROVE  active' \in [Servers -> Nat] /\ ActiveCounts'
  <2> DEFINE q == req[r]
  <2>0. /\ req' \in [Requests -> ReqStates] /\ NoRequest.step = "idle"
        /\ req' = [req EXCEPT ![r] = req'[r]] /\ req'[r] \in ReqStates
    <3>1. req' \in [Requests -> ReqStates]
      BY <1>0, <1>1, RequestTypes
    <3>2. \E p : req' = [req EXCEPT ![r] = p]
      BY <1>1 DEF Request, Select, Acquire, Exhausted, Succeed, FailTry, Abandon, Close
    <3> QED BY <1>0, <3>1, <3>2 DEF NoRequest, Req
  <2>1. CASE active' = active /\ ~Counted(q) /\ ~Counted(req'[r])
    BY <1>0, <2>0, <2>1, CountStep
  <2>2. CASE active' = [active EXCEPT ![q.server] = @ - 1] /\ Counted(q) /\ ~Counted(req'[r])
    BY <1>0, <2>0, <2>2, CountStep
  <2>3. CASE Select(r)
    BY <1>0, <2>1, <2>3 DEF Select, Req, Counted
  <2>4. CASE Acquire(r)
    <3>1. q.step = "ready"
      BY <2>4 DEF Acquire
    <3>2. CASE active' = active /\ req'[r].step = "ready"
      BY <2>1, <3>1, <3>2 DEF Counted
    <3>3. CASE active' = [active EXCEPT ![req'[r].server] = @ + 1] /\ req'[r].step = "sent"
      BY <1>0, <2>0, <3>1, <3>3, CountStep DEF Counted
    <3> QED BY <1>0, <2>4, <3>2, <3>3 DEF Acquire, Req
  <2>5. CASE Exhausted(r)
    BY <1>0, <2>0, <2>1, <2>5 DEF Exhausted, Req, Counted
  <2>6. CASE Succeed(r)
    <3>1. /\ active' = active /\ q.step = "sent"
          /\ req'[r].step = "guard" /\ req'[r].server = q.server
      BY <1>0, <2>6 DEF Succeed, Req
    <3> QED BY <1>0, <2>0, <3>1, CountStep DEF Counted
  <2>7. CASE FailTry(r)
    BY <1>0, <2>0, <2>2, <2>7 DEF FailTry, Req, Counted
  <2>8. CASE Abandon(r)
    BY <1>0, <2>0, <2>2, <2>8 DEF Abandon, Counted
  <2>9. CASE Close(r)
    BY <1>0, <2>0, <2>1, <2>2, <2>9 DEF Close, Counted
  <2> QED BY <1>1, <2>3, <2>4, <2>5, <2>6, <2>7, <2>8, <2>9 DEF Request
<1>2. ASSUME NEW g \in Gens, NEW s \in Servers, Check(g, s)
      PROVE  active' \in [Servers -> Nat] /\ ActiveCounts'
  BY <1>2, <1>s DEF Check
<1>3. CASE Tick \/ Reload \/ UNCHANGED vars
  BY <1>3, <1>s DEF Tick, Reload, vars
<1> QED BY <1>1, <1>2, <1>3 DEF ReloadNext, Next

-----------------------------------------------------------------------------
(* The trial slot.                                                          *)

Slot(b)    == b.circuit = "half" /\ b.trial
IsTrial(q) == q.step = "sent" /\ q.trial

\* The half of TrialOwned that a reload breaks: a taken slot has its request.
Taken == \A g \in Gens, s \in Servers : Slot(breaker[g][s]) => Trials(g, s) # {}

\* One request and the breaker of its server change: the slot is taken when a
\* trial starts, and freed when it ends.
LEMMA SlotStep ==
  ASSUME PartTypeOK, TrialHeld, NEW r \in Requests, NEW p \in ReqStates,
         NEW g \in Gens, NEW s \in Servers, NEW v \in Breakers,
         req' = [req EXCEPT ![r] = p], breaker' = At(breaker, g, s, v),
         IsTrial(req[r]) => req[r].group = g /\ req[r].server = s,
         IsTrial(p) => /\ p.group = g /\ p.server = s
                       /\ ~Slot(breaker[g][s]) /\ Slot(v),
         ~IsTrial(p) => (Slot(v) <=> Slot(breaker[g][s]) /\ ~IsTrial(req[r]))
  PROVE  TrialHeld' /\ (Taken => Taken')
<1>1. /\ \A h \in Gens, t \in Servers :
           breaker'[h][t] = IF h = g /\ t = s THEN v ELSE breaker[h][t]
      /\ req'[r] = p /\ \A x \in Requests \ {r} : req'[x] = req[x]
  BY DEF PartTypeOK, At
<1>2. \A h \in Gens, t \in Servers : Trials(h, t) # {} => Slot(breaker[h][t])
  BY DEF TrialHeld, Slot
<1>3. \A h \in Gens, t \in Servers : \A x \in Requests :
        x \in Trials(h, t) <=> IsTrial(req[x]) /\ req[x].group = h /\ req[x].server = t
  BY DEF Trials, IsTrial
<1>4. \A h \in Gens, t \in Servers : \A x \in Requests :
        x \in Trials(h, t)' <=> IsTrial(req'[x]) /\ req'[x].group = h /\ req'[x].server = t
  BY DEF Trials, IsTrial
<1>5. \A h \in Gens, t \in Servers : Trials(h, t) \subseteq Requests /\ Trials(h, t)' \subseteq Requests
  BY DEF Trials
<1>6. \A h \in Gens, t \in Servers : \A x, y \in Trials(h, t) : x = y
  BY DEF TrialHeld, OneTrial
<1>7. ASSUME NEW h \in Gens, NEW t \in Servers, h # g \/ t # s
      PROVE  Trials(h, t)' = Trials(h, t)
  <2>1. r \notin Trials(h, t) /\ r \notin Trials(h, t)'
    BY <1>1, <1>3, <1>4, <1>7
  <2>2. \A x \in Requests \ {r} : x \in Trials(h, t) <=> x \in Trials(h, t)'
    BY <1>1, <1>3, <1>4
  <2>3. Trials(h, t) \subseteq Requests /\ Trials(h, t)' \subseteq Requests
    BY <1>5
  <2>4. \A x : x \in Trials(h, t) <=> x \in Trials(h, t)'
    BY <2>1, <2>2, <2>3
  <2> HIDE DEF Trials
  <2> QED BY <2>4, Zenon
<1>8. Trials(g, s)' = IF IsTrial(p) THEN {r} ELSE Trials(g, s) \ {r}
  <2>1. CASE IsTrial(p)
    <3>1. Trials(g, s) = {}
      BY <1>2, <2>1
    <3> QED BY <1>1, <1>3, <1>4, <1>5, <2>1, <3>1
  <2>2. CASE ~IsTrial(p)
    BY <1>1, <1>3, <1>4, <1>5, <2>2
  <2> QED BY <2>1, <2>2
<1>9. IsTrial(req[r]) <=> r \in Trials(g, s)
  BY <1>3
<1>10. \A h \in Gens, t \in Servers : Trials(h, t)' # {} => Slot(breaker'[h][t])
  <2>1. ASSUME Trials(g, s)' # {} PROVE Slot(v)
    BY <1>2, <1>6, <1>8, <1>9, <2>1
  <2> QED BY <1>1, <1>2, <1>7, <2>1
<1>11. \A h \in Gens, t \in Servers : \A x, y \in Trials(h, t)' : x = y
  BY <1>6, <1>7, <1>8
<1>12. TrialHeld'
  BY <1>10, <1>11 DEF TrialHeld, OneTrial, Slot
<1>13. ASSUME Taken PROVE Taken'
  <2>1. ASSUME Slot(v) PROVE Trials(g, s)' # {}
    BY <1>8, <1>9, <1>13, <2>1 DEF Taken
  <2>2. \A h \in Gens, t \in Servers : Slot(breaker'[h][t]) => Trials(h, t)' # {}
    BY <1>1, <1>7, <1>13, <2>1 DEF Taken
  <2> QED BY <2>2 DEF Taken, Slot
<1> QED BY <1>12, <1>13

\* A request that is not, and does not become, a trial, with the breakers kept.
LEMMA SlotSame ==
  ASSUME PartTypeOK, TrialHeld, NEW r \in Requests, NEW p \in ReqStates,
         req' = [req EXCEPT ![r] = p], breaker' = breaker,
         ~IsTrial(req[r]), ~IsTrial(p)
  PROVE  TrialHeld' /\ (Taken => Taken')
<1>1. req[r].group \in Gens /\ req[r].server \in Servers
  BY DEF PartTypeOK, ReqStates
<1>2. breaker[req[r].group][req[r].server] \in Breakers
  BY <1>1 DEF PartTypeOK
<1>3. breaker' = At(breaker, req[r].group, req[r].server, breaker[req[r].group][req[r].server])
  BY <1>1 DEF PartTypeOK, At
<1> QED BY <1>1, <1>2, <1>3, SlotStep

\* The steps of a request keep the slots.
LEMMA RequestSlots ==
  ASSUME PartTypeOK, ReqInv, TrialHeld, NEW r \in Requests, Request(r)
  PROVE  TrialHeld' /\ (Taken => Taken')
<1> DEFINE q == req[r]
           p == req'[r]
<1>0. /\ q.group \in Gens /\ q.server \in Servers /\ q.trial \in BOOLEAN
      /\ q.tiers \in Tiers /\ breaker[q.group][q.server] \in Breakers
      /\ breaker = At(breaker, q.group, q.server, breaker[q.group][q.server])
  BY DEF PartTypeOK, ReqStates, At
<1>1. /\ req' = [req EXCEPT ![r] = p] /\ p \in ReqStates
      /\ NoRequest.step = "idle" /\ breaker' \in [Gens -> [Servers -> Breakers]]
  <2>1. req' \in [Requests -> ReqStates] /\ breaker' \in [Gens -> [Servers -> Breakers]]
    BY RequestTypes
  <2>2. \E x : req' = [req EXCEPT ![r] = x]
    BY DEF Request, Select, Acquire, Exhausted, Succeed, FailTry, Abandon, Close
  <2> QED BY <2>1, <2>2 DEF NoRequest, Req, PartTypeOK
<1>2. ASSUME breaker' = breaker, q.step # "sent", p.step # "sent"
      PROVE  TrialHeld' /\ (Taken => Taken')
  BY <1>1, <1>2, SlotSame DEF IsTrial
<1>3. CASE Select(r)
  BY <1>2, <1>3 DEF Select, Req, PartTypeOK
<1>4. CASE Acquire(r)
  <2> DEFINE Skip == breaker' = breaker /\ p.step = "ready"
             Take(s) ==
               /\ ~Blocked(q.group, s)
               /\ breaker' = IF Enabled[q.group]
                               THEN At(breaker, q.group, s, Admit(breaker[q.group][s]))
                               ELSE breaker
               /\ p.step = "sent" /\ p.group = q.group /\ p.server = s
               /\ p.trial = (Enabled[q.group] /\ breaker[q.group][s].circuit # "closed")
  <2>1. q.step = "ready" /\ ~IsTrial(q)
    BY <1>4 DEF Acquire, IsTrial
  <2>2. Skip \/ \E s \in Servers : Take(s)
    <3>1. PICK i \in 1..3 : \E s \in q.tiers[i] : Skip \/ Take(s)
      BY <1>4, SMTT(60) DEF Acquire, Req, PartTypeOK
    <3> QED BY <3>1, <1>0 DEF Tiers
  <2>3. CASE Skip
    BY <1>2, <2>1, <2>3
  <2>4. ASSUME NEW s \in Servers, Take(s) PROVE TrialHeld' /\ (Taken => Taken')
    <3> DEFINE b == breaker[q.group][s]
    <3>1. b \in Breakers /\ breaker = At(breaker, q.group, s, b) /\ Admit(b) \in Breakers
      <4>1. b \in Breakers
        BY <1>0 DEF PartTypeOK
      <4> QED BY <1>0, <4>1, BreakerTypes DEF PartTypeOK, At
    <3>2. CASE ~Enabled[q.group] \/ b.circuit = "closed"
      <4>1. breaker' = breaker /\ ~p.trial
        BY <2>4, <3>1, <3>2 DEF Admit
      <4> QED BY <1>1, <2>1, <4>1, SlotSame DEF IsTrial
    <3>3. CASE Enabled[q.group] /\ b.circuit # "closed"
      <4>1. ~Blocks(b)
        BY <2>4, <3>3 DEF Blocked, Unblocked
      <4>2. ~Slot(b) /\ Slot(Admit(b))
        BY <3>1, <3>3, <4>1 DEF Slot, Blocks, Admit, Breakers
      <4>3. IsTrial(p) /\ breaker' = At(breaker, q.group, s, Admit(b))
        BY <2>4, <3>3 DEF IsTrial
      <4> QED BY <1>0, <1>1, <2>1, <2>4, <3>1, <4>2, <4>3, SlotStep, SMTT(30)
    <3> QED BY <3>2, <3>3
  <2> QED BY <2>2, <2>3, <2>4
<1>5. CASE Exhausted(r)
  BY <1>1, <1>2, <1>5 DEF Exhausted, Req, PartTypeOK
<1>6. ASSUME NEW failed \in BOOLEAN, RecordCircuit(r, failed),
             q.step = "sent", p.step # "sent"
      PROVE  TrialHeld' /\ (Taken => Taken')
  <2> DEFINE b == breaker[q.group][q.server]
             v == Record(b, q.trial, failed)
  <2>1. b \in Breakers /\ v \in Breakers
    BY <1>0, BreakerTypes
  <2>2. CASE q.trial
    <3>1. r \in Trials(q.group, q.server)
      BY <1>6, <2>2 DEF Trials
    <3>2. Slot(b) /\ Enabled[q.group]
      BY <1>0, <2>2, <3>1 DEF TrialHeld, Slot, ReqInv
    <3>3. ~Slot(v)
      BY <2>1, <2>2, <3>2, RecordSlot DEF Slot
    <3>4. breaker' = At(breaker, q.group, q.server, v)
      BY <1>6, <3>2 DEF RecordCircuit
    <3> HIDE DEF v
    <3> QED BY <1>0, <1>1, <1>6, <2>1, <2>2, <3>3, <3>4, SlotStep DEF IsTrial
  <2>3. CASE ~q.trial
    <3>1. Slot(v) <=> Slot(b)
      BY <2>1, <2>3, RecordSlot, <1>0 DEF Slot
    <3>2. CASE Enabled[q.group]
      <4>1. breaker' = At(breaker, q.group, q.server, v)
        BY <1>6, <3>2 DEF RecordCircuit
      <4> HIDE DEF v
      <4> QED BY <1>0, <1>1, <1>6, <2>1, <2>3, <3>1, <4>1, SlotStep DEF IsTrial
    <3>3. CASE ~Enabled[q.group]
      BY <1>1, <1>6, <2>3, <3>3, SlotSame DEF RecordCircuit, IsTrial
    <3> QED BY <3>2, <3>3
  <2> QED BY <1>0, <2>2, <2>3
<1>7. CASE Succeed(r)
  BY <1>6, <1>7 DEF Succeed, Req, PartTypeOK
<1>8. CASE FailTry(r)
  <2>1. q.step = "sent" /\ RecordCircuit(r, TRUE)
    BY <1>8 DEF FailTry
  <2>2. p.step # "sent"
    BY <1>1, <1>8 DEF FailTry, Req, PartTypeOK
  <2> QED BY <1>6, <2>1, <2>2
<1>9. CASE Abandon(r)
  <2> DEFINE b == breaker[q.group][q.server]
  <2>1. q.step = "sent" /\ p.step = "idle"
    BY <1>1, <1>9 DEF Abandon, PartTypeOK
  <2>2. CASE q.trial
    <3>1. r \in Trials(q.group, q.server)
      BY <2>1, <2>2 DEF Trials
    <3>2. ReleaseTrial(b) \in Breakers /\ ~Slot(ReleaseTrial(b))
      BY <1>0, BreakerTypes DEF Slot, ReleaseTrial, Breakers
    <3>3. breaker' = At(breaker, q.group, q.server, ReleaseTrial(b))
      BY <1>9, <2>2 DEF Abandon
    <3> QED BY <1>0, <1>1, <2>1, <2>2, <3>2, <3>3, SlotStep DEF IsTrial
  <2>3. CASE ~q.trial
    BY <1>1, <1>9, <2>1, <2>3, SlotSame DEF Abandon, IsTrial
  <2> QED BY <1>0, <2>2, <2>3
<1>10. CASE Close(r)
  BY <1>1, <1>2, <1>10 DEF Close, PartTypeOK
<1> QED BY <1>3, <1>4, <1>5, <1>7, <1>8, <1>9, <1>10 DEF Request

\* Every step but a reload keeps the slots and their owners.
LEMMA StepSlots ==
  ASSUME PartTypeOK, ReqInv, TrialHeld, [Next]_vars
  PROVE  TrialHeld' /\ (Taken => Taken')
<1>1. ASSUME NEW r \in Requests, Request(r) PROVE TrialHeld' /\ (Taken => Taken')
  BY <1>1, RequestSlots
<1>2. ASSUME req' = req,
             \A g \in Gens, s \in Servers :
               /\ breaker'[g][s].circuit = breaker[g][s].circuit
               /\ breaker'[g][s].trial = breaker[g][s].trial
      PROVE  TrialHeld' /\ (Taken => Taken')
  BY <1>2 DEF TrialHeld, OneTrial, Trials, Taken, Slot
<1>3. ASSUME NEW g \in Gens, NEW s \in Servers, Check(g, s)
      PROVE  TrialHeld' /\ (Taken => Taken')
  BY <1>2, <1>3 DEF Check
<1>4. CASE Tick
  <2>1. \A g \in Gens, s \in Servers : breaker[g][s] \in Breakers
    BY DEF PartTypeOK
  <2> QED BY <1>2, <1>4, <2>1 DEF Tick, Breakers
<1>5. CASE UNCHANGED vars
  BY <1>2, <1>5 DEF vars
<1> QED BY <1>1, <1>3, <1>4, <1>5 DEF Next

\* A reload starts a group that no request has, so no trial either.
LEMMA ReloadSlots ==
  ASSUME PartTypeOK, ReqInv, TrialHeld, Reload
  PROVE  TrialHeld'
<1>1. PICK n \in Gens : n = cur + 1 /\ cur \in Nat
  BY Bounds DEF Reload, PartTypeOK, Gens
<1>2. \A r \in Requests : req'[r] = req[r] /\ req[r].group # n
  BY <1>1 DEF Reload, ReqInv, PartTypeOK, ReqStates, Gens
<1>3. \A s \in Servers : Trials(n, s)' = {}
  BY <1>2 DEF Trials
<1>4. \A g \in Gens \ {n}, s \in Servers :
        Trials(g, s)' = Trials(g, s) /\ breaker'[g][s] = breaker[g][s]
  BY <1>1, <1>2 DEF Trials, Reload, PartTypeOK
<1>5. \A g \in Gens, s \in Servers : \A q, r \in Trials(g, s)' : q = r
  <2> SUFFICES ASSUME NEW g \in Gens, NEW s \in Servers
               PROVE  \A q, r \in Trials(g, s)' : q = r
    OBVIOUS
  <2>1. CASE g = n
    BY <1>3, <2>1
  <2>2. CASE g # n
    BY <1>4, <2>2 DEF TrialHeld, OneTrial
  <2> QED BY <2>1, <2>2
<1>6. \A g \in Gens, s \in Servers : Trials(g, s)' # {} =>
        breaker'[g][s].circuit = "half" /\ breaker'[g][s].trial
  BY <1>3, <1>4 DEF TrialHeld
<1> QED BY <1>5, <1>6 DEF TrialHeld, OneTrial

-----------------------------------------------------------------------------
(* The candidates that are left.                                            *)

\* What LeftInv says of one request.
LeftOf(q, c) ==
  /\ q.step = "ready" /\ q.tries = 0 =>
       \A s \in c : Weight[q.group][s] > 0 => \E i \in 1..3 : s \in q.tiers[i]
  /\ q.step = "refused" => \A s \in c : Weight[q.group][s] = 0

LEMMA LeftSplit == LeftInv <=> \A r \in Requests : LeftOf(req[r], clear[r])
BY DEF LeftInv, RefusedOnlyBlocked, LeftOf

\* The set of the servers that were never blocked only shrinks, so a request that
\* does not move keeps what LeftInv says of it.
LEMMA LeftStays ==
  ASSUME PartTypeOK, LeftInv, Observe, NEW r \in Requests, req'[r] = req[r]
  PROVE  LeftOf(req'[r], clear'[r])
<1>1. LeftOf(req[r], clear[r])
  BY LeftSplit
<1>2. CASE req[r].step \in {"ready", "refused"}
  <2>1. clear'[r] \subseteq clear[r]
    BY <1>2 DEF Observe
  <2> QED BY <1>1, <2>1 DEF LeftOf
<1>3. CASE req[r].step \notin {"ready", "refused"}
  BY <1>3 DEF LeftOf
<1> QED BY <1>2, <1>3

\* The steps of a request keep LeftInv.
LEMMA RequestLeft ==
  ASSUME PartTypeOK, ReqInv, LeftInv, NEW r \in Requests, Request(r)
  PROVE  LeftInv'
<1> DEFINE q == req[r]
           p == req'[r]
           c == clear'[r]
<1>0. /\ q.group \in Gens /\ q.tiers \in Tiers /\ q.tries \in Nat
      /\ cur \in Gens /\ NoRequest.step = "idle"
  BY Bounds DEF PartTypeOK, ReqStates, NoRequest, Req
<1>1. Observe /\ \A x \in Requests \ {r} : req'[x] = req[x]
  <2>1. Observe
    BY RequestTypes
  <2>2. \E x : req' = [req EXCEPT ![r] = x]
    BY DEF Request, Select, Acquire, Exhausted, Succeed, FailTry, Abandon, Close
  <2> QED BY <2>1, <2>2 DEF PartTypeOK
<1>2. SUFFICES LeftOf(p, c)
  <2>1. \A x \in Requests : LeftOf(req'[x], clear'[x])
    BY <1>1, <1>2, LeftStays
  <2> QED BY <2>1 DEF LeftInv, RefusedOnlyBlocked, LeftOf
<1>3. LeftOf(q, clear[r])
  BY LeftSplit
<1>4. \A s \in Servers : Weight[q.group][s] \in Nat /\ Weight[cur][s] \in Nat
  BY <1>0, UpstreamAssumption
<1>5. CASE p.step \notin {"ready", "refused"}
  BY <1>5 DEF LeftOf
<1>6. CASE Select(r)
  <2>1. PICK pinned \in SUBSET Servers :
          p = Req("ready", cur, Candidates(cur, pinned), q.server, FALSE, 0)
    BY <1>6 DEF Select, PartTypeOK
  <2>2. p.step = "ready" /\ p.group = cur /\ p.tiers = Candidates(cur, pinned)
    BY <2>1 DEF Req
  <2>3. breaker' = breaker /\ q.step = "idle"
    BY <1>6 DEF Select
  <2>4. c = Unblocked(breaker[cur], cur)
    BY <1>1, <2>2, <2>3 DEF Observe
  <2>5. ASSUME NEW s \in c, Weight[cur][s] > 0
        PROVE  \E i \in 1..3 : s \in Candidates(cur, pinned)[i]
    <3>1. s \in Servers /\ ~Blocked(cur, s)
      BY <2>4 DEF Blocked, Unblocked
    <3>2. \/ s \in Candidates(cur, pinned)[1]
          \/ s \in Candidates(cur, pinned)[2]
          \/ s \in Candidates(cur, pinned)[3]
      BY <2>5, <3>1 DEF Candidates
    <3> QED BY <3>2
  <2> QED BY <2>2, <2>5 DEF LeftOf
<1>7. CASE Acquire(r)
  <2>1. q.step = "ready"
    BY <1>7 DEF Acquire
  <2> DEFINE Rest(i, s) == [q.tiers EXCEPT ![i] = @ \ {s}]
             Skip(i, s) ==
               /\ Blocked(q.group, s) /\ breaker' = breaker
               /\ req' = [req EXCEPT ![r] = Req("ready", q.group, Rest(i, s), q.server,
                                               FALSE, q.tries)]
             Take(i, s) ==
               req' = [req EXCEPT ![r] = Req("sent", q.group, Rest(i, s), s,
                 Enabled[q.group] /\ breaker[q.group][s].circuit # "closed", q.tries + 1)]
  <2>2. PICK i \in 1..3 : \E s \in q.tiers[i] : Skip(i, s) \/ Take(i, s)
    BY <1>7 DEF Acquire
  <2>3. PICK s \in q.tiers[i] : Skip(i, s) \/ Take(i, s)
    BY <2>2
  <2>4. CASE p.step # "sent"
    <3>1. /\ p.step = "ready" /\ p.group = q.group /\ p.tries = q.tries
          /\ p.tiers = [q.tiers EXCEPT ![i] = @ \ {s}]
          /\ Blocked(q.group, s) /\ breaker' = breaker
      <4>1. CASE Skip(i, s)
        BY <4>1 DEF Req, PartTypeOK
      <4>2. CASE Take(i, s)
        BY <2>4, <4>2 DEF Req, PartTypeOK
      <4> QED BY <2>3, <4>1, <4>2
    <3>2. c = clear[r] \cap Unblocked(breaker[q.group], q.group)
      BY <1>1, <2>1, <3>1 DEF Observe
    <3>3. s \notin c /\ c \subseteq clear[r]
      BY <3>1, <3>2 DEF Blocked
    <3>4. \A t \in c : \A j \in 1..3 : t \in q.tiers[j] => t \in p.tiers[j]
      BY <1>0, <3>1, <3>3 DEF Tiers
    <3> QED BY <1>3, <2>1, <3>1, <3>3, <3>4 DEF LeftOf
  <2> QED BY <1>5, <2>4
<1>8. CASE Exhausted(r)
  <2>1. /\ q.step = "ready" /\ (\A i \in 1..3 : q.tiers[i] = {}) /\ breaker' = breaker
        /\ \/ q.tries = 0 /\ p.step = "refused" /\ p.group = q.group
           \/ p.step = "idle"
    BY <1>0, <1>8 DEF Exhausted, Req, PartTypeOK
  <2>2. CASE q.tries = 0 /\ p.step = "refused" /\ p.group = q.group
    <3>1. c = clear[r] \cap Unblocked(breaker[q.group], q.group) /\ clear[r] \subseteq Servers
      BY <1>1, <2>1, <2>2 DEF Observe, PartTypeOK
    <3>2. \A s \in c : Weight[q.group][s] = 0
      BY <1>3, <1>4, <2>1, <2>2, <3>1 DEF LeftOf
    <3> QED BY <2>2, <3>2 DEF LeftOf
  <2> QED BY <1>5, <2>1, <2>2
<1>9. CASE FailTry(r)
  <2>1. q.tries > 0
    BY <1>9 DEF FailTry, ReqInv
  <2>2. p = NoRequest \/ p = Req("ready", q.group, q.tiers, q.server, FALSE, q.tries)
    BY <1>9 DEF FailTry, PartTypeOK
  <2>3. p.step = "idle" \/ (p.step = "ready" /\ p.tries = q.tries)
    <3>1. CASE p = NoRequest
      BY <1>0, <3>1
    <3>2. CASE p = Req("ready", q.group, q.tiers, q.server, FALSE, q.tries)
      BY <3>2 DEF Req
    <3> QED BY <2>2, <3>1, <3>2
  <2> QED BY <1>0, <2>1, <2>3 DEF LeftOf
<1>10. CASE Succeed(r)
  BY <1>5, <1>10 DEF Succeed, Req, PartTypeOK
<1>11. CASE Abandon(r) \/ Close(r)
  BY <1>0, <1>5, <1>11 DEF Abandon, Close, PartTypeOK
<1> QED BY <1>6, <1>7, <1>8, <1>9, <1>10, <1>11 DEF Request

\* Every step keeps LeftInv.
LEMMA StepLeft ==
  ASSUME PartTypeOK, ReqInv, LeftInv, [ReloadNext]_vars
  PROVE  LeftInv'
<1>1. ASSUME NEW r \in Requests, Request(r) PROVE LeftInv'
  BY <1>1, RequestLeft
<1>2. ASSUME req' = req, Observe PROVE LeftInv'
  <2>1. \A r \in Requests : LeftOf(req'[r], clear'[r])
    BY <1>2, LeftStays
  <2> QED BY <2>1 DEF LeftInv, RefusedOnlyBlocked, LeftOf
<1>3. ASSUME NEW g \in Gens, NEW s \in Servers, Check(g, s) PROVE LeftInv'
  BY <1>2, <1>3 DEF Check
<1>4. CASE Tick \/ Reload
  BY <1>2, <1>4 DEF Tick, Reload
<1>5. CASE UNCHANGED vars
  BY <1>5 DEF vars, LeftInv, RefusedOnlyBlocked
<1> QED BY <1>1, <1>3, <1>4, <1>5 DEF ReloadNext, Next

-----------------------------------------------------------------------------
(* The theorems.                                                            *)

\* The inductive invariant of the reloading group.
IInv == TypeOK /\ ReqInv /\ ActiveCounts /\ TrialHeld /\ LeftInv

LEMMA InitInv == Init => IInv /\ Taken
<1> SUFFICES ASSUME Init PROVE IInv /\ Taken
  OBVIOUS
<1>0. NoRequest.step = "idle" /\ NoRequest.group = 0 /\ ~NoRequest.trial
  BY DEF NoRequest, Req
<1>1. TypeOK
  <2>1. ClosedBreaker \in Breakers /\ GoodHealth \in Healths
    BY Bounds DEF ClosedBreaker, Breakers, Circuits, GoodHealth, Healths
  <2>2. 0 \in Gens
    BY Bounds DEF Gens
  <2> QED BY <2>1, <2>2, NoRequestType DEF Init, TypeOK
<1>2. ReqInv
  BY <1>0 DEF Init, ReqInv
<1>3. ActiveCounts
  <2>1. \A s \in Servers : {r \in Requests : req[r].step \in {"sent", "guard"}
                                           /\ req[r].server = s} = {}
    BY <1>0 DEF Init
  <2> QED BY <2>1, FS_EmptySet DEF Init, ActiveCounts
<1>4. TrialHeld
  BY <1>0 DEF Init, TrialHeld, OneTrial, Trials
<1>5. LeftInv
  BY <1>0 DEF Init, LeftInv, RefusedOnlyBlocked
<1>6. Taken
  BY DEF Init, Taken, Slot, ClosedBreaker
<1> QED BY <1>1, <1>2, <1>3, <1>4, <1>5, <1>6 DEF IInv

LEMMA StepInv == IInv /\ [ReloadNext]_vars => IInv'
<1> SUFFICES ASSUME IInv, [ReloadNext]_vars PROVE IInv'
  OBVIOUS
<1>1. PartTypeOK /\ TypeOK /\ ReqInv /\ ActiveCounts /\ TrialHeld /\ LeftInv
  BY DEF IInv, TypeOK, PartTypeOK
<1>2. PartTypeOK' /\ ReqInv'
  BY <1>1, StepTypes
<1>3. active' \in [Servers -> Nat] /\ ActiveCounts'
  BY <1>1, StepCounts
<1>4. TrialHeld'
  BY <1>1, StepSlots, ReloadSlots DEF ReloadNext
<1>5. LeftInv'
  BY <1>1, StepLeft
<1> QED BY <1>2, <1>3, <1>4, <1>5 DEF IInv, TypeOK, PartTypeOK

\* The inductive invariant holds in every behaviour, reloads included.
LEMMA ReloadInvariant == ReloadSpec => []IInv
BY InitInv, StepInv, PTL DEF ReloadSpec

\* The counters of the breakers saturate and the timers stay in their range, in
\* every group that a reload makes (Breaker::count, report_failure).
THEOREM UpstreamTypes == ReloadSpec => []TypeOK
<1>1. IInv => TypeOK
  BY DEF IInv
<1> QED BY <1>1, ReloadInvariant, PTL

\* The counter of least_conn is the number of the permits and guards that are
\* alive, whichever group gave them out (acquire, ConnGuard::drop).
THEOREM ConnectionsCounted == ReloadSpec => []ActiveCounts
<1>1. IInv => ActiveCounts
  BY DEF IInv
<1> QED BY <1>1, ReloadInvariant, PTL

\* A server of a group has at most one trial request (Breaker::admit).
THEOREM SingleTrial == ReloadSpec => []OneTrial
<1>1. IInv => OneTrial
  BY DEF IInv, TrialHeld
<1> QED BY <1>1, ReloadInvariant, PTL

\* A request is refused only when every server with a weight was blocked since
\* the request chose (candidates, acquire).
THEOREM RefusalsJustified == ReloadSpec => []RefusedOnlyBlocked
<1>1. IInv => RefusedOnlyBlocked
  BY DEF IInv, LeftInv
<1> QED BY <1>1, ReloadInvariant, PTL

\* Without a reload, the slot of a half-open circuit is taken exactly while its
\* trial request runs (record, release_trial, Permit::drop).
THEOREM TrialSlotOwned == Spec => []TrialOwned
<1>1. Init => IInv /\ Taken
  BY InitInv
<1>2. IInv /\ Taken /\ [Next]_vars => IInv' /\ Taken'
  <2> SUFFICES ASSUME IInv, Taken, [Next]_vars PROVE IInv' /\ Taken'
    OBVIOUS
  <2>1. IInv'
    BY StepInv DEF ReloadNext
  <2>2. PartTypeOK /\ ReqInv /\ TrialHeld
    BY DEF IInv, TypeOK, PartTypeOK
  <2> QED BY <2>1, <2>2, StepSlots
<1>3. IInv /\ Taken => TrialOwned
  BY DEF IInv, TrialHeld, OneTrial, Taken, Slot, TrialOwned
<1> QED BY <1>1, <1>2, <1>3, PTL DEF Spec

\* Only a successful trial closes a circuit, reloads included (record).
LEMMA ClosedByTrial ==
  ASSUME PartTypeOK, [ReloadNext]_vars, NEW g \in 0..cur, NEW s \in Servers,
         breaker[g][s].circuit # "closed", breaker'[g][s].circuit = "closed"
  PROVE  \E r \in Trials(g, s) : req'[r].step = "guard"
<1>0. g \in Gens /\ breaker[g][s] \in Breakers /\ cur \in Nat
  BY Bounds DEF PartTypeOK, Gens
<1>a. ASSUME NEW h \in Gens, NEW t \in Servers, NEW v, breaker' = At(breaker, h, t, v)
      PROVE  g = h /\ s = t /\ v.circuit = "closed"
  BY <1>0, <1>a DEF PartTypeOK, At
<1>b. breaker' # breaker
  OBVIOUS
<1>1. ASSUME NEW r \in Requests, Request(r)
      PROVE  \E x \in Trials(g, s) : req'[x].step = "guard"
  <2> DEFINE q == req[r]
  <2>0. q.group \in Gens /\ q.server \in Servers /\ q.trial \in BOOLEAN /\ q.tiers \in Tiers
    BY DEF PartTypeOK, ReqStates
  <2>1. CASE Select(r) \/ Exhausted(r) \/ Close(r)
    BY <1>b, <2>1 DEF Select, Exhausted, Close
  <2>2. ~Acquire(r)
    <3> SUFFICES ASSUME Acquire(r) PROVE FALSE
      OBVIOUS
    <3>1. PICK i \in 1..3 : \E t \in q.tiers[i] :
            breaker' = breaker \/ breaker' = At(breaker, q.group, t, Admit(breaker[q.group][t]))
      BY DEF Acquire
    <3>2. PICK t \in Servers : breaker' = At(breaker, q.group, t, Admit(breaker[q.group][t]))
      BY <1>b, <2>0, <3>1 DEF Tiers
    <3>3. q.group = g /\ t = s /\ Admit(breaker[g][s]).circuit = "closed"
      BY <1>a, <2>0, <3>2
    <3> QED BY <1>0, <3>3 DEF Admit, Breakers
  <2>3. ASSUME NEW failed \in BOOLEAN, RecordCircuit(r, failed)
        PROVE  q.group = g /\ q.server = s /\ q.trial /\ ~failed
    <3>1. breaker' = At(breaker, q.group, q.server,
                       Record(breaker[q.group][q.server], q.trial, failed))
      BY <1>b, <2>3 DEF RecordCircuit
    <3>2. /\ q.group = g /\ q.server = s
          /\ Record(breaker[g][s], q.trial, failed).circuit = "closed"
      BY <1>a, <2>0, <3>1
    <3>3. q.trial /\ ~failed
      BY <1>0, <2>0, <3>2 DEF Record, Count, OpenBreaker, Breakers, Circuits
    <3> QED BY <3>2, <3>3
  <2>4. CASE Succeed(r)
    <3>1. q.group = g /\ q.server = s /\ q.trial
      BY <2>3, <2>4 DEF Succeed
    <3>2. q.step = "sent" /\ req'[r].step = "guard"
      BY <2>4 DEF Succeed, Req, PartTypeOK
    <3> QED BY <3>1, <3>2 DEF Trials
  <2>5. ~FailTry(r)
    BY <2>3 DEF FailTry
  <2>6. ~Abandon(r)
    <3> SUFFICES ASSUME Abandon(r) PROVE FALSE
      OBVIOUS
    <3>1. breaker' = At(breaker, q.group, q.server, ReleaseTrial(breaker[q.group][q.server]))
      BY <1>b DEF Abandon
    <3>2. ReleaseTrial(breaker[g][s]).circuit = "closed"
      BY <1>a, <2>0, <3>1
    <3> QED BY <1>0, <3>2 DEF ReleaseTrial, Breakers
  <2> QED BY <1>1, <2>1, <2>2, <2>4, <2>5, <2>6 DEF Request
<1>2. ~Tick
  <2> SUFFICES ASSUME Tick PROVE FALSE
    OBVIOUS
  <2>1. breaker'[g][s] = [breaker[g][s] EXCEPT !.left = Less(@), !.window = Less(@)]
    BY <1>0 DEF Tick
  <2> QED BY <1>0, <2>1 DEF Breakers
<1>3. ~Reload
  BY <1>0 DEF Reload, PartTypeOK
<1>4. ASSUME NEW h \in Gens, NEW t \in Servers PROVE ~Check(h, t)
  BY <1>b DEF Check
<1>5. ~UNCHANGED vars
  BY <1>b DEF vars
<1> QED BY <1>1, <1>2, <1>3, <1>4, <1>5 DEF ReloadNext, Next

\* A late result never closes a circuit: only the trial request does (record).
THEOREM OnlyTrialCloses == ReloadSpec => TrialDecides
<1>1. IInv /\ [ReloadNext]_vars =>
        [\A g \in 0..cur, s \in Servers :
           breaker[g][s].circuit # "closed" /\ breaker'[g][s].circuit = "closed"
           => \E r \in Trials(g, s) : req'[r].step = "guard"]_vars
  <2>1. IInv => PartTypeOK
    BY DEF IInv, TypeOK, PartTypeOK
  <2> QED BY <2>1, ClosedByTrial
<1> QED BY <1>1, ReloadInvariant, PTL DEF ReloadSpec, TrialDecides

-----------------------------------------------------------------------------
(* RoundRobin.  The sums over the servers are recursive functions, so what a *)
(* sum is has to be shown by induction: NatSetInduction has the induction   *)
(* hypothesis as a set, and the lemmas after it say how sums add up, compare *)
(* and change.  NoStarvation alone does not say what the other servers have *)
(* saved; Spread does, for every set of servers: k of the n servers together *)
(* are at most k(n - k) times the heaviest weight above the balance.  A pick *)
(* keeps it because the best candidate pays for the gain of the others.     *)

\* A set of numbers with 0 and with the successor of each member has them all.
LEMMA NatSetInduction ==
  ASSUME NEW T, 0 \in T, \A n \in Nat : n \in T => n + 1 \in T
  PROVE  Nat \subseteq T
<1> DEFINE Bad == Nat \ T
<1> SUFFICES ASSUME Bad # {} PROVE FALSE
  OBVIOUS
<1>1. PICK m \in Bad : \A k \in Bad : ~(<<k, m>> \in OpToRel(<, Nat))
  BY NatLessThanWellFounded, WFMin, Zenon
<1>2. m \in Nat /\ m # 0 /\ m - 1 \in Nat /\ (m - 1) + 1 = m
  OBVIOUS
<1>3. m - 1 \notin T
  BY <1>2
<1>4. <<m - 1, m>> \in OpToRel(<, Nat)
  BY <1>2 DEF OpToRel
<1> QED
  BY <1>1, <1>2, <1>3, <1>4, Zenon

\* What server n adds to the sum of f over S.
Term(f, S, n) == IF n \in S THEN f[n] ELSE 0

\* The sums of the first servers are what their recursive definition says.
LEMMA PrefixStep ==
  ASSUME NEW f \in [Indices -> Int], NEW S \in SUBSET Indices
  PROVE  /\ Prefix(f, S) \in [0..N -> Int]
         /\ Prefix(f, S)[0] = 0
         /\ \A n \in Indices : Prefix(f, S)[n] = Prefix(f, S)[n - 1] + Term(f, S, n)
<1> DEFINE Sums(g, n) == /\ g[0] = 0
                         /\ \A k \in 1..n : g[k] = g[k - 1] + Term(f, S, k)
           Done == {n \in Nat : n <= N => \E g \in [0..n -> Int] : Sums(g, n)}
<1>0. N \in Nat
  BY RoundRobinAssumption
<1>1. 0 \in Done
  <2>1. [k \in 0..0 |-> 0] \in [0..0 -> Int] /\ Sums([k \in 0..0 |-> 0], 0)
    OBVIOUS
  <2> QED
    BY <2>1
<1>2. ASSUME NEW n \in Nat, n \in Done PROVE n + 1 \in Done
  <2> SUFFICES ASSUME n + 1 <= N
               PROVE  \E g \in [0..(n + 1) -> Int] : Sums(g, n + 1)
    BY <1>2
  <2>1. PICK g \in [0..n -> Int] : Sums(g, n)
    BY <1>0, <1>2
  <2> DEFINE h == [k \in 0..(n + 1) |-> IF k = n + 1 THEN g[n] + Term(f, S, n + 1) ELSE g[k]]
  <2>2. Term(f, S, n + 1) \in Int
    BY <1>0 DEF Term, Indices
  <2>3. h \in [0..(n + 1) -> Int]
    BY <2>2
  <2>4. Sums(h, n + 1)
    BY <2>1, <2>3
  <2> QED
    BY <2>3, <2>4
<1>3. Nat \subseteq Done
  <2> HIDE DEF Done
  <2> QED BY <1>1, <1>2, NatSetInduction
<1>4. PICK g \in [0..N -> Int] : Sums(g, N)
  <2>0. N <= N
    BY <1>0
  <2>1. N \in Done
    <3> HIDE DEF Done
    <3> QED BY <1>0, <1>3
  <2>2. \E g \in [0..N -> Int] : Sums(g, N)
    BY <2>0, <2>1
  <2> QED
    BY <2>2
<1> DEFINE Def(s) == [n \in 0..N |-> IF n = 0 THEN 0 ELSE s[n - 1] + (IF n \in S THEN f[n] ELSE 0)]
<1>5. g = Def(g)
  <2>1. \A n \in 0..N : g[n] = Def(g)[n]
    BY <1>0, <1>4 DEF Term
  <2> QED
    BY <2>1
<1>6. Prefix(f, S) = Def(Prefix(f, S))
  BY <1>5 DEF Prefix
<1> DEFINE p == Prefix(f, S)
<1> HIDE DEF p
<1>7. /\ DOMAIN p = 0..N /\ p = [n \in 0..N |-> p[n]] /\ p[0] = 0
      /\ \A n \in Indices : p[n] = p[n - 1] + Term(f, S, n)
  <2> HIDE DEF Def
  <2>1. p = Def(p)
    BY <1>6 DEF p
  <2>2. DOMAIN p = 0..N /\ \A n \in 0..N : p[n] = IF n = 0 THEN 0 ELSE p[n - 1] + Term(f, S, n)
    BY <2>1 DEF Def, Term
  <2>3. p = [n \in 0..N |-> p[n]]
    BY <2>1 DEF Def
  <2>4. \A n \in Indices : n \in 0..N /\ n # 0
    BY <1>0 DEF Indices
  <2>5. 0 \in 0..N
    BY <1>0
  <2> QED
    BY <2>2, <2>3, <2>4, <2>5
<1> DEFINE Whole == {n \in Nat : n <= N => p[n] \in Int}
<1>8. 0 \in Whole
  <2>0. p[0] = 0
    BY <1>7
  <2>1. p[0] \in Int
    BY <2>0
  <2> QED
    BY <2>1
<1>9. ASSUME NEW n \in Nat, n \in Whole PROVE n + 1 \in Whole
  <2> SUFFICES ASSUME n + 1 <= N PROVE p[n + 1] \in Int
    OBVIOUS
  <2>1. n + 1 \in Indices /\ n <= N /\ p[n] \in Int
    BY <1>0, <1>9 DEF Indices
  <2>2. Term(f, S, n + 1) \in Int
    BY <2>1 DEF Term
  <2>3. p[n + 1] = p[(n + 1) - 1] + Term(f, S, n + 1)
    BY <1>7, <2>1
  <2>4. (n + 1) - 1 = n
    OBVIOUS
  <2> QED
    BY <2>1, <2>2, <2>3, <2>4
<1>10. Nat \subseteq Whole
  <2> HIDE DEF Whole
  <2> QED BY <1>8, <1>9, NatSetInduction
<1>11. \A n \in 0..N : p[n] \in Int
  BY <1>0, <1>10
<1> QED
  BY <1>7, <1>11 DEF p

\* Server by server, h over C is f over A plus g over B.
Adds(h, C, f, A, g, B) ==
  \A i \in Indices : Term(h, C, i) = Term(f, A, i) + Term(g, B, i)

\* Then the sums add up.
LEMMA SumAdds ==
  ASSUME NEW f \in [Indices -> Int], NEW g \in [Indices -> Int], NEW h \in [Indices -> Int],
         NEW A \in SUBSET Indices, NEW B \in SUBSET Indices, NEW C \in SUBSET Indices,
         Adds(h, C, f, A, g, B)
  PROVE  Sum(h, C) = Sum(f, A) + Sum(g, B)
<1> DEFINE p == Prefix(f, A)  q == Prefix(g, B)  r == Prefix(h, C)
           Agree == {n \in Nat : n <= N => r[n] = p[n] + q[n]}
<1>0. N \in Nat
  BY RoundRobinAssumption
<1>1. /\ p \in [0..N -> Int] /\ q \in [0..N -> Int] /\ r \in [0..N -> Int]
      /\ p[0] = 0 /\ q[0] = 0 /\ r[0] = 0
      /\ \A n \in Indices : /\ p[n] = p[n - 1] + Term(f, A, n)
                            /\ q[n] = q[n - 1] + Term(g, B, n)
                            /\ r[n] = r[n - 1] + Term(h, C, n)
  BY PrefixStep
<1> HIDE DEF p, q, r
<1>2. 0 \in Agree
  BY <1>1
<1>3. ASSUME NEW n \in Nat, n \in Agree PROVE n + 1 \in Agree
  <2> SUFFICES ASSUME n + 1 <= N PROVE r[n + 1] = p[n + 1] + q[n + 1]
    OBVIOUS
  <2>1. n + 1 \in Indices /\ n \in 0..N /\ (n + 1) - 1 = n /\ n <= N
    BY <1>0 DEF Indices
  <2>2. /\ Term(f, A, n + 1) \in Int /\ Term(g, B, n + 1) \in Int
        /\ Term(h, C, n + 1) = Term(f, A, n + 1) + Term(g, B, n + 1)
    BY <2>1 DEF Adds, Term
  <2>3. r[n] = p[n] + q[n]
    BY <1>3, <2>1
  <2>4. p[n] \in Int /\ q[n] \in Int
    BY <1>1, <2>1
  <2>5. /\ p[n + 1] = p[n] + Term(f, A, n + 1) /\ q[n + 1] = q[n] + Term(g, B, n + 1)
        /\ r[n + 1] = r[n] + Term(h, C, n + 1)
    BY <1>1, <2>1
  <2> QED
    BY <2>2, <2>3, <2>4, <2>5
<1>4. Nat \subseteq Agree
  <2> HIDE DEF Agree
  <2> QED BY <1>2, <1>3, NatSetInduction
<1>5. r[N] = p[N] + q[N]
  BY <1>0, <1>4
<1> QED
  BY <1>5 DEF Sum, p, q, r

\* Server by server, f over A is at most g over B.
AtMost(f, A, g, B) == \A i \in Indices : Term(f, A, i) <= Term(g, B, i)

\* Then the sums compare.
LEMMA SumMonotone ==
  ASSUME NEW f \in [Indices -> Int], NEW g \in [Indices -> Int],
         NEW A \in SUBSET Indices, NEW B \in SUBSET Indices,
         AtMost(f, A, g, B)
  PROVE  Sum(f, A) <= Sum(g, B)
<1> DEFINE p == Prefix(f, A)  q == Prefix(g, B)
           Below == {n \in Nat : n <= N => p[n] <= q[n]}
<1>0. N \in Nat
  BY RoundRobinAssumption
<1>1. /\ p \in [0..N -> Int] /\ q \in [0..N -> Int]
      /\ p[0] = 0 /\ q[0] = 0
      /\ \A n \in Indices : /\ p[n] = p[n - 1] + Term(f, A, n)
                            /\ q[n] = q[n - 1] + Term(g, B, n)
  BY PrefixStep
<1> HIDE DEF p, q
<1>2. 0 \in Below
  BY <1>1
<1>3. ASSUME NEW n \in Nat, n \in Below PROVE n + 1 \in Below
  <2> SUFFICES ASSUME n + 1 <= N PROVE p[n + 1] <= q[n + 1]
    OBVIOUS
  <2>1. n + 1 \in Indices /\ n \in 0..N /\ (n + 1) - 1 = n /\ n <= N
    BY <1>0 DEF Indices
  <2>2. /\ Term(f, A, n + 1) \in Int /\ Term(g, B, n + 1) \in Int
        /\ Term(f, A, n + 1) <= Term(g, B, n + 1)
    BY <2>1 DEF AtMost, Term
  <2>3. p[n] <= q[n]
    BY <1>3, <2>1
  <2>4. p[n] \in Int /\ q[n] \in Int
    BY <1>1, <2>1
  <2>5. p[n + 1] = p[n] + Term(f, A, n + 1) /\ q[n + 1] = q[n] + Term(g, B, n + 1)
    BY <1>1, <2>1
  <2> QED
    BY <2>2, <2>3, <2>4, <2>5
<1>4. Nat \subseteq Below
  <2> HIDE DEF Below
  <2> QED BY <1>2, <1>3, NatSetInduction
<1>5. p[N] <= q[N]
  BY <1>0, <1>4
<1> QED
  BY <1>5 DEF Sum, p, q

\* A sum of integers is an integer.
LEMMA SumInt ==
  ASSUME NEW f \in [Indices -> Int], NEW A \in SUBSET Indices
  PROVE  Sum(f, A) \in Int
BY PrefixStep, RoundRobinAssumption DEF Sum

\* How many servers A has.
One == [i \in Indices |-> 1]
Size(A) == Sum(One, A)

\* The sum over one server.
LEMMA SumOne ==
  ASSUME NEW f \in [Indices -> Int], NEW b \in Indices
  PROVE  Sum(f, {b}) = f[b]
<1> DEFINE p == Prefix(f, {b})
           Point == {n \in Nat : n <= N => p[n] = IF n < b THEN 0 ELSE f[b]}
<1>0. N \in Nat /\ b \in Nat /\ 0 < b /\ b <= N /\ {b} \in SUBSET Indices /\ f[b] \in Int
  BY RoundRobinAssumption DEF Indices
<1>1. /\ p \in [0..N -> Int] /\ p[0] = 0
      /\ \A n \in Indices : p[n] = p[n - 1] + Term(f, {b}, n)
  BY <1>0, PrefixStep
<1> HIDE DEF p
<1>2. 0 \in Point
  BY <1>0, <1>1
<1>3. ASSUME NEW n \in Nat, n \in Point PROVE n + 1 \in Point
  <2> SUFFICES ASSUME n + 1 <= N PROVE p[n + 1] = IF n + 1 < b THEN 0 ELSE f[b]
    OBVIOUS
  <2>1. n + 1 \in Indices /\ n \in 0..N /\ (n + 1) - 1 = n /\ n <= N
    BY <1>0 DEF Indices
  <2>2. Term(f, {b}, n + 1) = IF n + 1 = b THEN f[b] ELSE 0
    BY <2>1 DEF Term
  <2>3. p[n] = IF n < b THEN 0 ELSE f[b]
    BY <1>3, <2>1
  <2>4. p[n + 1] = p[n] + Term(f, {b}, n + 1)
    BY <1>1, <2>1
  <2> QED
    BY <1>0, <2>2, <2>3, <2>4
<1>4. Nat \subseteq Point
  <2> HIDE DEF Point
  <2> QED BY <1>2, <1>3, NatSetInduction
<1>5. p[N] = f[b]
  BY <1>0, <1>4
<1> QED
  BY <1>5 DEF Sum, p

\* There are N servers.
LEMMA SizeAll == Size(Indices) = N
<1> DEFINE p == Prefix(One, Indices)
           Upto == {n \in Nat : n <= N => p[n] = n}
<1>0. N \in Nat /\ One \in [Indices -> Int]
  BY RoundRobinAssumption DEF One
<1>1. /\ p \in [0..N -> Int] /\ p[0] = 0
      /\ \A n \in Indices : p[n] = p[n - 1] + Term(One, Indices, n)
  BY <1>0, PrefixStep
<1> HIDE DEF p
<1>2. 0 \in Upto
  BY <1>0, <1>1
<1>3. ASSUME NEW n \in Nat, n \in Upto PROVE n + 1 \in Upto
  <2> SUFFICES ASSUME n + 1 <= N PROVE p[n + 1] = n + 1
    OBVIOUS
  <2>1. n + 1 \in Indices /\ n \in 0..N /\ (n + 1) - 1 = n /\ n <= N
    BY <1>0 DEF Indices
  <2>2. Term(One, Indices, n + 1) = 1
    BY <2>1 DEF Term, One
  <2>3. p[n] = n
    BY <1>3, <2>1
  <2>4. p[n + 1] = p[n] + Term(One, Indices, n + 1)
    BY <1>1, <2>1
  <2> QED
    BY <2>2, <2>3, <2>4
<1>4. Nat \subseteq Upto
  <2> HIDE DEF Upto
  <2> QED BY <1>2, <1>3, NatSetInduction
<1>5. p[N] = N
  BY <1>0, <1>4
<1> QED
  BY <1>5 DEF Sum, Size, p

\* A function that is the constant c on A.
LEMMA SumConstant ==
  ASSUME NEW c \in Int, NEW A \in SUBSET Indices,
         NEW f \in [Indices -> Int], \A i \in Indices : f[i] = c
  PROVE  Sum(f, A) = c * Size(A)
<1> DEFINE p == Prefix(f, A)  q == Prefix(One, A)
           Times == {n \in Nat : n <= N => p[n] = c * q[n]}
<1>0. N \in Nat /\ One \in [Indices -> Int]
  BY RoundRobinAssumption DEF One
<1>1. /\ p \in [0..N -> Int] /\ q \in [0..N -> Int] /\ p[0] = 0 /\ q[0] = 0
      /\ \A n \in Indices : /\ p[n] = p[n - 1] + Term(f, A, n)
                            /\ q[n] = q[n - 1] + Term(One, A, n)
  BY <1>0, PrefixStep
<1> HIDE DEF p, q
<1>2. 0 \in Times
  BY <1>0, <1>1
<1>3. ASSUME NEW n \in Nat, n \in Times PROVE n + 1 \in Times
  <2> SUFFICES ASSUME n + 1 <= N PROVE p[n + 1] = c * q[n + 1]
    OBVIOUS
  <2>1. n + 1 \in Indices /\ n \in 0..N /\ (n + 1) - 1 = n /\ n <= N
    BY <1>0 DEF Indices
  <2>2. \/ Term(f, A, n + 1) = 0 /\ Term(One, A, n + 1) = 0
        \/ Term(f, A, n + 1) = c /\ Term(One, A, n + 1) = 1
    BY <2>1 DEF Term, One
  <2>3. p[n] = c * q[n]
    BY <1>3, <2>1
  <2>4. p[n + 1] = p[n] + Term(f, A, n + 1) /\ q[n + 1] = q[n] + Term(One, A, n + 1)
    BY <1>1, <2>1
  <2>5. q[n] \in Int
    BY <1>1, <2>1
  <2>6. c * (q[n] + 0) = c * q[n] + 0 /\ c * (q[n] + 1) = c * q[n] + c
    BY <2>5
  <2> QED
    BY <2>2, <2>3, <2>4, <2>5, <2>6
<1>4. Nat \subseteq Times
  <2> HIDE DEF Times
  <2> QED BY <1>2, <1>3, NatSetInduction
<1>5. p[N] = c * q[N]
  BY <1>0, <1>4
<1> QED
  BY <1>5 DEF Sum, Size, p, q

\* A sum of zeros.
LEMMA SumZero ==
  ASSUME NEW f \in [Indices -> Int], NEW A \in SUBSET Indices, \A i \in A : f[i] = 0
  PROVE  Sum(f, A) = 0
<1> DEFINE x == Sum(f, A)
<1>1. Adds(f, A, f, A, f, A)
  BY DEF Adds, Term
<1>2. x \in Int /\ x = x + x
  BY <1>1, SumInt, SumAdds
<1> HIDE DEF x
<1>3. x = 0
  BY <1>2
<1> QED
  BY <1>3 DEF x

\* The sum over no server.
LEMMA SumEmpty ==
  ASSUME NEW f \in [Indices -> Int]
  PROVE  Sum(f, {}) = 0
BY SumZero

\* Sums over the parts of a set.
LEMMA SumUnion ==
  ASSUME NEW f \in [Indices -> Int], NEW A \in SUBSET Indices, NEW B \in SUBSET Indices,
         A \cap B = {}
  PROVE  Sum(f, A \cup B) = Sum(f, A) + Sum(f, B)
<1> DEFINE U == A \cup B
<1>1. Adds(f, U, f, A, f, B)
  BY DEF Adds, Term
<1>2. U \in SUBSET Indices
  OBVIOUS
<1> HIDE DEF U
<1>3. Sum(f, U) = Sum(f, A) + Sum(f, B)
  BY <1>1, <1>2, SumAdds
<1> QED
  BY <1>3 DEF U

\* h is f except at b, where it is v.
Changed(h, f, b, v) == h[b] = v /\ \A i \in Indices \ {b} : h[i] = f[i]

\* A sum after one value has changed.
LEMMA SumExcept ==
  ASSUME NEW f \in [Indices -> Int], NEW A \in SUBSET Indices, NEW b \in Indices, NEW v \in Int,
         NEW h \in [Indices -> Int], Changed(h, f, b, v)
  PROVE  Sum(h, A) = Sum(f, A) + (IF b \in A THEN v - f[b] ELSE 0)
<1> DEFINE g == [i \in Indices |-> v - f[b]]
<1>1. h \in [Indices -> Int] /\ g \in [Indices -> Int] /\ f[b] \in Int
  OBVIOUS
<1>2. CASE b \in A
  <2> DEFINE B == {b}
  <2>1. Adds(h, A, f, A, g, B)
    BY <1>1, <1>2 DEF Adds, Term, Changed
  <2>2. Sum(g, B) = v - f[b]
    <3>1. g[b] = v - f[b]
      OBVIOUS
    <3> HIDE DEF g
    <3> QED BY <1>1, <3>1, SumOne
  <2>3. B \in SUBSET Indices
    OBVIOUS
  <2> HIDE DEF g, B
  <2>4. Sum(h, A) = Sum(f, A) + Sum(g, B)
    BY <1>1, <2>1, <2>3, SumAdds
  <2> QED
    BY <1>2, <2>2, <2>4
<1>3. CASE b \notin A
  <2>1. Adds(h, A, f, A, f, {})
    BY <1>1, <1>3 DEF Adds, Term, Changed
  <2>2. Sum(h, A) = Sum(f, A) + Sum(f, {})
    BY <1>1, <2>1, SumAdds
  <2>3. Sum(f, A) \in Int /\ Sum(f, {}) = 0
    BY SumInt, SumEmpty
  <2> QED
    BY <1>3, <2>2, <2>3
<1> QED
  BY <1>2, <1>3

\* Functions with one sum, one of which is nowhere above the other, are equal.
LEMMA SumEqual ==
  ASSUME NEW f \in [Indices -> Int], NEW g \in [Indices -> Int],
         \A i \in Indices : f[i] <= g[i], Sum(f, Indices) = Sum(g, Indices)
  PROVE  f = g
<1> SUFFICES ASSUME NEW b \in Indices, f[b] < g[b] PROVE FALSE
  <2>1. (\A i \in Indices : f[i] = g[i]) => f = g
    OBVIOUS
  <2>2. \A i \in Indices : f[i] \in Int /\ g[i] \in Int
    OBVIOUS
  <2> QED
    BY <2>1, <2>2
<1> DEFINE h == [g EXCEPT ![b] = f[b]]
<1>1. h \in [Indices -> Int] /\ f[b] \in Int /\ g[b] \in Int
  OBVIOUS
<1>2. AtMost(f, Indices, h, Indices)
  BY <1>1 DEF AtMost, Term
<1>3. Changed(h, g, b, f[b])
  BY <1>1 DEF Changed
<1> HIDE DEF h
<1>5. Sum(h, Indices) = Sum(g, Indices) + (f[b] - g[b])
  BY <1>1, <1>3, SumExcept
<1>4. Sum(f, Indices) <= Sum(h, Indices)
  BY <1>1, <1>2, SumMonotone
<1> QED
  BY <1>1, <1>4, <1>5, SumInt

-----------------------------------------------------------------------------
\* Among candidates there is a best one.
LEMMA BestOf ==
  ASSUME NEW value \in [Indices -> Int], NEW S \in SUBSET Indices, S # {}
  PROVE  /\ Best(value, S) \in S
         /\ \A j \in S : value[j] <= value[Best(value, S)]
<1> DEFINE IsBest(i, R) == i \in R /\ \A j \in R : value[j] < value[i] \/ (value[j] = value[i] /\ i <= j)
           First(n) == {i \in S : i <= n}
           Has == {n \in Nat : First(n) # {} => \E i \in First(n) : IsBest(i, First(n))}
<1>0. N \in Nat /\ S \subseteq Nat /\ \A i \in S : value[i] \in Int /\ i > 0 /\ i <= N
  BY RoundRobinAssumption DEF Indices
<1>1. 0 \in Has
  <2>0. \A i \in S : ~(i <= 0)
    BY <1>0
  <2>1. First(0) = {}
    BY <2>0
  <2> QED
    BY <2>1
<1>2. ASSUME NEW n \in Nat, n \in Has PROVE n + 1 \in Has
  <2>a. \A i \in S : i <= n + 1 <=> i <= n \/ i = n + 1
    BY <1>0
  <2>0. First(n + 1) = IF n + 1 \in S THEN First(n) \cup {n + 1} ELSE First(n)
    BY <2>a, <1>0
  <2>1. CASE n + 1 \notin S
    BY <1>2, <2>0, <2>1
  <2>2. CASE n + 1 \in S /\ First(n) = {}
    <3>1. First(n + 1) = {n + 1}
      BY <2>0, <2>2
    <3> QED
      BY <1>0, <2>2, <3>1
  <2>3. CASE n + 1 \in S /\ First(n) # {}
    <3>1. PICK i \in First(n) : IsBest(i, First(n))
      BY <1>2, <2>3
    <3>2. i \in S /\ i <= n /\ i \in Nat /\ value[i] \in Int /\ value[n + 1] \in Int
      BY <1>0, <2>3
    <3>3. First(n + 1) = First(n) \cup {n + 1}
      BY <2>0, <2>3
    <3>4. CASE value[i] < value[n + 1]
      <4>1. IsBest(n + 1, First(n) \cup {n + 1})
        BY <1>0, <3>1, <3>2, <3>4
      <4> QED
        BY <4>1, <3>3
    <3>5. CASE ~(value[i] < value[n + 1])
      <4>1. IsBest(i, First(n) \cup {n + 1})
        BY <1>0, <3>1, <3>2, <3>5
      <4> QED
        BY <4>1, <3>3
    <3> QED
      BY <3>4, <3>5
  <2> QED
    BY <2>1, <2>2, <2>3
<1>3. Nat \subseteq Has
  <2> HIDE DEF Has
  <2> QED BY <1>1, <1>2, NatSetInduction
<1>4. First(N) = S
  BY <1>0
<1>5. \E i \in S : IsBest(i, S)
  <2>1. N \in Has
    <3> HIDE DEF Has
    <3> QED BY <1>0, <1>3
  <2> QED
    BY <2>1, <1>4
<1>6. IsBest(Best(value, S), S)
  <2>1. Best(value, S) = CHOOSE i \in S : IsBest(i, S)
    <3>1. \A i \in S : IsBest(i, S) <=> \A j \in S : value[j] < value[i] \/ (value[j] = value[i] /\ i <= j)
      OBVIOUS
    <3> QED BY <3>1 DEF Best
  <2> HIDE DEF IsBest
  <2> QED BY <1>5, <2>1
<1>7. Best(value, S) \in S
  BY <1>6
<1>8. ASSUME NEW j \in S PROVE value[j] <= value[Best(value, S)]
  <2>1. value[j] < value[Best(value, S)] \/ value[j] = value[Best(value, S)]
    BY <1>6
  <2>2. value[j] \in Int /\ value[Best(value, S)] \in Int
    BY <1>0, <1>7
  <2> QED
    BY <2>1, <2>2
<1> QED
  BY <1>7, <1>8

\* There is a heaviest server.
LEMMA HeaviestOf ==
  ASSUME weight \in [Indices -> 1..MaxWeight]
  PROVE  Heaviest \in Nat /\ Heaviest > 0 /\ \A i \in Indices : weight[i] <= Heaviest
<1>0. Indices # {} /\ Indices \in SUBSET Indices /\ weight \in [Indices -> Int]
  BY RoundRobinAssumption DEF Indices
<1>1. \A j \in Indices : weight[j] <= weight[Best(weight, Indices)]
  BY <1>0, BestOf
<1>2. Best(weight, Indices) \in Indices
  BY <1>0, BestOf
<1>3. \E w \in {weight[i] : i \in Indices} : \A i \in Indices : weight[i] <= w
  BY <1>1, <1>2
<1>4. Heaviest \in {weight[i] : i \in Indices} /\ \A i \in Indices : weight[i] <= Heaviest
  BY <1>3 DEF Heaviest
<1>5. PICK h \in Indices : Heaviest = weight[h]
  BY <1>4
<1>6. weight[h] \in 1..MaxWeight
  BY <1>5
<1> QED
  BY <1>4, <1>5, <1>6, RoundRobinAssumption

-----------------------------------------------------------------------------
\* The types of the state of the round robin.
RobinType ==
  /\ weight \in [Indices -> 1..MaxWeight] /\ current \in [Indices -> Int]
  /\ picks \in [Indices -> Nat] /\ full \in BOOLEAN /\ waits \in [Indices -> Nat]

\* While every server was a candidate, the weights follow from the picks of the cycle,
\* and no server owes a whole cycle.
Cycle ==
  full =>
    /\ Sum(picks, Indices) <= Total
    /\ \A i \in Indices : /\ current[i] = Sum(picks, Indices) * weight[i] - Total * picks[i]
                          /\ current[i] > -Total

\* What a set of servers may have saved together.
Spread ==
  \A A \in SUBSET Indices : Sum(current, A) <= Heaviest * (Size(A) * (N - Size(A)))

\* A server that waits saves its weight each time.
Waits == \A i \in Indices : waits[i] * weight[i] <= current[i] + (N - 1) * Heaviest

\* The inductive invariant.
RobinInv == RobinType /\ Balanced /\ Cycle /\ Spread /\ Waits

\* The arithmetic of a pick: s is the sum of k servers without the pick, cs and ws are
\* those of the m candidates among them, cb and wb the weights of the pick.
LEMMA SpreadStep ==
  ASSUME NEW m \in Nat, NEW k \in Int, NEW n \in Int, NEW G \in Int, NEW s \in Int,
         NEW cb \in Int, NEW wb \in Int, NEW cs \in Int, NEW ws \in Int,
         s + cb <= G * ((k + 1) * (n - (k + 1))),
         s - cs <= G * ((k - m) * (n - (k - m))),
         cs <= (cb + wb) * m - ws, ws <= G * m, wb <= G
  PROVE  s + ws <= G * (k * (n - k))
<1> DEFINE P == G * (k * (n - k))
           X == G * ((k + 1) * (n - (k + 1)))
           Y == G * ((k - m) * (n - (k - m)))
<1>1. P \in Int /\ X \in Int /\ Y \in Int
  OBVIOUS
<1>2. m * X + Y = (m + 1) * P - G * (m * (m + 1))
  OBVIOUS
<1> HIDE DEF P, X, Y
<1>3. s + cb <= X /\ s - cs <= Y
  BY DEF X, Y
<1>4. m * (s + cb) <= m * X
  BY <1>1, <1>3
<1>5. m * (s + cb) = m * s + m * cb /\ (cb + wb) * m = m * cb + m * wb
  OBVIOUS
<1>6. m * wb <= m * G /\ m * ws <= m * (G * m)
  OBVIOUS
<1>7. G * (m * (m + 1)) = m * (G * m) + m * G
  OBVIOUS
<1>8. (m + 1) * (s + ws) = m * s + s + m * ws + ws
  OBVIOUS
<1>9. (m + 1) * (s + ws) <= (m + 1) * P
  BY <1>1, <1>2, <1>3, <1>4, <1>5, <1>6, <1>7, <1>8
<1> QED
  BY <1>1, <1>9 DEF P

\* What a pick does to the sum of a set of servers.
LEMMA PaySum ==
  ASSUME RobinType, NEW S \in SUBSET Indices, S # {}, NEW A \in SUBSET Indices
  PROVE  /\ Pay(S) \in [Indices -> Int]
         /\ Sum(Pay(S), A) = Sum(current, A) + Sum(weight, S \cap A)
                             - (IF Best(Gain(S), S) \in A THEN Sum(weight, S) ELSE 0)
<1> DEFINE g == Gain(S)  b == Best(g, S)  I == S \cap A
<1>1. weight \in [Indices -> Int] /\ current \in [Indices -> Int]
  BY RoundRobinAssumption DEF RobinType
<1>2. g \in [Indices -> Int]
  BY <1>1 DEF Gain
<1>3. b \in Indices
  <2> HIDE DEF g
  <2> QED BY <1>2, BestOf
<1>4. Adds(g, A, current, A, weight, I) /\ I \in SUBSET Indices
  BY <1>1 DEF Adds, Term, Gain
<1> DEFINE v == g[b] - Sum(weight, S)
<1>5. v \in Int /\ Sum(weight, S) \in Int /\ Sum(weight, I) \in Int /\ Sum(current, A) \in Int
      /\ g[b] \in Int
  <2> HIDE DEF g, b
  <2> QED BY <1>1, <1>2, <1>3, SumInt
<1>6. Pay(S) = [g EXCEPT ![b] = v]
  BY DEF Pay
<1> HIDE DEF g, b, I
<1>7. Sum(g, A) = Sum(current, A) + Sum(weight, I)
  BY <1>1, <1>2, <1>4, SumAdds
<1>9. Pay(S) \in [Indices -> Int] /\ Changed(Pay(S), g, b, v)
  <2> HIDE DEF v
  <2> QED BY <1>2, <1>3, <1>5, <1>6 DEF Changed
<1>8. Sum(Pay(S), A) = Sum(g, A) + (IF b \in A THEN v - g[b] ELSE 0)
  <2> HIDE DEF v
  <2> QED BY <1>2, <1>3, <1>5, <1>9, SumExcept
<1>10. Sum(Pay(S), A) = Sum(current, A) + Sum(weight, I) - (IF b \in A THEN Sum(weight, S) ELSE 0)
  BY <1>5, <1>7, <1>8
<1> QED
  BY <1>9, <1>10 DEF g, b, I

\* Facts about the numbers of a state.
LEMMA Numbers ==
  ASSUME RobinType
  PROVE  /\ weight \in [Indices -> Int] /\ picks \in [Indices -> Int] /\ One \in [Indices -> Int]
         /\ N \in Nat /\ N >= 1 /\ Total \in Int /\ Total > 0
         /\ Sum(picks, Indices) \in Nat /\ Indices \in SUBSET Indices /\ Indices # {}
         /\ \A i \in Indices : weight[i] \in Nat /\ weight[i] > 0
<1>0. N \in Nat /\ N >= 1 /\ Indices # {}
  BY RoundRobinAssumption DEF Indices
<1>1. /\ weight \in [Indices -> Int] /\ picks \in [Indices -> Int] /\ One \in [Indices -> Int]
      /\ N \in Nat /\ N >= 1 /\ Indices \in SUBSET Indices /\ Indices # {}
  BY <1>0, RoundRobinAssumption DEF RobinType, One
<1>2. \A i \in Indices : weight[i] \in Nat /\ weight[i] > 0 /\ picks[i] \in Nat
  BY RoundRobinAssumption DEF RobinType
<1>3. AtMost(One, Indices, weight, Indices)
  BY <1>1, <1>2 DEF AtMost, Term, One
<1>4. Sum(One, Indices) <= Sum(weight, Indices)
  BY <1>1, <1>3, SumMonotone
<1>5. Sum(One, Indices) = N
  BY SizeAll DEF Size
<1>6. AtMost(picks, {}, picks, Indices)
  BY <1>1, <1>2 DEF AtMost, Term
<1>7. Sum(picks, {}) <= Sum(picks, Indices) /\ Sum(picks, {}) = 0
  BY <1>1, <1>6, SumMonotone, SumEmpty
<1>8. Sum(picks, Indices) \in Int /\ Sum(weight, Indices) \in Int
  BY <1>1, SumInt
<1> QED
  BY <1>1, <1>2, <1>4, <1>5, <1>7, <1>8 DEF Total

\* What the candidates gain, the pick pays.
LEMMA PayBalanced ==
  ASSUME RobinType, Balanced, NEW S \in SUBSET Indices, S # {}
  PROVE  Sum(Pay(S), Indices) = 0
<1>1. Gain(S) \in [Indices -> Int] /\ weight \in [Indices -> Int]
  BY Numbers DEF RobinType, Gain
<1>2. Best(Gain(S), S) \in Indices
  BY <1>1, BestOf
<1>3. S \cap Indices = S /\ Indices \in SUBSET Indices
  OBVIOUS
<1>4. Sum(Pay(S), Indices) = Sum(current, Indices) + Sum(weight, S) - Sum(weight, S)
  BY <1>2, <1>3, PaySum
<1> QED
  BY <1>1, <1>4, SumInt DEF Balanced

\* A set that contains the pick is not better off.
LEMMA SpreadBest ==
  ASSUME RobinType, Spread, NEW S \in SUBSET Indices, S # {}, NEW A \in SUBSET Indices,
         Best(Gain(S), S) \in A
  PROVE  Sum(Pay(S), A) <= Heaviest * (Size(A) * (N - Size(A)))
<1> DEFINE I == S \cap A
<1>1. Sum(Pay(S), A) = Sum(current, A) + Sum(weight, I) - Sum(weight, S)
  BY PaySum
<1>2. weight \in [Indices -> Int] /\ current \in [Indices -> Int] /\ I \in SUBSET Indices
  BY Numbers DEF RobinType
<1>3. AtMost(weight, I, weight, S)
  BY Numbers DEF AtMost, Term
<1> HIDE DEF I
<1>4. Sum(weight, I) <= Sum(weight, S)
  BY <1>2, <1>3, SumMonotone
<1>5. Sum(weight, I) \in Int /\ Sum(weight, S) \in Int /\ Sum(current, A) \in Int
  BY <1>2, SumInt
<1>6. Sum(Pay(S), A) <= Sum(current, A)
  BY <1>1, <1>4, <1>5
<1>7. Heaviest \in Int /\ Size(A) \in Int /\ N \in Int
  BY HeaviestOf, Numbers, SumInt DEF Size, RobinType
<1>8. Sum(current, A) <= Heaviest * (Size(A) * (N - Size(A)))
  BY DEF Spread
<1>9. Sum(Pay(S), A) \in Int /\ Heaviest * (Size(A) * (N - Size(A))) \in Int
  BY <1>1, <1>5, <1>7
<1> QED
  BY <1>5, <1>6, <1>8, <1>9

\* A set without the pick has its gain from candidates no better than the pick.
LEMMA SpreadOthers ==
  ASSUME RobinType, Spread, NEW S \in SUBSET Indices, S # {}, NEW A \in SUBSET Indices,
         Best(Gain(S), S) \notin A
  PROVE  Sum(Pay(S), A) <= Heaviest * (Size(A) * (N - Size(A)))
<1> DEFINE I == S \cap A  b == Best(Gain(S), S)  G == Heaviest
           cb == current[b]  wb == weight[b]  B == A \cup {b}  D == A \ I
<1>1. /\ weight \in [Indices -> Int] /\ current \in [Indices -> Int] /\ One \in [Indices -> Int]
      /\ I \in SUBSET Indices /\ Gain(S) \in [Indices -> Int] /\ N \in Int
  BY Numbers DEF RobinType, Gain
<1>2. b \in S /\ b \in Indices /\ \A j \in S : Gain(S)[j] <= Gain(S)[b]
  BY <1>1, BestOf
<1>3. \A j \in S : current[j] + weight[j] <= cb + wb
  BY <1>1, <1>2 DEF Gain
<1>4. G \in Int /\ G > 0 /\ \A i \in Indices : weight[i] <= G
  BY HeaviestOf DEF RobinType
<1>5. B \in SUBSET Indices /\ D \in SUBSET Indices /\ I \in SUBSET Indices
  BY <1>2
<1> HIDE DEF G, cb, wb
<1>6. cb \in Int /\ wb \in Int /\ wb <= G
  BY <1>1, <1>2, <1>4 DEF cb, wb
<1>7. /\ Sum(current, B) = Sum(current, A) + cb
      /\ Size(B) = Size(A) + 1
  <2> DEFINE E == {b}
  <2>1. E \in SUBSET Indices /\ A \cap E = {} /\ B = A \cup E
    BY <1>2
  <2>2. Sum(current, E) = cb /\ Sum(One, E) = 1
    BY <1>1, <1>2, SumOne DEF cb, One
  <2> HIDE DEF E, B, b
  <2> QED
    BY <1>1, <2>1, <2>2, SumUnion DEF Size
<1>8. /\ Sum(current, A) = Sum(current, D) + Sum(current, I)
      /\ Size(A) = Size(D) + Size(I)
  <2>1. D \cap I = {} /\ A = D \cup I
    OBVIOUS
  <2> HIDE DEF D, I
  <2> QED
    BY <1>1, <1>5, <2>1, SumUnion DEF Size
<1>9. Sum(Pay(S), A) = Sum(current, A) + Sum(weight, I)
  <2>1. Sum(weight, I) \in Int /\ Sum(current, A) \in Int
    BY <1>1, SumInt
  <2>2. Sum(Pay(S), A) = Sum(current, A) + Sum(weight, I) - 0
    BY PaySum
  <2> QED
    BY <2>1, <2>2
<1> DEFINE c == [i \in Indices |-> cb + wb]
           u == [i \in Indices |-> cb + wb - weight[i]]
           h == [i \in Indices |-> G]
<1>10. c \in [Indices -> Int] /\ u \in [Indices -> Int] /\ h \in [Indices -> Int]
  BY <1>1, <1>4, <1>6
<1>11. AtMost(current, I, u, I) /\ AtMost(weight, I, h, I) /\ Adds(c, I, u, I, weight, I)
  BY <1>1, <1>3, <1>4, <1>6 DEF AtMost, Adds, Term
<1>12. Sum(c, I) = (cb + wb) * Size(I) /\ Sum(h, I) = G * Size(I)
  <2>1. (\A i \in Indices : c[i] = cb + wb) /\ (\A i \in Indices : h[i] = G) /\ cb + wb \in Int
    BY <1>6
  <2> HIDE DEF c, u, h
  <2>2. Sum(c, I) = (cb + wb) * Size(I)
    BY <1>1, <1>10, <2>1, SumConstant
  <2>3. Sum(h, I) = G * Size(I)
    BY <1>1, <1>4, <1>10, <2>1, SumConstant
  <2> QED
    BY <2>2, <2>3
<1> HIDE DEF c, u, h, I, D, B, b
<1>13. Sum(current, I) <= Sum(u, I) /\ Sum(weight, I) <= Sum(h, I)
  BY <1>1, <1>10, <1>11, SumMonotone
<1>14. Sum(c, I) = Sum(u, I) + Sum(weight, I)
  BY <1>1, <1>10, <1>11, SumAdds
<1>15. /\ Sum(current, I) \in Int /\ Sum(weight, I) \in Int /\ Sum(u, I) \in Int
       /\ Sum(current, A) \in Int /\ Size(A) \in Int /\ Size(D) \in Int /\ Sum(current, D) \in Int
       /\ Sum(c, I) \in Int
  BY <1>1, <1>5, <1>10, SumInt DEF Size
<1>16. Size(I) \in Nat
  <2>1. AtMost(One, {}, One, I) /\ {} \in SUBSET Indices
    BY DEF AtMost, Term, One
  <2>2. Sum(One, {}) <= Sum(One, I) /\ Sum(One, {}) = 0 /\ Sum(One, I) \in Int
    BY <1>1, <2>1, SumMonotone, SumEmpty, SumInt
  <2> QED
    BY <2>2 DEF Size
<1>17. /\ Sum(current, A) + cb <= G * ((Size(A) + 1) * (N - (Size(A) + 1)))
       /\ Sum(current, D) <= G * (Size(D) * (N - Size(D)))
  BY <1>5, <1>7 DEF Spread, G
<1>18. Size(D) = Size(A) - Size(I) /\ Sum(current, D) = Sum(current, A) - Sum(current, I)
  BY <1>8, <1>15, <1>16
<1>19. Sum(current, I) <= (cb + wb) * Size(I) - Sum(weight, I)
  BY <1>12, <1>13, <1>14, <1>15
<1>20. Sum(weight, I) <= G * Size(I)
  BY <1>12, <1>13
<1>21. Sum(current, A) + Sum(weight, I) <= G * (Size(A) * (N - Size(A)))
  BY <1>1, <1>4, <1>6, <1>15, <1>16, <1>17, <1>18, <1>19, <1>20, SpreadStep
<1> QED
  BY <1>9, <1>21 DEF G

\* A pick keeps the spread.
LEMMA SpreadKept ==
  ASSUME RobinType, Spread, NEW S \in SUBSET Indices, S # {}
  PROVE  \A A \in SUBSET Indices : Sum(Pay(S), A) <= Heaviest * (Size(A) * (N - Size(A)))
BY SpreadBest, SpreadOthers

\* The spread bounds the weights of every server, from above and from below.
LEMMA WeightRange ==
  ASSUME RobinType, NEW f \in [Indices -> Int], Sum(f, Indices) = 0,
         \A A \in SUBSET Indices : Sum(f, A) <= Heaviest * (Size(A) * (N - Size(A))),
         NEW b \in Indices
  PROVE  f[b] <= (N - 1) * Heaviest /\ f[b] >= -((N - 1) * Heaviest)
<1> DEFINE E == {b}  R == Indices \ {b}  G == Heaviest
<1>1. E \in SUBSET Indices /\ R \in SUBSET Indices /\ E \cap R = {} /\ E \cup R = Indices
  OBVIOUS
<1>2. N \in Int /\ G \in Int /\ One \in [Indices -> Int] /\ f[b] \in Int
  BY Numbers, HeaviestOf DEF RobinType
<1>3. Sum(f, E) = f[b] /\ Sum(One, E) = 1
  BY <1>2, SumOne DEF One
<1> HIDE DEF E, R, G
<1>4. Sum(f, Indices) = Sum(f, E) + Sum(f, R) /\ Sum(One, Indices) = Sum(One, E) + Sum(One, R)
  BY <1>1, <1>2, SumUnion
<1>5. Sum(f, R) \in Int /\ Sum(One, R) \in Int
  BY <1>1, <1>2, SumInt
<1>6. Size(E) = 1 /\ Size(R) = N - 1 /\ Sum(f, R) = -f[b]
  <2>1. Sum(One, Indices) = N
    BY SizeAll DEF Size
  <2>2. Sum(One, R) = N - 1
    BY <1>2, <1>3, <1>4, <1>5, <2>1
  <2>3. 0 = f[b] + Sum(f, R)
    BY <1>3, <1>4
  <2>4. Sum(f, R) = -f[b]
    BY <1>2, <1>5, <2>3
  <2> QED
    BY <1>3, <2>2, <2>4 DEF Size
<1>7. /\ f[b] <= G * (1 * (N - 1)) /\ -f[b] <= G * ((N - 1) * (N - (N - 1)))
  BY <1>1, <1>3, <1>6 DEF G
<1>8. G * (1 * (N - 1)) = (N - 1) * G /\ G * ((N - 1) * (N - (N - 1))) = (N - 1) * G
  BY <1>2
<1>9. f[b] <= (N - 1) * G /\ f[b] >= -((N - 1) * G)
  BY <1>2, <1>7, <1>8
<1> QED
  BY <1>9 DEF G

\* While every server is a candidate, the best one has gained more than nothing.
LEMMA BestGains ==
  ASSUME RobinType, Balanced
  PROVE  Gain(Indices)[Best(Gain(Indices), Indices)] > 0
<1> DEFINE g == Gain(Indices)  b == Best(g, Indices)
<1>1. /\ weight \in [Indices -> Int] /\ current \in [Indices -> Int] /\ g \in [Indices -> Int]
      /\ Indices \in SUBSET Indices /\ Indices # {}
  BY Numbers DEF RobinType, Gain
<1>2. Adds(g, Indices, current, Indices, weight, Indices)
  BY <1>1 DEF Adds, Term, Gain
<1> HIDE DEF g
<1>3. b \in Indices /\ \A j \in Indices : g[j] <= g[b]
  BY <1>1, BestOf
<1> HIDE DEF b
<1>4. Sum(g, Indices) = Sum(current, Indices) + Sum(weight, Indices)
  BY <1>1, <1>2, SumAdds
<1>5. Sum(g, Indices) > 0
  BY <1>1, <1>4, Numbers, SumInt DEF Balanced, Total
<1>6. ASSUME g[b] <= 0 PROVE FALSE
  <2>1. \A j \in Indices : g[j] <= 0 /\ g[j] \in Int
    BY <1>1, <1>3, <1>6
  <2>2. AtMost(g, Indices, g, {})
    BY <2>1 DEF AtMost, Term
  <2>3. Sum(g, Indices) <= Sum(g, {}) /\ Sum(g, {}) = 0
    BY <1>1, <2>2, SumMonotone, SumEmpty
  <2> QED
    BY <1>1, <1>5, <2>3, SumInt
<1>7. g[b] \in Int
  BY <1>1, <1>3
<1>8. g[b] > 0
  BY <1>6, <1>7
<1> QED
  BY <1>8 DEF g, b

\* A cycle of the whole list ends with every server picked as often as it weighs.
LEMMA CycleEnds ==
  ASSUME RobinType, Cycle, full, Sum(picks, Indices) = Total
  PROVE  picks = weight /\ \A i \in Indices : current[i] = 0
<1>1. /\ weight \in [Indices -> Int] /\ picks \in [Indices -> Int] /\ Total \in Int /\ Total > 0
  BY Numbers
<1>2. ASSUME NEW i \in Indices PROVE picks[i] <= weight[i]
  <2> DEFINE w == weight[i]  p == picks[i]  T == Total
  <2>1. w \in Int /\ p \in Int /\ T \in Int /\ T > 0
    BY <1>1
  <2>2. T * w - T * p > -T
    <3>1. current[i] = T * w - T * p /\ current[i] > -T
      BY DEF Cycle
    <3> QED
      BY <3>1
  <2> HIDE DEF w, p, T
  <2>3. T * w - T * p = T * (w - p)
    BY <2>1
  <2>4. ASSUME w < p PROVE FALSE
    <3>1. w - p <= -1
      BY <2>1, <2>4
    <3>2. T * (w - p) <= T * (-1)
      BY <2>1, <3>1
    <3> QED
      BY <2>1, <2>2, <2>3, <3>2
  <2>5. p <= w
    BY <2>1, <2>4
  <2> QED
    BY <2>5 DEF p, w
<1>3. picks = weight
  BY <1>1, <1>2, SumEqual DEF Total
<1>4. ASSUME NEW i \in Indices PROVE current[i] = 0
  <2>1. current[i] = Total * weight[i] - Total * weight[i]
    BY <1>3 DEF Cycle
  <2>2. weight[i] \in Int
    BY <1>1
  <2> QED
    BY <1>1, <2>1, <2>2
<1> QED
  BY <1>3, <1>4

\* The counts of the cycle before a pick: a new one starts after a whole one.
Counts == IF Sum(picks, Indices) = Total THEN [i \in Indices |-> 0] ELSE picks

LEMMA CountsOf ==
  ASSUME RobinType, Cycle
  PROVE  /\ Counts \in [Indices -> Nat] /\ Counts \in [Indices -> Int]
         /\ full => /\ Sum(Counts, Indices) \in Int /\ Sum(Counts, Indices) < Total
                    /\ \A i \in Indices :
                         current[i] = Sum(Counts, Indices) * weight[i] - Total * Counts[i]
<1>1. Total \in Int /\ Total > 0 /\ weight \in [Indices -> Int] /\ Sum(picks, Indices) \in Int
      /\ picks \in [Indices -> Nat]
  BY Numbers DEF RobinType
<1>2. CASE Sum(picks, Indices) = Total
  <2> DEFINE z == [i \in Indices |-> 0]
  <2>1. Counts = z /\ z \in [Indices -> Nat] /\ z \in [Indices -> Int]
    BY <1>2 DEF Counts
  <2>2. (\A i \in Indices : z[i] = 0) /\ 0 \in Int
    OBVIOUS
  <2> HIDE DEF z
  <2>5. Sum(z, Indices) = 0
    BY <2>1, <2>2, SumZero
  <2>6. ASSUME full, NEW i \in Indices PROVE current[i] = 0 * weight[i] - Total * 0
    <3>1. current[i] = 0 /\ weight[i] \in Int
      BY <1>1, <1>2, <2>6, CycleEnds
    <3> QED
      BY <1>1, <3>1
  <2> QED
    BY <1>1, <2>1, <2>2, <2>5, <2>6
<1>3. CASE Sum(picks, Indices) # Total
  <2>1. Counts = picks
    BY <1>3 DEF Counts
  <2>2. picks \in [Indices -> Int]
    BY <1>1
  <2>3. full => Sum(picks, Indices) < Total
    BY <1>1, <1>3 DEF Cycle
  <2>4. full => \A i \in Indices : current[i] = Sum(picks, Indices) * weight[i] - Total * picks[i]
    BY DEF Cycle
  <2> QED
    BY <1>1, <2>1, <2>2, <2>3, <2>4
<1> QED
  BY <1>2, <1>3

\* What a pick does to each server.
LEMMA PayOf ==
  ASSUME RobinType, NEW S \in SUBSET Indices, S # {}
  PROVE  LET b == Best(Gain(S), S) IN
         /\ b \in S /\ b \in Indices /\ Pay(S) \in [Indices -> Int]
         /\ \A i \in Indices : /\ i # b => Pay(S)[i] = current[i] + (IF i \in S THEN weight[i] ELSE 0)
                               /\ Gain(S)[i] = current[i] + (IF i \in S THEN weight[i] ELSE 0)
         /\ Pay(S)[b] = Gain(S)[b] - Sum(weight, S)
<1> DEFINE b == Best(Gain(S), S)
<1>1. Gain(S) \in [Indices -> Int] /\ weight \in [Indices -> Int]
  BY Numbers DEF RobinType, Gain
<1>2. b \in S /\ b \in Indices
  BY <1>1, BestOf
<1>3. Pay(S) \in [Indices -> Int]
  BY PaySum
<1>4. \A i \in Indices : Gain(S)[i] = current[i] + (IF i \in S THEN weight[i] ELSE 0)
  BY DEF Gain
<1>5. Pay(S) = [Gain(S) EXCEPT ![b] = Gain(S)[b] - Sum(weight, S)]
  BY DEF Pay
<1> HIDE DEF b
<1>6. /\ \A i \in Indices : i # b => Pay(S)[i] = Gain(S)[i]
      /\ Pay(S)[b] = Gain(S)[b] - Sum(weight, S)
  BY <1>1, <1>2, <1>5
<1>7. \A i \in Indices : i # b => Pay(S)[i] = current[i] + (IF i \in S THEN weight[i] ELSE 0)
  BY <1>4, <1>6
<1> QED
  BY <1>2, <1>3, <1>4, <1>6, <1>7 DEF b

\* order_round_robin is fair for any number of servers, any weights and any candidates:
\* the weights balance, whole cycles follow the weights, and nobody starves.
THEOREM RobinFair == RobinSpec => []FairPicks
<1>1. RobinInit => RobinInv
  <2> SUFFICES ASSUME RobinInit PROVE RobinInv
    OBVIOUS
  <2>1. RobinType
    BY DEF RobinInit, RobinType
  <2>2. current \in [Indices -> Int] /\ (\A i \in Indices : current[i] = 0) /\ picks = current
        /\ waits = current
    BY DEF RobinInit
  <2>3. ASSUME NEW A \in SUBSET Indices PROVE Sum(current, A) = 0
    BY <2>2, SumZero
  <2>4. Balanced
    BY <2>3 DEF Balanced
  <2>5. Cycle
    <3>1. Total \in Int /\ Total > 0 /\ Sum(picks, Indices) = 0
      BY <2>1, <2>2, <2>3, Numbers
    <3>2. ASSUME NEW i \in Indices
          PROVE  current[i] = 0 * weight[i] - Total * picks[i] /\ current[i] > -Total
      <4>1. weight[i] \in Int /\ picks[i] = 0 /\ current[i] = 0
        BY <2>1, <2>2, Numbers
      <4> QED
        BY <3>1, <4>1
    <3> QED
      BY <3>1, <3>2 DEF Cycle
  <2>6. Heaviest \in Nat /\ N - 1 \in Nat
    BY <2>1, HeaviestOf, Numbers DEF RobinType
  <2>7. Spread
    <3>1. ASSUME NEW A \in SUBSET Indices PROVE 0 <= Heaviest * (Size(A) * (N - Size(A)))
      <4>1. One \in [Indices -> Int] /\ N \in Nat
        BY <2>1, Numbers
      <4>2. AtMost(One, {}, One, A) /\ AtMost(One, A, One, Indices) /\ {} \in SUBSET Indices
        BY DEF AtMost, Term, One
      <4>3. /\ Sum(One, {}) <= Sum(One, A) /\ Sum(One, {}) = 0 /\ Sum(One, A) \in Int
            /\ Sum(One, A) <= Sum(One, Indices)
        BY <4>1, <4>2, SumMonotone, SumEmpty, SumInt
      <4>4. Size(A) \in Nat /\ N - Size(A) \in Nat
        BY <4>1, <4>3, SizeAll DEF Size
      <4>5. Size(A) * (N - Size(A)) \in Nat
        BY <4>4
      <4> QED
        BY <2>6, <4>5
    <3> QED
      BY <2>3, <3>1 DEF Spread
  <2>8. Waits
    <3>1. ASSUME NEW i \in Indices PROVE 0 * weight[i] <= 0 + (N - 1) * Heaviest
      <4>1. weight[i] \in Int /\ (N - 1) * Heaviest \in Nat
        BY <2>1, <2>6, Numbers
      <4> QED
        BY <4>1
    <3> QED
      BY <2>2, <3>1 DEF Waits
  <2> QED
    BY <2>1, <2>4, <2>5, <2>7, <2>8 DEF RobinInv
<1>2. RobinInv /\ [RobinNext]_robinVars => RobinInv'
  <2> SUFFICES ASSUME RobinInv, [RobinNext]_robinVars PROVE RobinInv'
    OBVIOUS
  <2>1. CASE UNCHANGED robinVars
    BY <2>1 DEF robinVars, RobinInv, RobinType, Balanced, Cycle, Spread, Waits, Total, Heaviest
  <2>2. ASSUME NEW S \in SUBSET Indices, S # {}, Pick(S) PROVE RobinInv'
    <3> DEFINE b == Best(Gain(S), S)
    <3>1. Total' = Total /\ Heaviest' = Heaviest /\ weight' = weight /\ current' = Pay(S)
          /\ full' = (full /\ S = Indices)
          /\ waits' = [i \in Indices |-> IF i = b THEN 0 ELSE waits[i] + (IF i \in S THEN 1 ELSE 0)]
      BY <2>2 DEF Pick, Total, Heaviest
    <3>2. picks' = [Counts EXCEPT ![b] = Counts[b] + 1]
      BY <2>2 DEF Pick, Counts
    <3>3. RobinType /\ Balanced /\ Cycle /\ Spread /\ Waits
      BY DEF RobinInv
    <3>4. /\ b \in S /\ b \in Indices /\ Pay(S) \in [Indices -> Int]
          /\ \A i \in Indices : /\ i # b => Pay(S)[i] = current[i] + (IF i \in S THEN weight[i] ELSE 0)
                                /\ Gain(S)[i] = current[i] + (IF i \in S THEN weight[i] ELSE 0)
          /\ Pay(S)[b] = Gain(S)[b] - Sum(weight, S)
      BY <2>2, <3>3, PayOf
    <3>5. Balanced'
      BY <2>2, <3>1, <3>3, PayBalanced DEF Balanced
    <3>6. Spread'
      BY <2>2, <3>1, <3>3, SpreadKept DEF Spread
    <3>7. Pay(S)[b] >= -((N - 1) * Heaviest)
      <4>1. Sum(Pay(S), Indices) = 0
        BY <2>2, <3>3, PayBalanced
      <4>2. \A A \in SUBSET Indices : Sum(Pay(S), A) <= Heaviest * (Size(A) * (N - Size(A)))
        BY <2>2, <3>3, SpreadKept
      <4> HIDE DEF b
      <4> QED
        BY <3>3, <3>4, <4>1, <4>2, WeightRange
    <3> HIDE DEF b
    <3>8. Counts \in [Indices -> Nat] /\ Counts \in [Indices -> Int]
      BY <3>3, CountsOf
    <3>9. RobinType'
      BY <3>1, <3>2, <3>3, <3>4, <3>8 DEF RobinType
    <3>10. Waits'
      <4> SUFFICES ASSUME NEW i \in Indices
                   PROVE  waits'[i] * weight[i] <= Pay(S)[i] + (N - 1) * Heaviest
        BY <3>1 DEF Waits
      <4>1. /\ weight[i] \in Int /\ waits[i] \in Int /\ current[i] \in Int /\ Pay(S)[i] \in Int
            /\ (N - 1) * Heaviest \in Int /\ weight[i] > 0
            /\ waits[i] * weight[i] <= current[i] + (N - 1) * Heaviest
        BY <3>3, <3>4, Numbers, HeaviestOf DEF RobinType, Waits
      <4>2. CASE i = b
        <5>1. waits'[i] = 0 /\ 0 * weight[i] = 0
          BY <3>1, <4>1, <4>2
        <5> QED
          BY <3>7, <4>1, <4>2, <5>1
      <4>3. CASE i # b /\ i \in S
        <5>1. waits'[i] = waits[i] + 1 /\ Pay(S)[i] = current[i] + weight[i]
          BY <3>1, <3>4, <4>3
        <5>2. (waits[i] + 1) * weight[i] = waits[i] * weight[i] + weight[i]
          BY <4>1
        <5> QED
          BY <4>1, <5>1, <5>2
      <4>4. CASE i # b /\ i \notin S
        <5>1. waits'[i] = waits[i] + 0 /\ Pay(S)[i] = current[i] + 0
          BY <3>1, <3>4, <4>4
        <5> QED
          BY <4>1, <5>1
      <4> QED
        BY <4>2, <4>3, <4>4
    <3>11. Cycle'
      <4> DEFINE k == Sum(Counts, Indices)
      <4> SUFFICES ASSUME full, S = Indices
                   PROVE  /\ Sum(picks', Indices) <= Total
                          /\ \A i \in Indices :
                               /\ Pay(S)[i] = Sum(picks', Indices) * weight[i] - Total * picks'[i]
                               /\ Pay(S)[i] > -Total
        BY <3>1 DEF Cycle
      <4>1. /\ k \in Int /\ k < Total /\ Total \in Int /\ Total > 0
            /\ \A i \in Indices : current[i] = k * weight[i] - Total * Counts[i]
        BY <3>3, CountsOf, Numbers
      <4>2. Sum(picks', Indices) = k + 1
        <5>1. Changed(picks', Counts, b, Counts[b] + 1) /\ picks' \in [Indices -> Int]
              /\ Counts[b] \in Int
          BY <3>2, <3>4, <3>8 DEF Changed
        <5>2. Counts[b] + 1 \in Int /\ (Counts[b] + 1) - Counts[b] = 1 /\ Indices \in SUBSET Indices
          BY <5>1
        <5> HIDE DEF k
        <5>3. Sum(picks', Indices) = Sum(Counts, Indices) + ((Counts[b] + 1) - Counts[b])
          BY <3>4, <3>8, <5>1, <5>2, SumExcept
        <5> QED
          BY <5>2, <5>3 DEF k
      <4> HIDE DEF k
      <4>3. ASSUME NEW i \in Indices
            PROVE  /\ Pay(S)[i] = (k + 1) * weight[i] - Total * picks'[i]
                   /\ Pay(S)[i] > -Total
        <5>1. /\ weight[i] \in Int /\ weight[i] > 0 /\ current[i] \in Int /\ Counts[i] \in Int
              /\ current[i] = k * weight[i] - Total * Counts[i] /\ current[i] > -Total
          BY <3>3, <3>8, <4>1, Numbers DEF RobinType, Cycle
        <5>2. /\ (k + 1) * weight[i] = k * weight[i] + weight[i]
              /\ Total * (Counts[i] + 1) = Total * Counts[i] + Total
              /\ k * weight[i] \in Int /\ Total * Counts[i] \in Int
          BY <4>1, <5>1
        <5>3. CASE i # b
          <6>1. picks'[i] = Counts[i] /\ Pay(S)[i] = current[i] + weight[i]
            BY <3>2, <3>4, <3>8, <5>3
          <6> QED
            BY <4>1, <5>1, <5>2, <6>1
        <5>4. CASE i = b
          <6>1. picks'[i] = Counts[i] + 1
            BY <3>2, <3>4, <3>8, <5>4
          <6>2. Pay(S)[i] = Gain(S)[i] - Total /\ Gain(S)[i] = current[i] + weight[i]
            BY <3>4, <5>4 DEF Total
          <6>3. Gain(S)[i] > 0
            BY <3>3, <5>4, BestGains DEF b
          <6> QED
            BY <4>1, <5>1, <5>2, <6>1, <6>2, <6>3
        <5> QED
          BY <5>3, <5>4
      <4> QED
        BY <4>1, <4>2, <4>3
    <3> QED
      BY <3>5, <3>6, <3>9, <3>10, <3>11 DEF RobinInv
  <2> QED
    BY <2>1, <2>2 DEF RobinNext
<1>3. RobinInv => FairPicks
  <2> SUFFICES ASSUME RobinInv PROVE FairPicks
    OBVIOUS
  <2>1. RobinType /\ Balanced /\ Cycle /\ Spread /\ Waits
    BY DEF RobinInv
  <2>2. Proportional
    BY <2>1, CycleEnds DEF Proportional
  <2>3. NoStarvation
    <3> SUFFICES ASSUME NEW i \in Indices PROVE waits[i] * weight[i] <= 2 * (N - 1) * Heaviest
      BY DEF NoStarvation
    <3>1. waits[i] * weight[i] <= current[i] + (N - 1) * Heaviest
      BY <2>1 DEF Waits
    <3>2. current[i] <= (N - 1) * Heaviest
      <4>1. current \in [Indices -> Int] /\ Sum(current, Indices) = 0
        BY <2>1 DEF RobinType, Balanced
      <4> QED
        BY <2>1, <4>1, WeightRange DEF Spread
    <3>3. /\ current[i] \in Int /\ waits[i] \in Int /\ weight[i] \in Int /\ N \in Int /\ Heaviest \in Int
      BY <2>1, Numbers, HeaviestOf DEF RobinType
    <3>4. waits[i] * weight[i] \in Int /\ (N - 1) * Heaviest \in Int
      BY <3>3
    <3>5. 2 * (N - 1) * Heaviest = (N - 1) * Heaviest + (N - 1) * Heaviest
      BY <3>3
    <3> QED
      BY <3>1, <3>2, <3>3, <3>4, <3>5
  <2> QED
    BY <2>1, <2>2, <2>3 DEF FairPicks
<1> QED
  BY <1>1, <1>2, <1>3, PTL DEF RobinSpec
=============================================================================
