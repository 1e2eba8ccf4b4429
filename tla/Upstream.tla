------------------------------ MODULE Upstream ------------------------------
(***************************************************************************)
(* The upstream group of one proxy or HTTP route: the circuit breaker and  *)
(* the passive and active health of each server, the permits of the        *)
(* requests, the retries, and the group that a configuration reload puts   *)
(* in its place.  Source: r3v3rs3/src/proxy/health.rs, with its callers in *)
(* proxy/http/pool.rs and proxy/tcp.rs.                                    *)
(*                                                                         *)
(* Instants are kept as the time that is left until them, and Tick lets    *)
(* one unit pass.  A request may lose the race at each of its steps: the   *)
(* choice of the candidates, the permit, the result, the end of the answer.*)
(* A result is stored under the lock of the health and then of the circuit,*)
(* which depend on each other nowhere, so it is one step.                  *)
(***************************************************************************)
EXTENDS Naturals, FiniteSets

CONSTANTS
  Servers,       \* the upstream servers, by address
  Requests,      \* the requests or connections that run at the same time
  Limited,       \* those of a route with a request timeout, which 0 disables
  MaxReloads,    \* bound on the reloads that change the group
  Weight,        \* [Gens -> [Servers -> Nat]], GroupServer::weight
  Enabled,       \* [Gens -> BOOLEAN], CircuitBreaker::enabled
  Ratio,         \* CircuitBreaker::failure_ratio, in percent
  MinRequests,   \* CircuitBreaker::min_requests
  Window,        \* CircuitBreaker::window
  OpenDuration,  \* CircuitBreaker::open_duration
  MaxFails,      \* HealthCheck::max_fails
  FailTimeout,   \* HealthCheck::fail_timeout
  ActiveCheck,   \* HealthCheck::is_active
  Attempts,      \* tries of a request: retry.attempts of HTTP, 2 of TCP
  CounterMax     \* u32::MAX, where the counters saturate

\* The groups that the registry creates for the key, in this order.
Gens == 0..MaxReloads

ASSUME UpstreamAssumption ==
  /\ Servers # {} /\ IsFiniteSet(Requests) /\ Limited \subseteq Requests
  /\ MaxReloads \in Nat
  /\ Weight \in [Gens -> [Servers -> Nat]]
  /\ Enabled \in [Gens -> BOOLEAN]
  /\ Ratio \in 1..100 /\ MinRequests \in Nat \ {0}
  /\ Window \in Nat /\ OpenDuration \in Nat
  /\ MaxFails \in Nat /\ FailTimeout \in Nat
  /\ ActiveCheck \in BOOLEAN
  /\ Attempts \in Nat \ {0}
  /\ CounterMax \in Nat

VARIABLES
  breaker,  \* [Gens -> [Servers -> Breakers]], UpstreamGroup::breakers
  health,   \* [Gens -> [Servers -> Healths]], UpstreamGroup::servers
  active,   \* [Servers -> Nat], the counters of active_conns, shared by the groups
  req,      \* [Requests -> ReqStates]
  cur,      \* the newest group of the registry
  clear     \* history: [Requests -> SUBSET Servers], not blocked since the selection

vars == <<breaker, health, active, req, cur, clear>>

Circuits == {"closed", "open", "half"}
Breakers == [circuit : Circuits, trial : BOOLEAN, left : 0..OpenDuration,
             window : 0..Window, requests : 0..CounterMax, failures : 0..CounterMax]
Healths  == [failures : 0..CounterMax, left : 0..FailTimeout, checkFailed : BOOLEAN]

\* idle: no request; ready: the candidates are known; sent: a Permit is alive;
\* guard: a ConnGuard is alive; refused: no candidate let the request through.
Steps     == {"idle", "ready", "sent", "guard", "refused"}
\* The candidates that are left: the pinned server, the healthy ones, the others.
Tiers     == [1..3 -> SUBSET Servers]
ReqStates == [step : Steps, group : Gens, tiers : Tiers, server : Servers,
              trial : BOOLEAN, tries : 0..Attempts]

\* Breaker::default and ServerHealth::default.
ClosedBreaker == [circuit |-> "closed", trial |-> FALSE, left |-> 0,
                  window |-> 0, requests |-> 0, failures |-> 0]
GoodHealth    == [failures |-> 0, left |-> 0, checkFailed |-> FALSE]

NoTiers       == [i \in 1..3 |-> {}]
Req(step, g, tiers, s, trial, tries) ==
  [step |-> step, group |-> g, tiers |-> tiers, server |-> s, trial |-> trial,
   tries |-> tries]
NoRequest     == Req("idle", 0, NoTiers, CHOOSE s \in Servers : TRUE, FALSE, 0)

-----------------------------------------------------------------------------
(* The circuit breaker of one server.                                       *)

Blocks(b) == \/ b.circuit = "open" /\ b.left > 0
             \/ b.circuit = "half" /\ b.trial

AdmitKeeps(b) ==
  IF b.circuit = "closed" THEN b ELSE [b EXCEPT !.circuit = "half"]

\* admit, of a breaker that does not block: the request is the trial of a
\* circuit that is not closed.
Admit(b) ==
  IF b.circuit = "closed" THEN b ELSE [b EXCEPT !.circuit = "half", !.trial = TRUE]

OpenBreaker == [circuit |-> "open", trial |-> FALSE, left |-> OpenDuration,
                window |-> 0, requests |-> 0, failures |-> 0]

SaturatingNever(n) == n + 1

Saturating(n) == IF n < CounterMax THEN n + 1 ELSE n

\* count: a window that is over, or that was never started, starts anew.
Count(b, failed) ==
  LET old(n) == IF b.window > 0 THEN n ELSE 0 IN
  [circuit |-> b.circuit, trial |-> b.trial, left |-> b.left,
   window |-> IF b.window > 0 THEN b.window ELSE Window,
   requests |-> Saturating(old(b.requests)),
   failures |-> IF failed THEN Saturating(old(b.failures)) ELSE old(b.failures)]

RecordLate(b, trial, failed) ==
  IF failed THEN OpenBreaker ELSE IF b.circuit = "closed" THEN b ELSE ClosedBreaker

\* record and finish_trial.
Record(b, trial, failed) ==
  LET c == Count(b, failed) IN
  CASE trial /\ b.circuit = "half"     -> IF failed THEN OpenBreaker ELSE ClosedBreaker
    [] ~trial /\ b.circuit = "closed"  ->
         IF c.requests < MinRequests \/ c.failures * 100 < Ratio * c.requests
           THEN c ELSE OpenBreaker
    [] OTHER -> b

ReleaseTrial(b) ==
  IF b.circuit = "half" THEN [b EXCEPT !.trial = FALSE] ELSE b

\* The servers whose circuit lets traffic through, for the breakers b of a group.
Unblocked(b, g) == {s \in Servers : Enabled[g] => ~Blocks(b[s])}

Blocked(g, s) == s \notin Unblocked(breaker[g], g)

-----------------------------------------------------------------------------
(* The health of one server.                                                *)

IsHealthy(h) == ~h.checkFailed /\ h.left = 0

ReportSuccess(h) == [failures |-> 0, left |-> 0, checkFailed |-> h.checkFailed]

ReportFailure(h) ==
  LET f == Saturating(h.failures) IN
  IF MaxFails = 0 THEN h
  ELSE [failures |-> f, left |-> IF f < MaxFails THEN h.left ELSE FailTimeout,
        checkFailed |-> h.checkFailed]

RecordCheck(h, passed) ==
  IF passed THEN GoodHealth ELSE [h EXCEPT !.checkFailed = TRUE]

CandidatesHealthy(g, pinned) ==
  LET open == {s \in Servers : Weight[g][s] > 0 /\ ~Blocked(g, s)}
      good == {s \in open : IsHealthy(health[g][s])}
  IN [i \in 1..3 |-> IF i = 1 THEN pinned ELSE IF i = 2 THEN good \ pinned ELSE {}]

\* candidates and pin: the server of a sticky cookie, the healthy servers in the
\* order of the policy, then the others.  The order inside a tier is any order.
Candidates(g, pinned) ==
  LET open == {s \in Servers : Weight[g][s] > 0 /\ ~Blocked(g, s)}
      good == {s \in open : IsHealthy(health[g][s])}
  IN [i \in 1..3 |-> IF i = 1 THEN pinned
                     ELSE (IF i = 2 THEN good ELSE open \ good) \ pinned]

\* is_pinnable: a server of weight 0 keeps its sticky sessions.
IsPinnable(g, s) == ~Blocked(g, s) /\ IsHealthy(health[g][s])

-----------------------------------------------------------------------------
(* The requests.                                                            *)

\* The history: which servers were never blocked since the request chose.
Observe ==
  clear' = [r \in Requests |->
    CASE req'[r].step = "ready" /\ req[r].step = "idle" ->
           Unblocked(breaker'[req'[r].group], req'[r].group)
      [] req'[r].step \in {"ready", "refused"} /\ req[r].step # "idle" ->
           clear[r] \cap Unblocked(breaker'[req[r].group], req[r].group)
      [] OTHER -> {}]

At(f, g, s, value) == [f EXCEPT ![g][s] = value]

\* select: the candidates, with the server of a sticky cookie in front.
Select(r) ==
  /\ req[r].step = "idle"
  /\ \E pinned \in SUBSET Servers :
       /\ \A s, t \in pinned : s = t /\ IsPinnable(cur, s)
       /\ req' = [req EXCEPT ![r] =
                   Req("ready", cur, Candidates(cur, pinned), @.server, FALSE, 0)]
  /\ UNCHANGED <<breaker, health, active, cur>>
  /\ Observe

\* claim: acquire on the next candidate, which may be blocked by now.
Acquire(r) ==
  LET q == req[r]  g == q.group IN
  /\ q.step = "ready"
  /\ \E i \in 1..3 : \E s \in q.tiers[i] :
       LET rest == [q.tiers EXCEPT ![i] = @ \ {s}] IN
       /\ \A j \in 1..(i - 1) : q.tiers[j] = {}
       /\ \/ /\ Blocked(g, s)
             /\ req' = [req EXCEPT ![r] = Req("ready", g, rest, q.server, FALSE, q.tries)]
             /\ UNCHANGED <<breaker, active>>
          \/ /\ ~Blocked(g, s)
             /\ breaker' = IF Enabled[g] THEN At(breaker, g, s, Admit(breaker[g][s]))
                           ELSE breaker
             /\ active' = [active EXCEPT ![s] = @ + 1]
             /\ req' = [req EXCEPT ![r] = Req("sent", g, rest, s,
                          Enabled[g] /\ breaker[g][s].circuit # "closed", q.tries + 1)]
  /\ UNCHANGED <<health, cur>>
  /\ Observe

\* No candidate is left: the first try answers 503, a retry keeps its result.
Exhausted(r) ==
  /\ req[r].step = "ready"
  /\ \A i \in 1..3 : req[r].tiers[i] = {}
  /\ req' = [req EXCEPT ![r] =
       IF @.tries = 0 THEN Req("refused", @.group, NoTiers, @.server, FALSE, 0)
       ELSE NoRequest]
  /\ UNCHANGED <<breaker, health, active, cur>>
  /\ Observe

\* record_circuit.
RecordCircuit(r, failed) ==
  LET q == req[r] IN
  breaker' = IF Enabled[q.group]
               THEN At(breaker, q.group, q.server,
                       Record(breaker[q.group][q.server], q.trial, failed))
               ELSE breaker

SucceedDrops(r) ==
  LET q == req[r] IN
  /\ q.step = "sent"
  /\ health' = At(health, q.group, q.server, ReportSuccess(health[q.group][q.server]))
  /\ RecordCircuit(r, FALSE)
  /\ req' = [req EXCEPT ![r] = Req("guard", q.group, NoTiers, q.server, FALSE, 0)]
  /\ active' = [active EXCEPT ![q.server] = @ - 1]
  /\ UNCHANGED cur
  /\ Observe

\* success_keep: the permit becomes a guard that keeps the connection counted.
Succeed(r) ==
  LET q == req[r] IN
  /\ q.step = "sent"
  /\ health' = At(health, q.group, q.server, ReportSuccess(health[q.group][q.server]))
  /\ RecordCircuit(r, FALSE)
  /\ req' = [req EXCEPT ![r] = Req("guard", q.group, NoTiers, q.server, FALSE, 0)]
  /\ UNCHANGED <<active, cur>>
  /\ Observe

\* failure and error_response.  The retry policy, the method and the body decide
\* whether the request tries the next candidate.
FailTry(r) ==
  LET q == req[r]  g == q.group  s == q.server IN
  /\ q.step = "sent"
  /\ health' \in {At(health, g, s, ReportFailure(health[g][s])),
                  At(health, g, s, ReportSuccess(health[g][s]))}
  /\ RecordCircuit(r, TRUE)
  /\ active' = [active EXCEPT ![s] = @ - 1]
  /\ \/ req' = [req EXCEPT ![r] = NoRequest]
     \/ /\ q.tries < Attempts
        /\ req' = [req EXCEPT ![r] = Req("ready", g, q.tiers, s, FALSE, q.tries)]
  /\ UNCHANGED cur
  /\ Observe

AbandonLeak(r) ==
  /\ req[r].step = "sent"
  /\ active' = [active EXCEPT ![req[r].server] = @ - 1]
  /\ req' = [req EXCEPT ![r] = NoRequest]
  /\ UNCHANGED <<breaker, health, cur>>
  /\ Observe

\* A permit is dropped without a result: the client went away.
Abandon(r) ==
  LET q == req[r] IN
  /\ q.step = "sent"
  /\ active' = [active EXCEPT ![q.server] = @ - 1]
  /\ breaker' = IF q.trial THEN At(breaker, q.group, q.server,
                                   ReleaseTrial(breaker[q.group][q.server]))
                ELSE breaker
  /\ req' = [req EXCEPT ![r] = NoRequest]
  /\ UNCHANGED <<health, cur>>
  /\ Observe

\* The request ends before it has a permit, or after its answer: ConnGuard::drop.
Close(r) ==
  /\ req[r].step \in {"ready", "refused", "guard"}
  /\ active' = IF req[r].step = "guard"
                 THEN [active EXCEPT ![req[r].server] = @ - 1] ELSE active
  /\ req' = [req EXCEPT ![r] = NoRequest]
  /\ UNCHANGED <<breaker, health, cur>>
  /\ Observe

-----------------------------------------------------------------------------
(* The check task, the clock and the reload.                                *)

\* check: the result of the probe of one server.
Check(g, s) ==
  /\ ActiveCheck /\ g <= cur
  /\ \E passed \in BOOLEAN :
       health' = At(health, g, s, RecordCheck(health[g][s], passed))
  /\ UNCHANGED <<breaker, active, req, cur>>
  /\ Observe

Less(n) == IF n > 0 THEN n - 1 ELSE 0

Tick ==
  /\ breaker' = [g \in Gens |-> [s \in Servers |->
       [breaker[g][s] EXCEPT !.left = Less(@), !.window = Less(@)]]]
  /\ health' = [g \in Gens |-> [s \in Servers |->
       [health[g][s] EXCEPT !.left = Less(@)]]]
  /\ UNCHANGED <<active, req, cur>>
  /\ Observe

\* GroupRegistry::group with other settings: the new group copies the health and
\* the circuit of each server and shares its counter.  The requests that run
\* keep the old group.
Reload ==
  /\ cur < MaxReloads
  /\ cur' = cur + 1
  /\ breaker' = [breaker EXCEPT ![cur + 1] = breaker[cur]]
  /\ health' = [health EXCEPT ![cur + 1] = health[cur]]
  /\ UNCHANGED <<active, req>>
  /\ Observe

-----------------------------------------------------------------------------
Init ==
  /\ breaker = [g \in Gens |-> [s \in Servers |-> ClosedBreaker]]
  /\ health = [g \in Gens |-> [s \in Servers |-> GoodHealth]]
  /\ active = [s \in Servers |-> 0]
  /\ req = [r \in Requests |-> NoRequest]
  /\ cur = 0
  /\ clear = [r \in Requests |-> {}]

Request(r) ==
  \/ Select(r) \/ Acquire(r) \/ Exhausted(r)
  \/ Succeed(r) \/ FailTry(r) \/ Abandon(r) \/ Close(r)

Next ==
  \/ \E r \in Requests : Request(r)
  \/ \E g \in Gens, s \in Servers : Check(g, s)
  \/ Tick

ReloadNext == Next \/ Reload

Spec       == Init /\ [][Next]_vars
ReloadSpec == Init /\ [][ReloadNext]_vars

\* Time passes, and the permit of a request that has a time limit gets a result.
\* A request_timeout of 0 disables the limit: such a request may hang for ever,
\* and so may the client that waits for it.  No request has to come.
Fairness ==
  /\ WF_vars(Tick)
  /\ \A r \in Limited : WF_vars(Succeed(r) \/ FailTry(r) \/ Abandon(r))

FairSpec       == Spec /\ Fairness
FairReloadSpec == ReloadSpec /\ Fairness

-----------------------------------------------------------------------------
(* Properties.                                                              *)

TypeOK ==
  /\ breaker \in [Gens -> [Servers -> Breakers]]
  /\ health \in [Gens -> [Servers -> Healths]]
  /\ active \in [Servers -> Nat]
  /\ req \in [Requests -> ReqStates]
  /\ cur \in Gens
  /\ clear \in [Requests -> SUBSET Servers]

\* The requests that hold the trial slot of the server s in the group g.
Trials(g, s) ==
  {r \in Requests : req[r].step = "sent" /\ req[r].trial
                    /\ req[r].group = g /\ req[r].server = s}

\* The trial slot of a half-open circuit is taken exactly while one trial
\* request runs, so no late result, retry or abandoned request can lose it.
TrialOwned ==
  \A g \in Gens, s \in Servers :
    /\ breaker[g][s].circuit = "half" /\ breaker[g][s].trial <=> Trials(g, s) # {}
    /\ \A q, r \in Trials(g, s) : q = r

\* One trial at a time goes to a server of a group, whatever is reloaded.
OneTrial ==
  \A g \in Gens, s \in Servers : \A q, r \in Trials(g, s) : q = r

\* Only the success of the trial closes a circuit: the results of the requests
\* that were sent before it opened come late and do not count.
TrialDecides ==
  [][\A g \in 0..cur, s \in Servers :
       breaker[g][s].circuit # "closed" /\ breaker'[g][s].circuit = "closed"
       => \E r \in Trials(g, s) : req'[r].step = "guard"]_vars

\* The counter of least_conn is the number of permits and guards of the server,
\* whichever group gave them out.
ActiveCounts ==
  \A s \in Servers :
    active[s] = Cardinality({r \in Requests :
                  req[r].step \in {"sent", "guard"} /\ req[r].server = s})

\* A request gets 503 only when each server that has a weight was blocked by its
\* circuit at some time since the request chose: bad health refuses nobody.
RefusedOnlyBlocked ==
  \A r \in Requests : req[r].step = "refused" =>
    \A s \in clear[r] : Weight[req[r].group][s] = 0

\* What the request code keeps: it never outruns its tries or the registry, and
\* only a permit of a group with a breaker is a trial.
ReqInv ==
  \A r \in Requests :
    /\ req[r].group <= cur
    /\ req[r].step = "ready" => req[r].tries < Attempts
    /\ req[r].step = "sent" => req[r].tries > 0
    /\ req[r].trial => req[r].step = "sent" /\ Enabled[req[r].group]

\* OneTrial is kept because a running trial blocks its circuit.
TrialHeld ==
  /\ \A g \in Gens, s \in Servers : Trials(g, s) # {} =>
       breaker[g][s].circuit = "half" /\ breaker[g][s].trial
  /\ OneTrial

\* RefusedOnlyBlocked is kept because the candidates that are left contain every
\* server with a weight that was never blocked.
LeftInv ==
  /\ \A r \in Requests : req[r].step = "ready" /\ req[r].tries = 0 =>
       \A s \in clear[r] : Weight[req[r].group][s] > 0 =>
         \E i \in 1..3 : s \in req[r].tiers[i]
  /\ RefusedOnlyBlocked

\* A blocked server of the current group gets traffic again some time, unless its
\* trial request has no time limit and is still waiting for the server.  Nothing
\* else holds a circuit: not a lost trial slot, not a trial that has a limit.
Unblocks ==
  \A s \in Servers :
    Blocked(cur, s) ~> ~Blocked(cur, s) \/ Trials(cur, s) \ Limited # {}
=============================================================================
