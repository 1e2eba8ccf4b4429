----------------------------- MODULE AcmeOrders -----------------------------
(***************************************************************************)
(* The ACME orders of the master: the schedule that decides which targets  *)
(* are ordered, the tasks that talk to the certificate authority, and the  *)
(* challenges that the server answers for them.  Source: r3v3rs3/src/      *)
(* server/acme_schedule.rs, the ACME parts of server/state.rs and          *)
(* AcmeOrder of certs/acme.rs.                                             *)
(*                                                                         *)
(* A batch is one call of spawn_acme_orders: a task requests its orders    *)
(* one by one, hands them to the server loop in one command, and a second  *)
(* task completes them one by one.  The tasks reach the loop through one   *)
(* command channel, and the loop handles one command at a time.  Which     *)
(* target of a batch comes first does not matter here, so any may.         *)
(***************************************************************************)
EXTENDS Naturals, Sequences, FiniteSets

CONSTANTS
  AcmeTargets,  \* what certificates are ordered for
  AcmeEntries,  \* the ACME entries of the settings
  EntryOf,      \* [AcmeTargets -> AcmeEntries], the entry that orders a target
  OwnTargets,   \* the targets of the entries themselves; the others are discovered
  Leader,       \* ServerState::leader
  MaxBatches    \* bound on the batches

Batches == 1..MaxBatches

ASSUME AcmeAssumption ==
  /\ EntryOf \in [AcmeTargets -> AcmeEntries] /\ OwnTargets \subseteq AcmeTargets
  /\ Leader \in BOOLEAN /\ MaxBatches \in Nat \ {0}

VARIABLES
  renewals,    \* the targets of acme_renewals
  expired,     \* the targets without a certificate or whose renewal time has come
  inProgress,  \* AcmeSchedule::in_progress
  retryAfter,  \* the targets whose retry_after is still to come
  batches,     \* how many batches were started
  order,       \* [Batches -> [AcmeTargets -> OrderStates]]
  served,      \* the orders <<batch, target>> whose challenges are answered
  commands,    \* the command channel of the server loop
  again        \* history: the targets that were requested while an order ran

acmeVars == <<renewals, expired, inProgress, retryAfter, batches, order, served,
              commands, again>>

\* "reported": AcmeOrderFinished is in the channel.
OrderStates == {"none", "asked", "ready", "sent", "challenge", "issued", "reported"}

\* The commands.  A command about one order also names its batch: the code only
\* has the target, and no handler reads the batch of these two.
AddAcmeOrders(b)            == [cmd |-> "orders", batch |-> b, targets |-> {}, ok |-> TRUE]
AddCert(b, t)               == [cmd |-> "cert", batch |-> b, targets |-> {t}, ok |-> TRUE]
AcmeOrderFinished(b, t, ok) == [cmd |-> "finished", batch |-> b, targets |-> {t}, ok |-> ok]
Commands == [cmd : {"orders", "cert", "finished"}, batch : Batches,
             targets : SUBSET AcmeTargets, ok : BOOLEAN]

Running(t)   == {b \in Batches : order[b][t] # "none"}
OrdersIn(b, states) == {t \in AcmeTargets : order[b][t] \in states}

-----------------------------------------------------------------------------
(* The schedule.                                                            *)

IsDueUnstarted(t) == t \notin retryAfter /\ t \in expired

IsDue(t) == t \notin inProgress /\ t \notin retryAfter /\ t \in expired

\* spawn_acme_orders: the task of a new batch.
SpawnAcmeOrders(S) ==
  /\ batches < MaxBatches
  /\ batches' = batches + 1
  /\ order' = [order EXCEPT ![batches + 1] =
                 [t \in AcmeTargets |-> IF t \in S THEN "asked" ELSE "none"]]

\* start_http_challenges, with every timer of the leader and every change of the
\* entries and of the discovered hosts.
StartHttpChallenges ==
  LET due == {t \in renewals : IsDue(t)} IN
  /\ Leader
  /\ due # {}
  /\ inProgress' = inProgress \union due
  /\ SpawnAcmeOrders(due)
  /\ UNCHANGED <<renewals, expired, retryAfter, served, commands, again>>

\* request_acme_now: the own target of an entry and its targets in acme_renewals,
\* whatever the schedule says of them.
RequestAcmeNow(e) ==
  LET wanted == {t \in OwnTargets \union renewals : EntryOf[t] = e} IN
  /\ retryAfter' = retryAfter \ wanted
  /\ inProgress' = inProgress \union wanted
  /\ SpawnAcmeOrders(wanted)
  /\ again' = again \union {t \in wanted : Running(t) # {}}
  /\ UNCHANGED <<renewals, expired, served, commands>>

-----------------------------------------------------------------------------
(* The tasks of a batch.                                                    *)

SetOrder(b, t, state) == order' = [order EXCEPT ![b][t] = state]

\* The order is accepted by the certificate authority, with its challenges.
OrderAccepted(b, t) ==
  /\ order[b][t] = "asked"
  /\ SetOrder(b, t, "ready")
  /\ UNCHANGED <<renewals, expired, inProgress, retryAfter, batches, served,
                 commands, again>>


\* The credential of the DNS provider cannot be resolved, or the order is refused.
OrderRefused(b, t) ==
  /\ order[b][t] = "asked"
  /\ SetOrder(b, t, "reported")
  /\ commands' = Append(commands, AcmeOrderFinished(b, t, FALSE))
  /\ UNCHANGED <<renewals, expired, inProgress, retryAfter, batches, served, again>>

\* The end of the task: the accepted orders go to the loop in one command.
SendOrders(b) ==
  /\ OrdersIn(b, {"asked"}) = {} /\ OrdersIn(b, {"ready"}) # {}
  /\ order' = [order EXCEPT ![b] = [t \in AcmeTargets |->
                 IF order[b][t] = "ready" THEN "sent" ELSE order[b][t]]]
  /\ commands' = Append(commands, AddAcmeOrders(b))
  /\ UNCHANGED <<renewals, expired, inProgress, retryAfter, batches, served, again>>

\* start_challenge succeeds: the authority has seen the challenge.
ChallengePassed(b, t) ==
  /\ order[b][t] = "challenge" /\ <<b, t>> \in served
  /\ SetOrder(b, t, "issued")
  /\ commands' = Append(commands, AddCert(b, t))
  /\ UNCHANGED <<renewals, expired, inProgress, retryAfter, batches, served, again>>

\* start_challenge fails, at the latest when its deadlines have passed.
ChallengeFailed(b, t) ==
  /\ order[b][t] = "challenge"
  /\ SetOrder(b, t, "reported")
  /\ commands' = Append(commands, AcmeOrderFinished(b, t, FALSE))
  /\ UNCHANGED <<renewals, expired, inProgress, retryAfter, batches, served, again>>

\* The second command of an order that succeeded.
ReportIssued(b, t) ==
  /\ order[b][t] = "issued"
  /\ SetOrder(b, t, "reported")
  /\ commands' = Append(commands, AcmeOrderFinished(b, t, TRUE))
  /\ UNCHANGED <<renewals, expired, inProgress, retryAfter, batches, served, again>>

-----------------------------------------------------------------------------
(* The commands, in the order of the channel.                               *)

ServeOnlyNew(b) == {<<b, t>> : t \in OrdersIn(b, {"sent"})}

\* serve_challenges: the challenges of the earlier batches stay.
ServeChallenges(b) == served \union {<<b, t>> : t \in OrdersIn(b, {"sent"})}

\* continue_http_challenges.
ContinueHttpChallenges ==
  /\ commands # <<>> /\ Head(commands).cmd = "orders"
  /\ LET b == Head(commands).batch IN
     /\ served' = ServeChallenges(b)
     /\ order' = [order EXCEPT ![b] = [t \in AcmeTargets |->
                    IF order[b][t] = "sent" THEN "challenge" ELSE order[b][t]]]
  /\ commands' = Tail(commands)
  /\ UNCHANGED <<renewals, expired, inProgress, retryAfter, batches, again>>

\* add_issued_cert: the new certificate moves the renewal of its target.
AddIssuedCert ==
  /\ commands # <<>> /\ Head(commands).cmd = "cert"
  /\ expired' = expired \ Head(commands).targets
  /\ commands' = Tail(commands)
  /\ UNCHANGED <<renewals, inProgress, retryAfter, batches, order, served, again>>

FinishSucceeded ==
  /\ commands # <<>> /\ Head(commands).cmd = "finished"
  /\ LET c == Head(commands) IN
     /\ inProgress' = inProgress \ c.targets
     /\ retryAfter' = IF c.ok THEN retryAfter \ c.targets ELSE retryAfter \union c.targets
     /\ order' = [order EXCEPT ![c.batch] = [t \in AcmeTargets |->
                    IF t \in c.targets THEN "none" ELSE order[c.batch][t]]]
     /\ served' = IF c.ok /\ inProgress' = {} THEN {} ELSE served
     /\ again' = {t \in again : \E b \in Batches : order'[b][t] # "none"}
  /\ commands' = Tail(commands)
  /\ UNCHANGED <<renewals, expired, batches>>

FinishAsDone ==
  /\ commands # <<>> /\ Head(commands).cmd = "finished"
  /\ LET c == Head(commands) IN
     /\ inProgress' = inProgress \ c.targets
     /\ retryAfter' = IF c.ok THEN retryAfter \ c.targets ELSE retryAfter \union c.targets
     /\ order' = [order EXCEPT ![c.batch] = [t \in AcmeTargets |->
                    IF t \in c.targets THEN "done" ELSE order[c.batch][t]]]
     /\ served' = IF inProgress' = {} THEN {} ELSE served
     /\ again' = {t \in again : \E b \in Batches : order'[b][t] # "none"}
  /\ commands' = Tail(commands)
  /\ UNCHANGED <<renewals, expired, batches>>

\* finish_acme_order: the last order in progress takes every challenge with it.
FinishAcmeOrder ==
  /\ commands # <<>> /\ Head(commands).cmd = "finished"
  /\ LET c == Head(commands) IN
     /\ inProgress' = inProgress \ c.targets
     /\ retryAfter' = IF c.ok THEN retryAfter \ c.targets ELSE retryAfter \union c.targets
     /\ served' = IF inProgress' = {} THEN {} ELSE served
     /\ order' = [order EXCEPT ![c.batch] = [t \in AcmeTargets |->
                    IF t \in c.targets THEN "none" ELSE order[c.batch][t]]]
     /\ again' = {t \in again : \E b \in Batches : order'[b][t] # "none"}
  /\ commands' = Tail(commands)
  /\ UNCHANGED <<renewals, expired, batches>>

-----------------------------------------------------------------------------
(* The time and the settings, while a batch can still start.                *)

\* The renewal time of a target comes, or its certificate is removed.
RenewalComes(t) ==
  /\ t \notin expired /\ batches < MaxBatches
  /\ expired' = expired \union {t}
  /\ UNCHANGED <<renewals, inProgress, retryAfter, batches, order, served,
                 commands, again>>

\* RETRY_AFTER_FAILURE has passed.
RetryComes(t) ==
  /\ t \in retryAfter /\ batches < MaxBatches
  /\ retryAfter' = retryAfter \ {t}
  /\ UNCHANGED <<renewals, expired, inProgress, batches, order, served, commands,
                 again>>

\* The entry of a target is switched, or a discovered host comes or goes.
ChangeRenewals(t) ==
  /\ batches < MaxBatches
  /\ renewals' = (renewals \ {t}) \union ({t} \ renewals)
  /\ UNCHANGED <<expired, inProgress, retryAfter, batches, order, served, commands,
                 again>>

-----------------------------------------------------------------------------
AcmeInit ==
  /\ renewals = AcmeTargets /\ expired = AcmeTargets
  /\ inProgress = {} /\ retryAfter = {}
  /\ batches = 0 /\ order = [b \in Batches |-> [t \in AcmeTargets |-> "none"]]
  /\ served = {} /\ commands = <<>> /\ again = {}

\* What the task of a batch does next, and what the loop does next.
BatchStep(b) ==
  \/ SendOrders(b)
  \/ \E t \in AcmeTargets :
       \/ OrderAccepted(b, t) \/ OrderRefused(b, t)
       \/ ChallengePassed(b, t) \/ ChallengeFailed(b, t) \/ ReportIssued(b, t)
LoopStep == ContinueHttpChallenges \/ AddIssuedCert \/ FinishAcmeOrder

AcmeNext ==
  \/ StartHttpChallenges
  \/ \E e \in AcmeEntries : RequestAcmeNow(e)
  \/ \E b \in Batches : BatchStep(b)
  \/ LoopStep
  \/ \E t \in AcmeTargets : RenewalComes(t) \/ RetryComes(t) \/ ChangeRenewals(t)

\* Every task goes on: a request to the authority and a poll have a deadline.
AcmeFairness == WF_acmeVars(LoopStep) /\ \A b \in Batches : WF_acmeVars(BatchStep(b))

AcmeSpec == AcmeInit /\ [][AcmeNext]_acmeVars /\ AcmeFairness

-----------------------------------------------------------------------------
AcmeTypeOK ==
  /\ renewals \subseteq AcmeTargets /\ expired \subseteq AcmeTargets
  /\ inProgress \subseteq AcmeTargets /\ retryAfter \subseteq AcmeTargets
  /\ batches \in 0..MaxBatches
  /\ order \in [Batches -> [AcmeTargets -> OrderStates]]
  /\ served \subseteq Batches \X AcmeTargets
  /\ commands \in Seq(Commands) /\ again \subseteq AcmeTargets

\* A target has one order at a time, and that order is the one in the schedule,
\* unless request_acme_now ordered the target while an order of it ran.
OneOrder ==
  \A t \in AcmeTargets \ again :
    /\ Cardinality(Running(t)) <= 1
    /\ t \in inProgress <=> Running(t) # {}

\* The challenges of an order are answered from the moment the authority may ask
\* for them until the order has ended, whatever other batches start and end,
\* unless request_acme_now ordered the target while the order ran.
ChallengesServed ==
  \A b \in Batches : \A t \in OrdersIn(b, {"challenge"}) \ again : <<b, t>> \in served

\* Once no order runs, the server answers no challenge and has no listener for one:
\* the last AcmeOrderFinished removes what every batch had added.
NoChallengeLeft == (\A t \in AcmeTargets : Running(t) = {}) => served = {}

\* The orders as a whole: one order of a target at a time, with its challenges answered
\* while it runs and removed after it.
OrdersApart == AcmeTypeOK /\ OneOrder /\ ChallengesServed /\ NoChallengeLeft

\* The comment of serve_challenges: the challenges of the orders that still run
\* stay served.
EarlierChallengesStay ==
  \A b \in Batches : \A t \in OrdersIn(b, {"challenge"}) : <<b, t>> \in served

=============================================================================
