------------------------------ MODULE Previews ------------------------------
(***************************************************************************)
(* The preview of one pull request: the webhook deliveries of its events,  *)
(* the app that they create, update, deploy and delete, and the pipelines  *)
(* of that app with their queue of one.  Source: hook, find_preview_app to *)
(* run_queued_hook of r3v3rs3/src/platform/hooks.rs, delete_app and        *)
(* check_and_record_delivery of platform/mod.rs.                           *)
(*                                                                         *)
(* The events of a pull request are numbered in the order in which they    *)
(* happen, and the number of a push stands for its commit.  Deliveries     *)
(* arrive in any order, more than once or never.  A deployment may wait for *)
(* an approval or for its window; a row is gone when its app is.  Two rows  *)
(* of a push that is delivered twice are one in the model.                  *)
(***************************************************************************)
EXTENDS Naturals, Sequences, FiniteSets

CONSTANTS
  MaxEvents,    \* bound on the events of the pull request
  MaxPreviews,  \* bound on the apps that are created for it
  MaxTroubles,  \* bound on the errors of the store, the restarts and the expiries
  Held          \* bound on the pushes whose deployments may need approval

ASSUME PreviewAssumption ==
  /\ MaxEvents \in Nat /\ MaxPreviews \in Nat /\ MaxTroubles \in Nat
  /\ Held \subseteq Nat

Events   == 1..MaxEvents
Previews == 1..MaxPreviews
NoCommit == 0

\* Who runs the code: the request of a delivery, or the pipeline of a commit, which runs
\* the queue at its end.
Actors == Events \X {"call", "job"}

VARIABLES
  events,     \* what happened to the pull request: a sequence of "push" and "close"
  kept,       \* webhook_deliveries: the deliveries that are refused as duplicates
  created,    \* how many preview apps were created
  previews,   \* the preview apps in the store
  withEnv,    \* those that have the plain variables of the parent
  busy,       \* those that somebody holds
  hooks,      \* queued_hooks: [Previews -> a commit or NoCommit]
  shows,      \* [Previews -> the running deployment: its commit, with variables or not]
  actor,      \* [Actors -> where its code is, with the app and the commit it works on; env:
              \* its deployment has the variables; fresh: it took the newest push]
  troubles,   \* how many troubles there were
  accepted,   \* history: the deliveries that came and were no duplicates
  forgotten,  \* history: the deliveries whose record has expired or was lost
  newest,     \* history: the newest commit that was started or queued
  answered,   \* history: the event of the last call that ended well, or 0
  undone,     \* history: the events whose work has failed or was cut off
  disordered, \* history: two calls overlapped, or came in the wrong order
  overtaken   \* history: a push was started or queued in front of an older one

previewState   == <<created, previews, withEnv, busy, hooks, shows>>
previewHistory == <<accepted, forgotten, newest, answered, undone, disordered, overtaken>>
previewVars    == <<events, kept, previewState, actor, troubles, previewHistory>>

\* Of a pipeline: its row is to be inserted (insert), waits for approval (pending), or is
\* in the hands of the one who decides about it (decide).
ActorPcs == {"rest", "find", "create", "env", "update", "read", "lock", "start", "run",
             "take", "delete", "remove", "insert", "pending", "decide"}
AtRest   == [pc |-> "rest", id |-> 0, ref |-> NoCommit, fresh |-> FALSE, env |-> FALSE]
NotShown == [commit |-> NoCommit, env |-> FALSE]
IsCall(a) == a[2] = "call"

\* a goes on at pc, and what it has is unchanged.
Goes(a, pc) == actor' = [actor EXCEPT ![a].pc = pc]

Undone(refs) == undone' = undone \union (refs \ {NoCommit})

\* The end of a: the answer of a call is good or an error, and an error of the queue that a
\* pipeline or a failed deletion runs is only logged.
Ends(a, good) ==
  /\ answered' = IF IsCall(a) /\ good /\ actor[a].ref = a[1] THEN a[1] ELSE answered
  /\ IF good THEN UNCHANGED undone ELSE Undone({a[1], actor[a].ref})

-----------------------------------------------------------------------------
(* The deliveries.                                                          *)

Happens(kind) ==
  /\ Len(events) < MaxEvents
  /\ kind = "close" => events # <<>> /\ events[Len(events)] = "push"
  /\ events' = Append(events, kind)
  /\ UNCHANGED <<kept, previewState, actor, troubles, previewHistory>>

CheckDeliveryNever(e) == TRUE

\* check_and_record_delivery: the same delivery is refused for an hour.
CheckDelivery(e) == e \notin kept

\* A delivery of e, the first one or another.  It is delivered again when what the last
\* one started is over.
Deliver(e) ==
  /\ e <= Len(events) /\ CheckDelivery(e)
  /\ actor[<<e, "call">>].pc = "rest" /\ actor[<<e, "job">>].pc = "rest"
  /\ kept' = kept \union {e}
  /\ actor' = [actor EXCEPT ![<<e, "call">>] =
                 [AtRest EXCEPT !.pc = "find", !.ref = e]]
  /\ accepted' = accepted \union {e}
  /\ disordered' =
       \/ disordered \/ e \in forgotten
       \/ e \notin accepted /\ \E f \in accepted : f > e
       \/ \E f \in Events : actor[<<f, "call">>].pc # "rest"
  /\ UNCHANGED <<events, previewState, troubles, forgotten, newest, answered, undone,
                 overtaken>>

\* Something goes wrong.
Trouble == troubles < MaxTroubles /\ troubles' = troubles + 1

\* An error that a reports, after which it has no more to do.
Errs(a) ==
  /\ actor' = [actor EXCEPT ![a] = AtRest] /\ Ends(a, FALSE)
  /\ UNCHANGED <<events, kept, accepted, forgotten, newest, disordered, overtaken>>

\* An hour passes for the record of e.
ForgetDelivery(e) ==
  /\ e \in kept /\ Trouble
  /\ kept' = kept \ {e} /\ forgotten' = forgotten \union {e}
  /\ UNCHANGED <<events, previewState, actor, accepted, newest, answered, undone, disordered,
                 overtaken>>

\* The rows that the store has as pending.
PendingRows == {a \in Actors : actor[a].pc \in {"pending", "decide"}}

\* The server stops and starts again: fail_unfinished takes care of the rows that were in
\* progress, and the pending ones stay.
RestartAll ==
  /\ Trouble
  /\ actor' = [a \in Actors |->
                 IF a \in PendingRows THEN [actor[a] EXCEPT !.pc = "pending"] ELSE AtRest]
  /\ Undone({actor[a].ref : a \in Actors \ PendingRows} \union {hooks[x] : x \in Previews})
  /\ kept' = {} /\ forgotten' = forgotten \union kept
  /\ busy' = {} /\ hooks' = [x \in Previews |-> NoCommit]
  /\ UNCHANGED <<events, created, previews, withEnv, shows, accepted, newest, answered,
                 disordered, overtaken>>

-----------------------------------------------------------------------------
(* deploy_preview.                                                          *)

\* find_preview_app, for a pull request that is open or closed.
FindPreview(e) ==
  LET me == <<e, "call">> IN
  /\ actor[me].pc = "find"
  /\ \/ /\ events[e] = "push" /\ previews = {}
        /\ Goes(me, "create") /\ UNCHANGED <<answered, undone>>
     \/ \E x \in previews :
          /\ actor' = [actor EXCEPT ![me].id = x,
                       ![me].pc = IF events[e] = "push" THEN "update" ELSE "delete"]
          /\ UNCHANGED <<answered, undone>>
     \/ /\ events[e] = "close" /\ previews = {}
        /\ actor' = [actor EXCEPT ![me] = AtRest] /\ Ends(me, TRUE)
  /\ UNCHANGED <<events, kept, previewState, troubles, accepted, forgotten, newest,
                 disordered, overtaken>>

NameNeverTaken == FALSE

\* The name of an app is UNIQUE, and the name of a preview is <app>-pr-<number>.
NameTaken == previews # {}

\* create_preview_app goes on with the variables.
Created(a) == actor' = [actor EXCEPT ![a].pc = "env", ![a].id = created + 1]

\* add_app.
CreatePreview(a) ==
  /\ actor[a].pc = "create"
  /\ \/ /\ ~NameTaken /\ created < MaxPreviews
        /\ created' = created + 1 /\ previews' = previews \union {created + 1}
        /\ Created(a)
        /\ UNCHANGED <<events, kept, withEnv, busy, hooks, shows, troubles, previewHistory>>
     \/ /\ NameTaken
        /\ Errs(a) /\ UNCHANGED <<previewState, troubles>>

CopyNothing(id) == UNCHANGED withEnv

\* copy_non_secret_app_env: the variables of the app itself that are not secret.
CopyEnv(id) == withEnv' = withEnv \union {id}

EnvStep(a) ==
  /\ actor[a].pc = "env"
  /\ \/ /\ actor[a].id \in previews
        /\ CopyEnv(actor[a].id) /\ Goes(a, "read")
        /\ UNCHANGED <<events, kept, created, previews, busy, hooks, shows, troubles,
                       previewHistory>>
     \/ /\ Trouble \/ (actor[a].id \notin previews /\ UNCHANGED troubles)
        /\ Errs(a) /\ UNCHANGED previewState

\* update_preview_app: the branch of a preview that is still there.
UpdatePreview(a) ==
  /\ actor[a].pc = "update"
  /\ \/ /\ actor[a].id \in previews
        /\ Goes(a, "read")
        /\ UNCHANGED <<events, kept, previewState, troubles, previewHistory>>
     \/ /\ Trouble \/ (actor[a].id \notin previews /\ UNCHANGED troubles)
        /\ Errs(a) /\ UNCHANGED previewState

-----------------------------------------------------------------------------
(* hook_deploy and the queue.                                               *)

\* The row of the app.
ReadPreview(a) ==
  /\ actor[a].pc = "read"
  /\ \/ /\ actor[a].id \in previews
        /\ Goes(a, "lock")
        /\ UNCHANGED <<events, kept, previewState, troubles, previewHistory>>
     \/ /\ actor[a].id \notin previews
        /\ Errs(a) /\ UNCHANGED <<previewState, troubles>>

QueueFirst(x, ref) ==
  hooks' = [hooks EXCEPT ![x] = IF @ = NoCommit THEN ref ELSE @]

\* The last push that waits replaces the one before it.
QueueHook(x, ref) == hooks' = [hooks EXCEPT ![x] = ref]

\* lock_or_queue_hook.
LockOrQueue(a) ==
  LET app == actor[a].id  ref == actor[a].ref IN
  /\ actor[a].pc = "lock"
  /\ newest' = IF ref > newest THEN ref ELSE newest
  /\ overtaken' = \/ overtaken \/ (actor[a].fresh /\ ref < newest)
                  \/ (app \notin busy /\ hooks[app] # NoCommit)
  /\ \/ /\ app \in busy
        /\ QueueHook(app, ref) /\ UNCHANGED busy
        /\ actor' = [actor EXCEPT ![a] = AtRest] /\ Ends(a, TRUE)
     \/ /\ app \notin busy
        /\ busy' = busy \union {app} /\ UNCHANGED hooks
        /\ Goes(a, "start") /\ UNCHANGED <<answered, undone>>
  /\ UNCHANGED <<events, kept, created, previews, withEnv, shows, troubles, accepted,
                 forgotten, disordered>>

\* deploy_app_locked and start_job, which refuses the row of an app that is gone.  With
\* needs_approval the app is given back, the queue is run, and the row is inserted, which
\* is refused as well when the app is gone.  An error gives the app back and leaves the
\* queue.
StartDeployment(a) ==
  LET app == actor[a].id  ref == actor[a].ref IN
  /\ actor[a].pc = "start"
  /\ \/ /\ app \in previews
        /\ actor' = [actor EXCEPT ![a] = AtRest,
                       ![<<ref, "job">>] = [AtRest EXCEPT !.pc = "run", !.id = app, !.ref = ref,
                                                          !.env = app \in withEnv]]
        /\ Ends(a, TRUE)
        /\ UNCHANGED <<events, kept, previewState, troubles, accepted, forgotten, newest,
                       disordered, overtaken>>
     \/ /\ app \in previews /\ ref \in Held
        /\ busy' = busy \ {app}
        /\ actor' = [actor EXCEPT ![a] = [AtRest EXCEPT !.pc = "take", !.id = app],
                       ![<<ref, "job">>] = [AtRest EXCEPT !.pc = "insert", !.id = app,
                                              !.ref = ref, !.env = app \in withEnv]]
        /\ Ends(a, TRUE)
        /\ UNCHANGED <<events, kept, created, previews, withEnv, hooks, shows, troubles,
                       accepted, forgotten, newest, disordered, overtaken>>
     \/ /\ Trouble \/ (app \notin previews /\ UNCHANGED troubles)
        /\ actor' = [actor EXCEPT ![a] = AtRest]
        /\ answered' = answered
        /\ Undone({a[1], ref, hooks[app]})
        /\ busy' = busy \ {app}
        /\ UNCHANGED <<events, kept, created, previews, withEnv, hooks, shows, accepted,
                       forgotten, newest, disordered, overtaken>>

\* insert_pending, after the queue.  The answer of the call was good until here.
InsertPending(j) ==
  /\ actor[j].pc = "insert"
  /\ UNCHANGED previewState
  /\ \/ /\ actor[j].id \in previews
        /\ Goes(j, "pending")
        /\ UNCHANGED <<events, kept, troubles, previewHistory>>
     \/ /\ Trouble \/ (actor[j].id \notin previews /\ UNCHANGED troubles)
        /\ Errs(j)

Waits(c) ==
  \E j \in Actors : j[1] = c /\ actor[j].pc = "pending" /\ actor[j].id \in previews

\* approve_deployment, of a person or of the scheduler in the window, or reject_deployment:
\* it takes the app.  Who lets an older push follow the last one wants it so.
TakeRow(j) ==
  /\ actor[j].pc = "pending" /\ actor[j].id \in previews \ busy
  /\ busy' = busy \union {actor[j].id}
  /\ Goes(j, "decide")
  /\ overtaken' = (overtaken \/ ~(j[1] = answered \/ Waits(answered)))
  /\ UNCHANGED <<events, kept, created, previews, withEnv, hooks, shows, troubles, accepted,
                 forgotten, newest, answered, undone, disordered>>

\* The row is approved, rejected or, after an error, as it was.  Only the pipeline runs the
\* queue at its end: what came in between stays in it.
Decide(j) ==
  LET app == actor[j].id IN
  /\ actor[j].pc = "decide"
  /\ \/ Goes(j, "run") /\ UNCHANGED <<busy, troubles, undone>>
     \/ /\ actor' = [actor EXCEPT ![j] = AtRest] /\ busy' = busy \ {app}
        /\ Undone({j[1], hooks[app]}) /\ UNCHANGED troubles
     \/ /\ Goes(j, "pending") /\ busy' = busy \ {app}
        /\ Undone({hooks[app]}) /\ Trouble
  /\ UNCHANGED <<events, kept, created, previews, withEnv, hooks, shows, accepted, forgotten,
                 newest, answered, disordered, overtaken>>

\* The pipeline ends, well or not, and gives the app back.
PipelineEnds(j) ==
  LET app == actor[j].id IN
  /\ actor[j].pc = "run"
  /\ \/ /\ shows' = [shows EXCEPT ![app] = [commit |-> j[1], env |-> actor[j].env]]
        /\ UNCHANGED undone
     \/ Undone({j[1]}) /\ UNCHANGED shows
  /\ busy' = busy \ {app}
  /\ Goes(j, "take")
  /\ UNCHANGED <<events, kept, created, previews, withEnv, hooks, troubles, accepted,
                 forgotten, newest, answered, disordered, overtaken>>

\* run_queued_hook takes the push that waits and deploys it like a request.
TakeQueued(a) ==
  LET app == actor[a].id IN
  /\ actor[a].pc = "take"
  /\ actor' = [actor EXCEPT ![a] = IF hooks[app] = NoCommit THEN AtRest
                 ELSE [AtRest EXCEPT !.pc = "read", !.id = app, !.ref = hooks[app],
                                     !.fresh = hooks[app] = newest]]
  /\ hooks' = [hooks EXCEPT ![app] = NoCommit]
  /\ UNCHANGED <<events, kept, created, previews, withEnv, busy, shows, troubles,
                 previewHistory>>

-----------------------------------------------------------------------------
(* close_preview.                                                           *)

MayDeleteAnyway(x) == TRUE

\* lock_app of delete_app.
MayDelete(x) == x \notin busy

\* delete_app takes the app, or the 31 tries of the loop are over while it is busy.
LockDeletion(a) ==
  /\ actor[a].pc = "delete"
  /\ \/ /\ MayDelete(actor[a].id)
        /\ busy' = busy \union {actor[a].id} /\ Goes(a, "remove")
        /\ UNCHANGED <<events, kept, created, previews, withEnv, hooks, shows, troubles,
                       previewHistory>>
     \/ /\ actor[a].id \in busy \/ actor[a].id \notin previews
        /\ Errs(a) /\ UNCHANGED <<previewState, troubles>>

\* perform_delete_app, forget_queued_hook and the end of the lock.  When the deletion fails,
\* with the containers removed or not, the queue is run before the error is returned.
RemovePreview(a) ==
  LET app == actor[a].id IN
  /\ actor[a].pc = "remove"
  /\ busy' = busy \ {app}
  /\ \/ /\ app \in previews
        /\ previews' = previews \ {app} /\ withEnv' = withEnv \ {app}
        /\ hooks' = [hooks EXCEPT ![app] = NoCommit]
        /\ shows' = [shows EXCEPT ![app] = NotShown]
        /\ actor' = [actor EXCEPT ![a] = AtRest] /\ Ends(a, TRUE)
        /\ UNCHANGED troubles
     \/ /\ Trouble \/ (app \notin previews /\ UNCHANGED troubles)
        /\ shows' \in {shows, [shows EXCEPT ![app] = NotShown]}
        /\ Goes(a, "take")
        /\ Undone({a[1], answered}) /\ UNCHANGED answered
        /\ UNCHANGED <<previews, withEnv, hooks>>
  /\ UNCHANGED <<events, kept, created, accepted, forgotten, newest, disordered, overtaken>>

-----------------------------------------------------------------------------
ActorStep(a) ==
  \/ CreatePreview(a) \/ EnvStep(a) \/ UpdatePreview(a) \/ ReadPreview(a)
  \/ LockOrQueue(a) \/ StartDeployment(a) \/ PipelineEnds(a) \/ TakeQueued(a)
  \/ InsertPending(a) \/ TakeRow(a) \/ Decide(a)
  \/ LockDeletion(a) \/ RemovePreview(a)

PreviewInit ==
  /\ events = <<>> /\ kept = {} /\ created = 0 /\ previews = {} /\ withEnv = {} /\ busy = {}
  /\ hooks = [x \in Previews |-> NoCommit] /\ shows = [x \in Previews |-> NotShown]
  /\ actor = [a \in Actors |-> AtRest] /\ troubles = 0
  /\ accepted = {} /\ forgotten = {} /\ newest = NoCommit /\ answered = 0 /\ undone = {}
  /\ disordered = FALSE /\ overtaken = FALSE

PreviewNext ==
  \/ \E kind \in {"push", "close"} : Happens(kind)
  \/ \E e \in Events : Deliver(e) \/ ForgetDelivery(e) \/ FindPreview(e)
  \/ \E a \in Actors : ActorStep(a)
  \/ RestartAll

PreviewSpec == PreviewInit /\ [][PreviewNext]_previewVars

-----------------------------------------------------------------------------
PreviewTypeOK ==
  /\ events \in Seq({"push", "close"}) /\ kept \subseteq Events /\ created \in 0..MaxPreviews
  /\ previews \subseteq Previews /\ withEnv \subseteq Previews /\ busy \subseteq Previews
  /\ hooks \in [Previews -> Events \union {NoCommit}]
  /\ shows \in [Previews -> [commit : Events \union {NoCommit}, env : BOOLEAN]]
  /\ actor \in [Actors -> [pc : ActorPcs, id : 0..MaxPreviews,
                           ref : Events \union {NoCommit}, fresh : BOOLEAN,
                           env : BOOLEAN]]
  /\ troubles \in 0..MaxTroubles /\ newest \in Events \union {NoCommit}
  /\ answered \in 0..MaxEvents /\ undone \subseteq Events
  /\ accepted \subseteq Events /\ forgotten \subseteq Events

\* A pull request has one preview, although two deliveries that find none create one each.
OnePreview == Cardinality(previews) <= 1

Quiet == \A a \in Actors : actor[a].pc \in {"rest", "pending"}

\* Once the calls and the pipelines are over, the preview shows the commit of the last event
\* that was answered well, or its row waits for approval, or it is gone after a close:
\* through queued pushes, duplicates, approvals and deletions that fail.  The exceptions are
\* calls that overlap or come in the wrong order, a queued push that an other one overtakes
\* after it was taken from the queue, an older row that is approved last, and work that
\* failed, was rejected or was cut off.
PreviewCurrent ==
  (Quiet /\ ~disordered /\ ~overtaken /\ answered # 0) =>
    IF events[answered] = "push"
    THEN \/ answered \in undone \/ Waits(answered)
         \/ \E x \in previews : shows[x].commit = answered
    ELSE previews = {} \/ \E e \in undone : e > answered

\* A preview runs with the plain variables of its parent, unless a call has failed before it
\* could copy them.  Its secrets, its groups of variables and its environment are never
\* copied.
PreviewHasEnv ==
  ~disordered /\ undone = {} => \A x \in previews : shows[x].commit # NoCommit => shows[x].env

\* The deliveries of a pull request come to the right preview.
PreviewFollows == PreviewTypeOK /\ OnePreview /\ PreviewCurrent /\ PreviewHasEnv

\* The documentation: one more deployment starts with the latest commit of the branch.
LatestShown ==
  (Quiet /\ ~disordered /\ undone = {}) =>
    \A x \in previews : \A e \in accepted : events[e] = "push" => shows[x].commit >= e

\* The documentation: when the pull request is closed or merged, the preview is removed.
ClosedIsGone ==
  (Quiet /\ ~disordered /\ troubles = 0 /\ events # <<>>) =>
    (events[Len(events)] = "close" /\ Len(events) \in accepted => previews = {})

\* The documentation: previews inherit the variables of the parent app.  Of the plain ones
\* alone it is false; the secrets are left out by design.
EnvInherited ==
  (Quiet /\ ~disordered) => \A x \in previews : shows[x].commit # NoCommit => shows[x].env
=============================================================================
