------------------------------- MODULE Deploy -------------------------------
(***************************************************************************)
(* The deployment platform of one r3v3rs3 server: the app lock, the        *)
(* blue-green pipeline of image and Git apps, approval, rollback, queued   *)
(* webhooks, cancellation, the publication of the routes, shutdown and     *)
(* restart.  Source: r3v3rs3/src/platform/{deploy,store,hooks,publish,     *)
(* build,mod}.rs.                                                          *)
(*                                                                         *)
(* A deployment d is one row of the table `deployments` together with the  *)
(* request handler that creates it and the task that runs its pipeline;    *)
(* pc[d] says where the code of d is.  Every `.await` on the store, on     *)
(* Docker or on a lock ends an action, because another task may run there. *)
(***************************************************************************)
EXTENDS Naturals, FiniteSets

CONSTANTS
  Apps,         \* the apps
  Deployments,  \* the deployment ids that may be created (bounds the model)
  Targets,      \* the Docker hosts
  AppOf,        \* [Deployments -> Apps]
  TargetsOf,    \* [Deployments -> SUBSET Targets]: targets_or_default of the snapshot
  SpecTargets,  \* [Apps -> SUBSET Targets]: the targets of the current spec
  Git,          \* the deployments whose source is a Git build
  HostPort,     \* the deployments whose spec has a fixed host port
  Approval,     \* the deployments for which needs_approval answers a reason
  Holds,        \* the apps that a backup, a restore or a target change may lock
  Cancels,      \* ids of the cancel requests (bounds the model)
  Refresh,      \* the publisher task `refresh`
  Faults,       \* which best-effort calls may fail: "store", "runtime", "inspect"
  MaxBuilds,    \* build::MAX_BUILDS
  MaxRestarts   \* bound on the restarts of the server

ASSUME DeployAssumption ==
  /\ AppOf \in [Deployments -> Apps]
  /\ TargetsOf \in [Deployments -> SUBSET Targets]
  /\ \A d \in Deployments : TargetsOf[d] # {}
  /\ SpecTargets \in [Apps -> SUBSET Targets]
  /\ Git \subseteq Deployments
  /\ HostPort \subseteq Deployments
  /\ Approval \subseteq Deployments
  /\ Holds \subseteq Apps
  /\ Faults \subseteq {"store", "runtime", "inspect"}
  /\ MaxBuilds \in Nat \ {0}
  /\ MaxRestarts \in Nat
  /\ Deployments \cap Apps = {}
  /\ Refresh \notin Deployments \cup Apps

VARIABLES
  status,   \* [Deployments -> Statuses], the column `status` ("none": no row)
  repeat,   \* the deployments whose trigger is Rollback
  digest,   \* the deployments with an image_digest
  pc,       \* [Deployments -> Pcs]
  todo,     \* [Deployments -> SUBSET Targets], targets the loop of d has not reached
  started,  \* [Deployments -> SUBSET Targets], the local `started` of deploy_targets
  stopped,  \* [Deployments -> Servers], the result of stop_old_on_targets
  cont,     \* [Deployments -> [Targets -> ContStates]], the containers
  busy,     \* Platform::busy
  queued,   \* the keys of Platform::queued
  token,    \* the keys of Platform::cancellations
  fired,    \* the deployments whose cancellation token is cancelled
  holder,   \* [Apps -> HolderStates], the lock user that is not a pipeline
  alive,    \* the apps that exist
  purged,   \* history: the apps whose containers a deletion began to remove
  cancel,   \* [Cancels -> CancelStates], the cancel requests
  sent,     \* Platform::sent: [known, servers]
  route,    \* [Apps -> Servers], the servers of each app that the proxy has
  pub,      \* [step, owner, view]: the holder of the mutex of `sent`
  down,     \* the shutdown token is cancelled
  restarts

rowVars  == <<status, repeat, digest>>
loopVars == <<todo, started, stopped>>
tokVars  == <<token, fired>>
pubVars  == <<sent, route, pub>>
envVars  == <<alive, purged, down, restarts>>

vars == <<status, repeat, digest, pc, todo, started, stopped, cont, busy,
          queued, token, fired, holder, alive, purged, cancel, sent, route,
          pub, down, restarts>>

Active     == {"queued", "building", "deploying"}
Unfinished == Active \cup {"pending_approval"}
Finished   == {"running", "superseded", "failed", "cancelled"}
Statuses   == {"none"} \cup Unfinished \cup Finished
ContStates == {"absent", "created", "running", "stopped"}

\* The future run_job, which the select! of spawn_job may drop.
PipelinePcs == {"start", "permit", "build", "pull", "prepared", "stopold",
                "launch", "probe", "undo", "restart", "fail", "finish",
                "publish", "drain"}
\* The task of a deployment until it drops its AppLock.
TaskPcs == PipelinePcs \cup {"cancelled", "end", "unlock"}
\* The code of the deployment owns an AppLock.
HeldPcs == TaskPcs \cup {"locked", "inserted", "approving"}
Pcs == HeldPcs \cup {"idle", "pendhook", "pendlock", "pend", "parked",
                     "drained", "hook", "done"}

HolderLocks  == {"held", "deleting", "removed", "deleted", "failed"}
HolderStates == HolderLocks \cup {"free", "publish", "hook", "hooklock"}
CancelStates == [step : {"idle", "mark", "fire", "done"}, dep : Deployments]
Servers      == SUBSET (Deployments \X Targets)
Publishers   == Deployments \cup Apps \cup {Refresh}
PubFree      == [step |-> "free", owner |-> Refresh, view |-> {}]
NoServers    == [a \in Apps |-> {}]
Unsent       == [known |-> FALSE, servers |-> NoServers]

DeploymentsOf(a) == {d \in Deployments : AppOf[d] = a}
Fresh(a)         == {d \in DeploymentsOf(a) : pc[d] = "idle"}
Goto(d, where)   == pc' = [pc EXCEPT ![d] = where]
SetStatus(d, s)  == status' = [status EXCEPT ![d] = IF @ = "none" THEN @ ELSE s]
MayFail(call)    == call \in Faults

-----------------------------------------------------------------------------
(* The requests of the admin API and the webhooks.                         *)

LockForUnchecked(d, where) ==
  busy' = busy \cup {AppOf[d]} /\ Goto(d, where)

\* lock_app and lock_or_queue_hook: one step under the mutex of `busy`.
LockFor(d, where) ==
  /\ AppOf[d] \notin busy
  /\ busy' = busy \cup {AppOf[d]}
  /\ Goto(d, where)

Unlock(d, where) ==
  /\ busy' = busy \ {AppOf[d]}
  /\ Goto(d, where)

\* deploy, and hook_deploy on a free app.  The app is read before the lock is
\* taken, so it may be deleted by now.
DeployRequest(d) ==
  /\ pc[d] = "idle"
  /\ LockFor(d, "locked")
  /\ UNCHANGED <<rowVars, loopVars, cont, queued, tokVars, holder, cancel,
                 pubVars, envVars>>

\* rollback(s): d repeats the spec of s.  It needs approval before it needs a
\* digest, and it takes the lock only when it needs no approval.
RollbackRequest(d, s) ==
  /\ pc[d] = "idle" /\ d # s /\ AppOf[s] = AppOf[d]
  /\ status[s] # "none" /\ d \notin Git
  /\ TargetsOf[d] = TargetsOf[s] /\ (d \in HostPort <=> s \in HostPort)
  /\ repeat' = repeat \cup {d}
  /\ digest' = IF s \in digest THEN digest \cup {d} ELSE digest
  /\ \/ d \in Approval /\ Goto(d, "pend") /\ UNCHANGED busy
     \/ d \notin Approval /\ s \in digest /\ LockFor(d, "locked")
  /\ UNCHANGED <<status, loopVars, cont, queued, tokVars, holder, cancel,
                 pubVars, envVars>>

\* hook_deploy on a busy app, which was read before and may be deleted by now.
HookQueued(a) ==
  /\ a \in busy
  /\ queued' = queued \cup {a}
  /\ UNCHANGED <<rowVars, pc, loopVars, cont, busy, tokVars, holder, cancel,
                 pubVars, envVars>>

\* The insertion of the row fails when the app was deleted in between.
InsertRow(d) ==
  /\ pc[d] = "locked" /\ d \notin Approval
  /\ \/ /\ AppOf[d] \in alive
        /\ status' = [status EXCEPT ![d] = "queued"]
        /\ Goto(d, "inserted")
        /\ UNCHANGED busy
     \/ /\ AppOf[d] \notin alive \/ MayFail("store")
        /\ Unlock(d, "done")
        /\ UNCHANGED status
  /\ UNCHANGED <<repeat, digest, loopVars, cont, queued, tokVars, holder,
                 cancel, pubVars, envVars>>

\* start_job reads the row back, then spawn_job registers the token.
SpawnJob(d) ==
  /\ pc[d] = "inserted"
  /\ \/ Goto(d, "start") /\ token' = token \cup {d} /\ UNCHANGED busy
     \/ MayFail("store") /\ Unlock(d, "done") /\ UNCHANGED token
  /\ UNCHANGED <<rowVars, loopVars, cont, queued, fired, holder, cancel,
                 pubVars, envVars>>

\* deploy_app_locked with an approval: drop(lock), run_queued_hook, insert.
PendUnlock(d) ==
  /\ pc[d] = "locked" /\ d \in Approval
  /\ Unlock(d, "pendhook")
  /\ UNCHANGED <<rowVars, loopVars, cont, queued, tokVars, holder, cancel,
                 pubVars, envVars>>

InsertPending(d) ==
  /\ pc[d] = "pend"
  /\ \/ /\ AppOf[d] \in alive
        /\ status' = [status EXCEPT ![d] = "pending_approval"]
        /\ Goto(d, "parked")
     \/ /\ AppOf[d] \notin alive \/ MayFail("store")
        /\ Goto(d, "done")
        /\ UNCHANGED status
  /\ UNCHANGED <<repeat, digest, loopVars, cont, busy, queued, tokVars,
                 holder, cancel, pubVars, envVars>>

\* approve_deployment, from the API or from the deploy window of the scheduler.
\* The status is read before the lock is taken, so it may have changed by now.
ApproveLock(d) ==
  /\ pc[d] = "parked"
  /\ LockFor(d, "approving")
  /\ UNCHANGED <<rowVars, loopVars, cont, queued, tokVars, holder, cancel,
                 pubVars, envVars>>

ApproveUpdateUnguarded(d) ==
  /\ pc[d] = "approving"
  /\ SetStatus(d, "queued")
  /\ Goto(d, "start")
  /\ token' = token \cup {d}
  /\ UNCHANGED <<repeat, digest, loopVars, cont, busy, queued, fired, holder,
                 cancel, pubVars, envVars>>

\* store.approve_deployment updates a row that is still pending; spawn_job follows
\* it without an await.
ApproveUpdate(d) ==
  /\ pc[d] = "approving"
  /\ \/ /\ status[d] = "pending_approval"
        /\ d \in repeat => d \in digest
        /\ SetStatus(d, "queued")
        /\ Goto(d, "start")
        /\ token' = token \cup {d}
        /\ UNCHANGED busy
     \/ /\ \/ status[d] # "pending_approval"
           \/ d \in repeat /\ d \notin digest
           \/ MayFail("store")
        /\ Unlock(d, "parked")
        /\ UNCHANGED <<status, token>>
  /\ UNCHANGED <<repeat, digest, loopVars, cont, queued, fired, holder,
                 cancel, pubVars, envVars>>

\* reject_deployment.  It holds the app only around its own UPDATE; what a
\* longer hold allows is what HoldApp and ReleaseApp allow.
Reject(d) ==
  /\ status[d] = "pending_approval" /\ AppOf[d] \notin busy
  /\ SetStatus(d, "cancelled")
  /\ UNCHANGED <<repeat, digest, pc, loopVars, cont, busy, queued, tokVars,
                 holder, cancel, pubVars, envVars>>

\* A backup, a restore, a WAL archive or a change of the target.
HoldApp(a) ==
  /\ a \in Holds \cap alive /\ holder[a] = "free" /\ a \notin busy
  /\ busy' = busy \cup {a}
  /\ holder' = [holder EXCEPT ![a] = "held"]
  /\ UNCHANGED <<rowVars, pc, loopVars, cont, queued, tokVars, cancel,
                 pubVars, envVars>>

ReleaseApp(a) ==
  /\ holder[a] = "held"
  /\ busy' = busy \ {a}
  /\ holder' = [holder EXCEPT ![a] = "free"]
  /\ UNCHANGED <<rowVars, pc, loopVars, cont, queued, tokVars, cancel,
                 pubVars, envVars>>

-----------------------------------------------------------------------------
(* run_queued_hook: what a released app owes the webhooks.  The request     *)
(* that it starts is that of a fresh deployment; the caller goes on without *)
(* waiting for it, which adds interleavings and removes none.               *)

\* queued.remove(id), unless the server shuts down.
Dequeue(d, found, empty) ==
  /\ IF AppOf[d] \in queued /\ ~down
       THEN queued' = queued \ {AppOf[d]} /\ Goto(d, found)
       ELSE Goto(d, empty) /\ UNCHANGED queued
  /\ UNCHANGED <<rowVars, loopVars, cont, busy, tokVars, holder, cancel,
                 pubVars, envVars>>

PendHook(d) == pc[d] = "pendhook" /\ Dequeue(d, "pendlock", "pend")
Drained(d)  == pc[d] = "drained"  /\ Dequeue(d, "hook", "done")

\* hook_deploy after the dequeue: the app is read again, then it is locked for
\* a new deployment or the webhook is queued again.
RunHook(d) ==
  LET a    == AppOf[d]
      next == IF pc[d] = "hook" THEN "done" ELSE "pend"
  IN
  /\ pc[d] \in {"hook", "pendlock"}
  /\ \/ a \notin alive /\ Goto(d, next) /\ UNCHANGED <<busy, queued>>
     \/ /\ a \in alive /\ a \in busy
        /\ queued' = queued \cup {a}
        /\ Goto(d, next)
        /\ UNCHANGED busy
     \/ /\ a \in alive /\ a \notin busy
        /\ \E e \in Fresh(a) :
             pc' = [pc EXCEPT ![d] = next, ![e] = "locked"]
        /\ busy' = busy \cup {a}
        /\ UNCHANGED queued
     \* The bound on the deployments: no id is left for the new one.
     \/ /\ a \in alive /\ a \notin busy /\ Fresh(a) = {}
        /\ Goto(d, next)
        /\ UNCHANGED <<busy, queued>>
  /\ UNCHANGED <<rowVars, loopVars, cont, tokVars, holder, cancel, pubVars,
                 envVars>>

-----------------------------------------------------------------------------
(* The pipeline of one deployment: run_job.                                 *)

\* prepare_image: the first status, then the pull or the wait for a permit.
Start(d) ==
  /\ pc[d] = "start"
  /\ \/ /\ SetStatus(d, IF d \in Git THEN "building" ELSE "deploying")
        /\ Goto(d, IF d \in Git THEN "permit" ELSE "pull")
     \/ MayFail("store") /\ Goto(d, "fail") /\ UNCHANGED status
  /\ UNCHANGED <<repeat, digest, loopVars, cont, busy, queued, tokVars,
                 holder, cancel, pubVars, envVars>>

AcquirePermitLeak(d) ==
  /\ pc[d] = "permit"
  /\ \A e \in Git \ {d} : pc[e] = "idle"
  /\ Goto(d, "build")
  /\ UNCHANGED <<rowVars, loopVars, cont, busy, queued, tokVars, holder,
                 cancel, pubVars, envVars>>

\* builds.acquire(); the permit is dropped with the future of the build.
AcquirePermit(d) ==
  /\ pc[d] = "permit"
  /\ Cardinality({e \in Deployments : pc[e] = "build"}) < MaxBuilds
  /\ Goto(d, "build")
  /\ UNCHANGED <<rowVars, loopVars, cont, busy, queued, tokVars, holder,
                 cancel, pubVars, envVars>>

Built(d) ==
  /\ pc[d] = "build"
  /\ \/ SetStatus(d, "deploying") /\ Goto(d, "prepared")
     \/ Goto(d, "fail") /\ UNCHANGED status
  /\ UNCHANGED <<repeat, digest, loopVars, cont, busy, queued, tokVars,
                 holder, cancel, pubVars, envVars>>

Pulled(d) ==
  /\ pc[d] = "pull"
  /\ Goto(d, "prepared") \/ Goto(d, "fail")
  /\ UNCHANGED <<rowVars, loopVars, cont, busy, queued, tokVars, holder,
                 cancel, pubVars, envVars>>

\* set_image_digest and the pre-deploy hook; a fixed host port then frees the
\* port of the old container before the new one starts.
Record(d) ==
  /\ pc[d] = "prepared"
  /\ \/ /\ digest' = digest \cup {d}
        /\ Goto(d, IF d \in HostPort THEN "stopold" ELSE "launch")
     \/ digest' = digest \cup {d} /\ Goto(d, "fail")
     \/ MayFail("store") /\ Goto(d, "fail") /\ UNCHANGED digest
  /\ todo' = [todo EXCEPT ![d] = TargetsOf[d]]
  /\ UNCHANGED <<status, repeat, started, stopped, cont, busy, queued,
                 tokVars, holder, cancel, pubVars, envVars>>

\* The containers S on the target t change to the state s.
SetContainers(S, t, s) ==
  cont' = [e \in Deployments |->
             IF e \in S THEN [cont[e] EXCEPT ![t] = s] ELSE cont[e]]

RunningOn(a, t) == {e \in DeploymentsOf(a) : cont[e][t] = "running"}

\* stop_old_on_targets: one target.  A container that could not be stopped is
\* listed all the same; a failed listing lists nothing.
StopOld(d, t) ==
  LET old == RunningOn(AppOf[d], t) IN
  /\ pc[d] = "stopold" /\ t \in todo[d]
  /\ \/ /\ \E S \in SUBSET old : /\ S = old \/ MayFail("runtime")
                                 /\ SetContainers(S, t, "stopped")
        /\ stopped' = [stopped EXCEPT ![d] = @ \cup (old \X {t})]
     \/ MayFail("runtime") /\ UNCHANGED <<cont, stopped>>
  /\ IF todo[d] = {t}
       THEN todo' = [todo EXCEPT ![d] = TargetsOf[d]] /\ Goto(d, "launch")
       ELSE todo' = [todo EXCEPT ![d] = @ \ {t}] /\ UNCHANGED pc
  /\ UNCHANGED <<rowVars, started, busy, queued, tokVars, holder, cancel,
                 pubVars, envVars>>

\* The Docker engine refuses to start a container whose host port is taken.
PortTaken(d, t) ==
  d \in HostPort /\ (RunningOn(AppOf[d], t) \ {d}) \cap HostPort # {}

LaunchForgets(d, t) ==
  /\ pc[d] = "launch" /\ t \in todo[d]
  /\ todo' = [todo EXCEPT ![d] = @ \ {t}]
  /\ \/ SetContainers({d}, t, "running") /\ Goto(d, "probe")
     \/ Goto(d, "fail") /\ UNCHANGED cont
  /\ UNCHANGED <<rowVars, started, stopped, busy, queued, tokVars, holder,
                 cancel, pubVars, envVars>>

\* One round of the loop of deploy_targets up to the health check.  An image
\* that the target cannot pull returns at once, without a cleanup of the
\* targets that were started before it.
Launch(d, t) ==
  /\ pc[d] = "launch" /\ t \in todo[d]
  /\ todo' = [todo EXCEPT ![d] = @ \ {t}]
  /\ \/ /\ ~PortTaken(d, t)
        /\ SetContainers({d}, t, "running")
        /\ Goto(d, "probe")
     \/ d \notin Git /\ Goto(d, "restart") /\ UNCHANGED cont
     \/ Goto(d, "undo") /\ UNCHANGED cont
     \/ SetContainers({d}, t, "created") /\ Goto(d, "undo")
  /\ UNCHANGED <<rowVars, started, stopped, busy, queued, tokVars, holder,
                 cancel, pubVars, envVars>>

Current(d) == TargetsOf[d] \ (todo[d] \cup started[d])

\* wait_healthy on the target that was launched last.
ProbeOk(d, t) ==
  /\ pc[d] = "probe" /\ t \in Current(d)
  /\ cont[d][t] = "running"
  /\ started' = [started EXCEPT ![d] = @ \cup {t}]
  /\ Goto(d, IF todo[d] = {} THEN "finish" ELSE "launch")
  /\ UNCHANGED <<rowVars, todo, stopped, cont, busy, queued, tokVars, holder,
                 cancel, pubVars, envVars>>

ProbeFail(d, t) ==
  /\ pc[d] = "probe" /\ t \in Current(d)
  /\ \/ SetContainers({d}, t, "absent")
     \/ MayFail("runtime") /\ UNCHANGED cont
  /\ Goto(d, "undo")
  /\ UNCHANGED <<rowVars, loopVars, busy, queued, tokVars, holder, cancel,
                 pubVars, envVars>>

\* cleanup_failed_targets: one target, or the end of the list.
Undo(d) ==
  /\ pc[d] = "undo"
  /\ \/ \E t \in started[d] :
          /\ \/ SetContainers({d}, t, "absent")
             \/ MayFail("runtime") /\ UNCHANGED cont
          /\ started' = [started EXCEPT ![d] = @ \ {t}]
          /\ UNCHANGED pc
     \/ started[d] = {} /\ Goto(d, "restart") /\ UNCHANGED <<cont, started>>
  /\ UNCHANGED <<rowVars, todo, stopped, busy, queued, tokVars, holder,
                 cancel, pubVars, envVars>>

\* restart_stopped: one container, or the end of the list.
RestartStopped(d) ==
  /\ pc[d] = "restart"
  /\ \/ \E old \in stopped[d] :
          LET e == old[1]  t == old[2] IN
          /\ \/ /\ cont[e][t] \in {"stopped", "running"} /\ ~PortTaken(e, t)
                /\ SetContainers({e}, t, "running")
             \/ /\ \/ cont[e][t] \notin {"stopped", "running"}
                   \/ PortTaken(e, t) \/ MayFail("runtime")
                /\ UNCHANGED cont
          /\ stopped' = [stopped EXCEPT ![d] = @ \ {old}]
          /\ UNCHANGED pc
     \/ stopped[d] = {} /\ Goto(d, "fail") /\ UNCHANGED <<cont, stopped>>
  /\ UNCHANGED <<rowVars, todo, started, busy, queued, tokVars, holder,
                 cancel, pubVars, envVars>>

\* The error path of run_pipeline.
Fail(d) ==
  /\ pc[d] = "fail"
  /\ \/ SetStatus(d, "failed")
     \/ MayFail("store") /\ UNCHANGED status
  /\ Goto(d, "end")
  /\ UNCHANGED <<repeat, digest, loopVars, cont, busy, queued, tokVars,
                 holder, cancel, pubVars, envVars>>

FinishKeepsOld(d) ==
  /\ pc[d] = "finish"
  /\ SetStatus(d, "running")
  /\ todo' = [todo EXCEPT ![d] = TargetsOf[d]]
  /\ purged' = purged \ {AppOf[d]}
  /\ Goto(d, "publish")
  /\ UNCHANGED <<repeat, digest, started, stopped, cont, busy, queued, tokVars,
                 holder, alive, cancel, pubVars, down, restarts>>

FinishUnpublished(d) ==
  /\ pc[d] = "finish"
  /\ status' = [e \in Deployments |->
       IF e = d THEN "running"
       ELSE IF AppOf[e] = AppOf[d] /\ status[e] = "running"
       THEN "superseded" ELSE status[e]]
  /\ todo' = [todo EXCEPT ![d] = TargetsOf[d]]
  /\ purged' = purged \ {AppOf[d]}
  /\ Goto(d, "drain")
  /\ UNCHANGED <<repeat, digest, started, stopped, cont, busy, queued, tokVars,
                 holder, alive, cancel, pubVars, down, restarts>>

\* store.finish_deployment: one transaction without a guard on the old status
\* of d.  From here on d serves, so an earlier partial deletion is forgotten.
Finish(d) ==
  /\ pc[d] = "finish"
  /\ \/ /\ status' = [e \in Deployments |->
             IF e = d THEN (IF status[d] = "none" THEN "none" ELSE "running")
             ELSE IF AppOf[e] = AppOf[d] /\ status[e] = "running"
             THEN "superseded" ELSE status[e]]
        /\ todo' = [todo EXCEPT ![d] = TargetsOf[d]]
        /\ purged' = purged \ {AppOf[d]}
        /\ Goto(d, "publish")
     \/ MayFail("store") /\ Goto(d, "fail") /\ UNCHANGED <<status, todo, purged>>
  /\ UNCHANGED <<repeat, digest, started, stopped, cont, busy, queued, tokVars,
                 holder, alive, cancel, pubVars, down, restarts>>

OldContainersAll(d) == DeploymentsOf(AppOf[d])

\* remove_containers lists by the label of the app and keeps the one of d.
OldContainers(d) == DeploymentsOf(AppOf[d]) \ {d}

\* After the drain time: remove_old on one target, or the end of the pipeline.
\* remove_containers ends at its first error.
RemoveOld(d) ==
  /\ pc[d] = "drain"
  /\ \/ \E t \in todo[d] :
          LET old == OldContainers(d) IN
          /\ \E S \in SUBSET old : /\ S = old \/ MayFail("runtime")
                                /\ SetContainers(S, t, "absent")
          /\ todo' = [todo EXCEPT ![d] = @ \ {t}]
          /\ UNCHANGED pc
     \/ todo[d] = {} /\ Goto(d, "end") /\ UNCHANGED <<cont, todo>>
  /\ UNCHANGED <<rowVars, started, stopped, busy, queued, tokVars, holder,
                 cancel, pubVars, envVars>>

\* remove_cancellation, after run_job or handle_cancelled_job.
RemoveToken(d) ==
  /\ pc[d] = "end"
  /\ token' = token \ {d}
  /\ Goto(d, "unlock")
  /\ UNCHANGED <<rowVars, loopVars, cont, busy, queued, fired, holder, cancel,
                 pubVars, envVars>>

UnlockJobOnly(d) ==
  /\ pc[d] = "unlock"
  /\ Unlock(d, "done")
  /\ UNCHANGED <<rowVars, loopVars, cont, queued, tokVars, holder, cancel,
                 pubVars, envVars>>

\* drop(lock): AppLock::drop removes the app, whoever put it there.
UnlockJob(d) ==
  /\ pc[d] = "unlock"
  /\ Unlock(d, "drained")
  /\ UNCHANGED <<rowVars, loopVars, cont, queued, tokVars, holder, cancel,
                 pubVars, envVars>>

-----------------------------------------------------------------------------
(* publish: the mutex of `sent` is held from the read of the store to the   *)
(* delivery of the snapshot.  The snapshot reaches the routes of the proxy  *)
(* when it is delivered: the drain time covers the queue of the server loop.*)

Wants(p) ==
  \/ p \in Deployments /\ pc[p] = "publish"
  \/ p \in Apps /\ holder[p] = "publish"
  \/ p = Refresh /\ ~down

PubReadEarly(p) ==
  /\ pub.step = "free" /\ Wants(p)
  /\ pub' = [step |-> "read", owner |-> p,
             view |-> {d \in Deployments : status[d] \in {"deploying", "running"}}]
  /\ UNCHANGED <<rowVars, pc, loopVars, cont, busy, queued, tokVars, holder,
                 cancel, sent, route, envVars>>

PubRead(p) ==
  /\ pub.step = "free" /\ Wants(p)
  /\ pub' = [step |-> "read", owner |-> p,
             view |-> {d \in Deployments : status[d] = "running"}]
  /\ UNCHANGED <<rowVars, pc, loopVars, cont, busy, queued, tokVars, holder,
                 cancel, sent, route, envVars>>

\* publish returns: the caller goes on and the mutex is free.
PubDone ==
  /\ pub' = PubFree
  /\ pc' = IF pub.owner \in Deployments
             THEN [pc EXCEPT ![pub.owner] = "drain"] ELSE pc
  /\ holder' = IF pub.owner \in Apps
                 THEN [holder EXCEPT ![pub.owner] = "free"] ELSE holder

\* deployment_ports: the published ports of the running containers.
ServersOf(view) ==
  [a \in Apps |-> {s \in Deployments \X Targets :
                     /\ s[1] \in view /\ AppOf[s[1]] = a
                     /\ s[2] \in TargetsOf[s[1]]
                     /\ cont[s[1]][s[2]] = "running"}]

PubRecord ==
  LET read == [known |-> TRUE, servers |-> ServersOf(pub.view)] IN
  /\ pub.step = "read"
  /\ IF sent = read
       THEN PubDone /\ UNCHANGED sent
       ELSE /\ sent' = read
            /\ pub' = [pub EXCEPT !.step = "recorded"]
            /\ UNCHANGED <<pc, holder>>
  /\ UNCHANGED <<rowVars, loopVars, cont, busy, queued, tokVars, cancel,
                 route, envVars>>

PubDeliver ==
  /\ pub.step = "recorded"
  /\ route' = sent.servers
  /\ PubDone
  /\ UNCHANGED <<rowVars, loopVars, cont, busy, queued, tokVars, cancel, sent,
                 envVars>>

\* A failed read sends an error snapshot, which keeps the old proxies.
PubError ==
  /\ MayFail("inspect") /\ pub.step = "read"
  /\ sent' = Unsent
  /\ PubDone
  /\ UNCHANGED <<rowVars, loopVars, cont, busy, queued, tokVars, cancel,
                 route, envVars>>

-----------------------------------------------------------------------------
(* delete_app.                                                              *)

DeleteLock(a) ==
  /\ a \in alive /\ holder[a] = "free" /\ a \notin busy
  /\ busy' = busy \cup {a}
  /\ holder' = [holder EXCEPT ![a] = "deleting"]
  /\ UNCHANGED <<rowVars, pc, loopVars, cont, queued, tokVars, cancel, pubVars,
                 envVars>>

\* cleanup_app_targets, when the app has a deployment.  A failed call leaves
\* the rest of the containers.
DeleteResources(a) ==
  LET rows == {d \in DeploymentsOf(a) : status[d] # "none"} IN
  /\ holder[a] = "deleting"
  /\ \E ok \in BOOLEAN :
     /\ ok \/ MayFail("runtime")
     /\ holder' = [holder EXCEPT ![a] = IF ok THEN "removed" ELSE "failed"]
     /\ \E S \in SUBSET SpecTargets[a] :
          /\ S = SpecTargets[a] \/ ~ok
          /\ cont' = IF rows = {} THEN cont ELSE
               [d \in Deployments |-> [t \in Targets |->
                  IF AppOf[d] = a /\ t \in S THEN "absent" ELSE cont[d][t]]]
  /\ purged' = purged \cup {a}
  /\ UNCHANGED <<rowVars, pc, loopVars, busy, queued, tokVars, cancel, pubVars,
                 alive, down, restarts>>

\* store.delete_app removes the app with its deployments, then the webhook is
\* forgotten.
DeleteRows(a) ==
  /\ holder[a] = "removed"
  /\ \/ /\ status' = [d \in Deployments |->
                       IF AppOf[d] = a THEN "none" ELSE status[d]]
        /\ alive' = alive \ {a}
        /\ queued' = queued \ {a}
        /\ holder' = [holder EXCEPT ![a] = "deleted"]
     \/ /\ MayFail("store")
        /\ holder' = [holder EXCEPT ![a] = "failed"]
        /\ UNCHANGED <<status, alive, queued>>
  /\ UNCHANGED <<repeat, digest, pc, loopVars, cont, busy, tokVars, cancel,
                 pubVars, purged, down, restarts>>

\* drop(lock) on both ways out of delete_app.
DeleteUnlock(a) ==
  /\ holder[a] \in {"deleted", "failed"}
  /\ busy' = busy \ {a}
  /\ holder' = [holder EXCEPT ![a] = IF @ = "deleted" THEN "publish" ELSE "hook"]
  /\ UNCHANGED <<rowVars, pc, loopVars, cont, queued, tokVars, cancel, pubVars,
                 envVars>>

\* run_queued_hook of a failed deletion.
DeleteHook(a) ==
  /\ holder[a] \in {"hook", "hooklock"}
  /\ \/ /\ holder[a] = "hook" /\ a \in queued /\ ~down
        /\ queued' = queued \ {a}
        /\ holder' = [holder EXCEPT ![a] = "hooklock"]
        /\ UNCHANGED <<pc, busy>>
     \/ /\ holder[a] = "hook" /\ (a \notin queued \/ down)
        /\ holder' = [holder EXCEPT ![a] = "free"]
        /\ UNCHANGED <<pc, busy, queued>>
     \/ /\ holder[a] = "hooklock"
        /\ holder' = [holder EXCEPT ![a] = "free"]
        /\ \/ /\ a \in busy
              /\ queued' = queued \cup {a}
              /\ UNCHANGED <<pc, busy>>
           \/ /\ a \notin busy
              /\ \E e \in Fresh(a) : Goto(e, "locked")
              /\ busy' = busy \cup {a}
              /\ UNCHANGED queued
           \/ a \notin busy /\ Fresh(a) = {} /\ UNCHANGED <<pc, busy, queued>>
  /\ UNCHANGED <<rowVars, loopVars, cont, tokVars, cancel, pubVars, envVars>>

-----------------------------------------------------------------------------
(* Cancellation, shutdown and restart.                                      *)

\* cancel_deployment reads the status.
CancelRead(c, d) ==
  /\ cancel[c].step = "idle" /\ status[d] \in Active
  /\ cancel' = [cancel EXCEPT ![c] = [step |-> "mark", dep |-> d]]
  /\ UNCHANGED <<rowVars, pc, loopVars, cont, busy, queued, tokVars, holder,
                 pubVars, envVars>>

\* fail_deployment(Cancelled) has no guard on the status.
CancelMark(c) ==
  /\ cancel[c].step = "mark"
  /\ SetStatus(cancel[c].dep, "cancelled")
  /\ cancel' = [cancel EXCEPT ![c].step = "fire"]
  /\ UNCHANGED <<repeat, digest, pc, loopVars, cont, busy, queued, tokVars,
                 holder, pubVars, envVars>>

\* cancel_running_job; without a token the app is taken for abandoned.
CancelFire(c) ==
  LET d == cancel[c].dep IN
  /\ cancel[c].step = "fire"
  /\ IF d \in token
       THEN token' = token \ {d} /\ fired' = fired \cup {d} /\ UNCHANGED busy
       ELSE busy' = busy \ {AppOf[d]} /\ UNCHANGED tokVars
  /\ cancel' = [cancel EXCEPT ![c].step = "done"]
  /\ UNCHANGED <<rowVars, pc, loopVars, cont, queued, holder, pubVars, envVars>>

\* The select! of spawn_job drops run_job at the await where it is.
Drop(d) ==
  /\ d \in fired /\ pc[d] \in PipelinePcs
  /\ Goto(d, "cancelled")
  /\ pub' = IF pub.step # "free" /\ pub.owner = d THEN PubFree ELSE pub
  /\ todo' = [todo EXCEPT ![d] = TargetsOf[d]]
  /\ UNCHANGED <<rowVars, started, stopped, cont, busy, queued, tokVars, holder,
                 cancel, sent, route, envVars>>

\* cleanup_cancelled_job: one target, or the end of the list.
CleanupCancelled(d) ==
  /\ pc[d] = "cancelled"
  /\ \/ \E t \in todo[d] :
          /\ \/ SetContainers({d}, t, "absent")
             \/ MayFail("runtime") /\ UNCHANGED cont
          /\ todo' = [todo EXCEPT ![d] = @ \ {t}]
          /\ UNCHANGED pc
     \/ todo[d] = {} /\ Goto(d, "end") /\ UNCHANGED <<cont, todo>>
  /\ UNCHANGED <<rowVars, started, stopped, busy, queued, tokVars, holder,
                 cancel, pubVars, envVars>>

\* Platform::shutdown: every registered token fires.
Shutdown ==
  /\ ~down
  /\ down' = TRUE
  /\ fired' = fired \cup token
  /\ token' = {}
  /\ UNCHANGED <<rowVars, pc, loopVars, cont, busy, queued, holder, cancel,
                 pubVars, alive, purged, restarts>>

AfterRestartKept(s) == s

\* fail_unfinished.
AfterRestart(s) == IF s \in Active THEN "failed" ELSE s

\* The process ends at any point, by a crash or after a shutdown, and starts
\* again: fail_unfinished, and every table in memory is empty.
Restart ==
  /\ restarts < MaxRestarts
  /\ restarts' = restarts + 1
  /\ status' = [d \in Deployments |-> AfterRestart(status[d])]
  /\ pc' = [d \in Deployments |->
              IF pc[d] = "idle" THEN "idle"
              ELSE IF status[d] = "pending_approval" THEN "parked" ELSE "done"]
  /\ busy' = {} /\ queued' = {} /\ token' = {} /\ fired' = {}
  /\ holder' = [a \in Apps |-> "free"]
  /\ cancel' = [c \in Cancels |-> [cancel[c] EXCEPT
                 !.step = IF @ = "idle" THEN "idle" ELSE "done"]]
  /\ sent' = Unsent /\ route' = NoServers /\ pub' = PubFree
  /\ down' = FALSE
  /\ todo' = [d \in Deployments |-> {}]
  /\ started' = [d \in Deployments |-> {}]
  /\ stopped' = [d \in Deployments |-> {}]
  /\ UNCHANGED <<repeat, digest, cont, alive, purged>>

-----------------------------------------------------------------------------
(* The specification.                                                       *)

Init ==
  /\ status = [d \in Deployments |-> "none"]
  /\ repeat = {} /\ digest = {}
  /\ pc = [d \in Deployments |-> "idle"]
  /\ todo = [d \in Deployments |-> {}]
  /\ started = [d \in Deployments |-> {}]
  /\ stopped = [d \in Deployments |-> {}]
  /\ cont = [d \in Deployments |-> [t \in Targets |-> "absent"]]
  /\ busy = {} /\ queued = {} /\ token = {} /\ fired = {}
  /\ holder = [a \in Apps |-> "free"]
  /\ alive = Apps /\ purged = {}
  /\ cancel \in [Cancels -> {c \in CancelStates : c.step = "idle"}]
  /\ sent = Unsent /\ route = NoServers /\ pub = PubFree
  /\ down = FALSE /\ restarts = 0

\* The steps of the request handler of d.
Request(d) ==
  \/ DeployRequest(d) \/ InsertRow(d) \/ SpawnJob(d)
  \/ PendUnlock(d) \/ InsertPending(d)
  \/ ApproveLock(d) \/ ApproveUpdate(d) \/ Reject(d)
  \/ \E s \in Deployments : RollbackRequest(d, s)

\* The steps of the task of d, and of the hook that ends it.
Job(d) ==
  \/ Start(d) \/ AcquirePermit(d) \/ Built(d) \/ Pulled(d) \/ Record(d)
  \/ \E t \in Targets :
       StopOld(d, t) \/ Launch(d, t) \/ ProbeOk(d, t) \/ ProbeFail(d, t)
  \/ Undo(d) \/ RestartStopped(d) \/ Fail(d) \/ Finish(d) \/ RemoveOld(d)
  \/ RemoveToken(d) \/ UnlockJob(d)
  \/ PendHook(d) \/ Drained(d) \/ RunHook(d)

Publish ==
  \/ \E p \in Publishers : PubRead(p)
  \/ PubRecord \/ PubDeliver \/ PubError

Delete(a) ==
  \/ DeleteLock(a) \/ DeleteResources(a) \/ DeleteRows(a) \/ DeleteUnlock(a)
  \/ DeleteHook(a)

Next ==
  \/ \E d \in Deployments : Request(d) \/ Job(d)
  \/ \E a \in Apps : HookQueued(a) \/ HoldApp(a) \/ ReleaseApp(a) \/ Delete(a)
  \/ Publish
  \/ Restart

CancelNext ==
  \/ \E c \in Cancels : \/ \E d \in Deployments : CancelRead(c, d)
                      \/ CancelMark(c) \/ CancelFire(c)
  \/ \E d \in Deployments : Drop(d) \/ CleanupCancelled(d)

ShutdownNext ==
  \/ Shutdown
  \/ \E d \in Deployments : Drop(d) \/ CleanupCancelled(d)

Spec         == Init /\ [][Next]_vars
CancelSpec   == Init /\ [][Next \/ CancelNext]_vars
ShutdownSpec == Init /\ [][Next \/ ShutdownNext]_vars

\* The steps of all three.
AnyNext == Next \/ CancelNext \/ ShutdownNext
AnySpec == Init /\ [][AnyNext]_vars

\* Every await of a task ends: the scheduler of tokio runs a task that can run,
\* and the Docker calls, the pulls and the builds have time limits.  The
\* semaphore of the builds and the mutex of `sent` serve in the order of their
\* queues, hence the strong fairness.  No request has to come.
Fairness ==
  /\ \A d \in Deployments :
       /\ WF_vars(InsertRow(d) \/ SpawnJob(d) \/ PendUnlock(d))
       /\ WF_vars(InsertPending(d) \/ ApproveUpdate(d))
       /\ WF_vars(Job(d) /\ pc[d] # "permit")
       /\ SF_vars(AcquirePermit(d))
  /\ \A p \in Publishers : SF_vars(PubRead(p))
  /\ WF_vars(PubRecord \/ PubDeliver)
  /\ \A a \in Apps :
       /\ WF_vars(ReleaseApp(a))
       /\ WF_vars(DeleteResources(a) \/ DeleteRows(a) \/ DeleteUnlock(a))
       /\ WF_vars(DeleteHook(a))

FairSpec == Spec /\ Fairness

-----------------------------------------------------------------------------
(* Properties.                                                              *)

TypeOK ==
  /\ status \in [Deployments -> Statuses]
  /\ repeat \subseteq Deployments /\ digest \subseteq Deployments
  /\ pc \in [Deployments -> Pcs]
  /\ todo \in [Deployments -> SUBSET Targets]
  /\ started \in [Deployments -> SUBSET Targets]
  /\ stopped \in [Deployments -> Servers]
  /\ cont \in [Deployments -> [Targets -> ContStates]]
  /\ busy \subseteq Apps /\ queued \subseteq Apps
  /\ token \subseteq Deployments /\ fired \subseteq Deployments
  /\ holder \in [Apps -> HolderStates]
  /\ alive \subseteq Apps /\ purged \subseteq Apps
  /\ cancel \in [Cancels -> CancelStates]
  /\ sent \in [known : BOOLEAN, servers : [Apps -> Servers]]
  /\ route \in [Apps -> Servers]
  /\ pub \in [step : {"free", "read", "recorded"}, owner : Publishers,
              view : SUBSET Deployments]
  /\ down \in BOOLEAN
  /\ restarts \in 0..MaxRestarts

\* The transaction of finish_deployment leaves an app with one deployment that
\* the API calls running, whatever a rollback, an approval, a cancel request
\* or a restart does meanwhile.
AtMostOneRunning ==
  \A d, e \in Deployments :
    AppOf[d] = AppOf[e] /\ status[d] = "running" /\ status[e] = "running" => d = e

\* The set `busy` lets one pipeline at a time have an app, and no pipeline runs
\* while a deletion, a backup or a restore has it.
OnePipeline ==
  \A d \in Deployments : pc[d] \in HeldPcs =>
    /\ holder[AppOf[d]] \notin HolderLocks
    /\ \A e \in DeploymentsOf(AppOf[d]) \ {d} : pc[e] \notin HeldPcs

\* A row that is in progress belongs to a task that will end it.
ActiveHasTask ==
  \A d \in Deployments : status[d] \in Active => pc[d] \in HeldPcs

Serves(d) == \A t \in TargetsOf[d] : cont[d][t] = "running"

\* The switch is blue-green: a deployment that the store calls running has its
\* containers, although later pipelines start, fail, are repeated or crash at
\* any step.  An app with a fixed host port stops first and is exempt.
RunningServes ==
  \A d \in Deployments :
    /\ status[d] = "running" /\ AppOf[d] \notin purged
    /\ DeploymentsOf(AppOf[d]) \cap HostPort = {}
    => Serves(d)

\* With a fixed host port the old container is stopped for the switch, and a
\* failed switch starts it again before the app is released.
IdleServes ==
  \A d \in Deployments :
    status[d] = "running" /\ AppOf[d] \notin busy \cup purged => Serves(d)

\* The routes of the proxy name running containers only: the old container is
\* removed after the new routes are delivered.
RouteServes ==
  \A a \in Apps \ purged : \A s \in route[a] :
    DeploymentsOf(a) \cap HostPort = {} => cont[s[1]][s[2]] = "running"

\* A deployment that ended keeps its result, until its app is deleted.
FinishedStays ==
  [][\A d \in Deployments : status[d] \in Finished =>
       \/ status'[d] \in {status[d], "none"}
       \/ status[d] = "running" /\ status'[d] = "superseded"]_vars

\* The platform as its users see it: the containers, the running rows and the routes.
Service == INSTANCE AppService WITH
  live   <- {s \in Deployments \X Targets : cont[s[1]][s[2]] = "running"},
  stage  <- [d \in Deployments |-> CASE status[d] = "running" -> "current"
                                     [] status[d] = "superseded" -> "past"
                                     [] OTHER -> "new"],
  routed <- route,
  gone   <- purged

\* Deploy implements AppService: an app with a running deployment has one until it is
\* deleted, traffic only goes to live deployments that passed their health check, and
\* nothing stops that is running or routed, also across crashes.
ImplementsService == Service!ServiceSpec

\* Every pipeline comes to its end and gives the app back.
TaskEnds == \A d \in Deployments : pc[d] = "start" ~> pc[d] = "done"

\* A webhook that was queued behind a busy app is taken from the queue, unless the app was
\* deleted: one that comes after forget_queued_hook stays there for ever.
QueuedRuns == \A a \in Apps : a \in queued ~> (a \notin queued \/ a \notin alive)

\* The part of it that does not depend on who takes the app next: no webhook
\* waits for ever behind an app that nothing holds.
QueuedNotStranded == \A a \in Apps : ~ <>[](a \in queued /\ a \in alive /\ a \notin busy)

-----------------------------------------------------------------------------
(* The inductive invariants behind OnePipeline and RunningServes.           *)

LockInv ==
  /\ \A d \in Deployments : pc[d] \in HeldPcs => AppOf[d] \in busy
  /\ \A a \in Apps : holder[a] \in HolderLocks => a \in busy
  /\ OnePipeline

\* The pcs at which a deployment may be the running one.
AfterFinish == {"publish", "drain", "end", "unlock", "drained", "hook", "done"}

BeforeLoop == {"idle", "locked", "inserted", "pendhook", "pendlock", "pend",
               "parked", "approving", "start", "permit", "build", "pull",
               "prepared", "stopold"}

\* The loop of deploy_targets accounts for every target: not reached, started
\* and healthy, or the one that is probed.
LoopAt(d) ==
  /\ pc[d] \in {"launch", "probe", "finish"} =>
       \A t \in started[d] : cont[d][t] = "running"
  /\ pc[d] \in BeforeLoop => started[d] = {}
  /\ pc[d] = "stopold" => d \in HostPort
  /\ pc[d] = "launch" => TargetsOf[d] \subseteq todo[d] \cup started[d]
  /\ pc[d] = "probe" => \A t, u \in Current(d) : t = u
  /\ pc[d] = "finish" => TargetsOf[d] \subseteq started[d]

LoopInv == \A d \in Deployments : LoopAt(d)

\* The pipeline that has the mutex of `sent` waits in publish.
PubInv ==
  pub.step # "free" /\ pub.owner \in Deployments => pc[pub.owner] = "publish"

SwitchInv ==
  \A d \in Deployments : status[d] = "running" =>
    /\ pc[d] \in AfterFinish
    /\ \A e \in DeploymentsOf(AppOf[d]) \ {d} : pc[e] \notin {"publish", "drain"}

\* A container of the running deployment is touched by nobody while another
\* pipeline of its app runs: LockInv excludes the other pipelines, LoopInv and
\* SwitchInv describe the one that runs.
ServeInv == LockInv /\ PubInv /\ LoopInv /\ SwitchInv /\ RunningServes

=============================================================================
