--------------------------- MODULE ComposeDeploy ---------------------------
(***************************************************************************)
(* The deployments of a Compose app, which recreate the traffic service in *)
(* place: the checkouts, `docker compose up` on one target after another,  *)
(* and the return to the previous deployment when a target fails.          *)
(* Source: r3v3rs3/src/platform/compose.rs, start_job_container,           *)
(* previous_compose, rollback_previous_compose and switch of               *)
(* platform/deploy.rs, and agent/compose.rs.                               *)
(*                                                                         *)
(* The app lock is held throughout (module Deploy), so that one job runs   *)
(* at a time.  An image deployment of the same app, after a change of its  *)
(* source, starts its containers in one step here: Deploy has its details. *)
(***************************************************************************)
EXTENDS Naturals, Sequences

CONSTANTS
  Places,         \* the targets
  TargetLists,    \* the target lists that an app may have
  MaxDeployments, \* bound on the deployments
  MaxBreaks       \* bound on the cancellations and crashes

ASSUME ComposeAssumption ==
  /\ TargetLists \subseteq Seq(Places) \ {<<>>} /\ TargetLists # {}
  /\ MaxDeployments \in Nat /\ MaxBreaks \in Nat

\* A branch is cloned, a commit (of a rollback) is fetched into a new repository, and
\* an image deployment is no Compose deployment.
Sources     == {"branch", "commit", "image"}
Deployments == 1..MaxDeployments
None        == 0

VARIABLES
  deployments, \* how many deployments there were
  source,    \* [Deployments -> Sources]
  targets,   \* [Deployments -> TargetLists], of the spec of the deployment
  runs,      \* the deployment whose row says running, or None
  unit,      \* [Places -> the deployment whose traffic service the project runs, or None]
  images,    \* [Places -> the image deployments with a container]
  checkouts, \* the deployments with a checkout in the directory of the app
  routed,    \* [Places -> the deployment whose container the routes reach, or None]
  pipe,      \* the job
  breaks,    \* how many cancellations and crashes there were
  touched,   \* history: what the code does not undo has touched the containers
  unread     \* history: the last publish could not read every container

composeVars == <<deployments, source, targets, runs, unit, images, checkouts, routed, pipe,
                 breaks, touched, unread>>

PipePcs == {"idle", "image", "prepare", "up", "wait", "undo", "routes", "tidy", "finish",
           "publish", "remove", "retain"}
NoPipe  == [pc |-> "idle", d |-> None, i |-> 1, started |-> FALSE, prev |-> None,
           drop |-> FALSE]

\* The targets of a deployment, whatever their order.
TargetSet(n) == {targets[n][i] : i \in DOMAIN targets[n]}

IsCompose(n) == n # None /\ source[n] # "image"
Place        == targets[pipe.d][pipe.i]
LastPlace    == pipe.i = Len(targets[pipe.d])
Continue(pc) == pipe' = [pipe EXCEPT !.pc = pc]

-----------------------------------------------------------------------------
(* start_job_container.                                                     *)

\* previous_compose: nothing to return to unless the running deployment is a Compose one,
\* nor when the database, the key or a part of the environment cannot be read.
BeginJob ==
  /\ pipe.pc = "idle" /\ deployments < MaxDeployments
  /\ deployments' = deployments + 1
  /\ \E s \in Sources, ts \in TargetLists, prev \in {runs, None} :
       /\ source' = [source EXCEPT ![deployments + 1] = s]
       /\ targets' = [targets EXCEPT ![deployments + 1] = ts]
       /\ pipe' = [NoPipe EXCEPT !.pc = IF s = "image" THEN "image" ELSE "prepare",
                               !.d = deployments + 1,
                               !.prev = IF IsCompose(prev) THEN prev ELSE None]
  /\ UNCHANGED <<runs, unit, images, checkouts, routed, breaks, touched, unread>>

\* prepare_compose.  `git clone` refuses the directory of an earlier target.
Prepare ==
  /\ pipe.pc = "prepare"
  /\ source[pipe.d] = "branch" => pipe.d \notin checkouts
  /\ checkouts' = checkouts \union {pipe.d}
  /\ Continue("up")
  /\ UNCHANGED <<deployments, source, targets, runs, unit, images, routed, breaks, touched,
                 unread>>

GoBackAlways(tidy) ==
  pipe' = IF pipe.started THEN [pipe EXCEPT !.pc = "undo", !.i = 1, !.drop = tidy]
          ELSE IF tidy THEN [pipe EXCEPT !.pc = "tidy"] ELSE NoPipe

\* The job has failed: back to the previous deployment if a target was started.
GoBack(tidy) ==
  pipe' = IF pipe.started /\ pipe.prev # None
           THEN [pipe EXCEPT !.pc = "undo", !.i = 1, !.drop = tidy]
           ELSE IF tidy THEN [pipe EXCEPT !.pc = "tidy"] ELSE NoPipe

\* Started in place of a Compose deployment that previous_compose has not found.
Lost == pipe.started /\ pipe.prev = None /\ IsCompose(runs)

PrepareFails ==
  /\ pipe.pc = "prepare"
  /\ checkouts' = checkouts \ {pipe.d}
  /\ GoBack(FALSE)
  /\ touched' = (touched \/ Lost)
  /\ UNCHANGED <<deployments, source, targets, runs, unit, images, routed, breaks, unread>>

\* `docker compose up` of the deployment n at p.  A container that is recreated has
\* another port, so the routes to the one before it lead nowhere.
ComposeUp(n, p) ==
  /\ unit' = [unit EXCEPT ![p] = n]
  /\ routed' = [routed EXCEPT ![p] = IF unit[p] # n /\ @ = unit[p] THEN None ELSE @]

UpDropsOthers ==
  /\ pipe.pc = "up"
  /\ ComposeUp(pipe.d, Place)
  /\ pipe' = [pipe EXCEPT !.pc = "wait", !.started = TRUE]
  /\ checkouts' = {pipe.d}
  /\ UNCHANGED <<deployments, source, targets, runs, images, breaks, touched, unread>>

UpUnmarked ==
  /\ pipe.pc = "up"
  /\ ComposeUp(pipe.d, Place)
  /\ Continue("wait")
  /\ UNCHANGED <<deployments, source, targets, runs, images, checkouts, breaks, touched,
                 unread>>

Up ==
  /\ pipe.pc = "up"
  /\ ComposeUp(pipe.d, Place)
  /\ pipe' = [pipe EXCEPT !.pc = "wait", !.started = TRUE]
  /\ UNCHANGED <<deployments, source, targets, runs, images, checkouts, breaks, touched,
                 unread>>

\* It fails before or after the old container is gone, or the new one is there.  The
\* first target of a job is not undone.
UpFails ==
  /\ pipe.pc = "up"
  /\ \E n \in {unit[Place], None, pipe.d} :
       /\ ComposeUp(n, Place)
       /\ touched' = (touched \/ Lost \/ (n # unit[Place] /\ ~pipe.started))
  /\ GoBack(FALSE)
  /\ UNCHANGED <<deployments, source, targets, runs, images, checkouts, breaks, unread>>

\* wait_healthy.
Healthy ==
  /\ pipe.pc = "wait"
  /\ pipe' = IF LastPlace THEN [pipe EXCEPT !.pc = "finish"]
            ELSE [pipe EXCEPT !.pc = "prepare", !.i = @ + 1]
  /\ UNCHANGED <<deployments, source, targets, runs, unit, images, checkouts, routed, breaks,
                 touched, unread>>

Unhealthy ==
  /\ pipe.pc = "wait"
  /\ GoBack(TRUE)
  /\ touched' = (touched \/ Lost)
  /\ UNCHANGED <<deployments, source, targets, runs, unit, images, checkouts, routed, breaks,
                 unread>>

-----------------------------------------------------------------------------
(* rollback_previous_compose, on the targets of the previous deployment.  Its *)
(* checkout is there (CheckoutStays), so rollback_compose never prepares it   *)
(* again, which would mark the running deployment as building.                *)

UndoPlace == targets[pipe.prev][pipe.i]

UndoNext ==
  pipe' = IF pipe.i = Len(targets[pipe.prev]) THEN [pipe EXCEPT !.pc = "routes"]
         ELSE [pipe EXCEPT !.i = @ + 1]

Rollback ==
  /\ pipe.pc = "undo" /\ pipe.prev \in checkouts
  /\ ComposeUp(pipe.prev, UndoPlace)
  /\ UndoNext
  /\ UNCHANGED <<deployments, source, targets, runs, images, checkouts, breaks, touched,
                 unread>>

\* A target that cannot be taken back is logged.
RollbackFails ==
  /\ pipe.pc = "undo"
  /\ UndoNext
  /\ touched' = TRUE
  /\ UNCHANGED <<deployments, source, targets, runs, unit, images, checkouts, routed, breaks,
                 unread>>

\* read_proxies: the containers of the running deployment, at its targets.
Present(n, p) == IF IsCompose(n) THEN unit[p] = n ELSE n \in images[p]
Routes ==
  [p \in Places |->
     IF runs # None /\ p \in TargetSet(runs) /\ Present(runs, p)
       THEN runs ELSE None]

\* publish.  An error leaves the routes as they are; an agent that does not answer keeps
\* the port of its forwarder or has none.
Publish ==
  \/ routed' = Routes /\ unread' = FALSE
  \/ UNCHANGED routed /\ unread' = TRUE
  \/ /\ \E R \in [Places -> {runs, None}] :
          routed' = [p \in Places |->
            IF runs # None /\ p \in TargetSet(runs) THEN R[p] ELSE None]
     /\ unread' = TRUE

SkipRollbackRoutes ==
  /\ pipe.pc = "routes"
  /\ pipe' = IF pipe.drop THEN [pipe EXCEPT !.pc = "tidy"] ELSE NoPipe
  /\ UNCHANGED <<deployments, source, targets, runs, unit, images, checkouts, routed, breaks,
                 touched, unread>>

\* The publish at the end.
RollbackRoutes ==
  /\ pipe.pc = "routes"
  /\ Publish
  /\ pipe' = IF pipe.drop THEN [pipe EXCEPT !.pc = "tidy"] ELSE NoPipe
  /\ UNCHANGED <<deployments, source, targets, runs, unit, images, checkouts, breaks,
                 touched>>

\* The checkout of a deployment that is not healthy.
Tidy ==
  /\ pipe.pc = "tidy"
  /\ checkouts' = checkouts \ {pipe.d}
  /\ pipe' = NoPipe
  /\ UNCHANGED <<deployments, source, targets, runs, unit, images, routed, breaks, touched,
                 unread>>

-----------------------------------------------------------------------------
(* switch.                                                                  *)

\* start_container of an image deployment, with all its targets.
ImageStarts ==
  /\ pipe.pc = "image"
  /\ images' = [p \in Places |-> IF p \in TargetSet(pipe.d) THEN images[p] \union {pipe.d}
                                 ELSE images[p]]
  /\ Continue("finish")
  /\ UNCHANGED <<deployments, source, targets, runs, unit, checkouts, routed, breaks,
                 touched, unread>>

ImageFails ==
  /\ pipe.pc = "image"
  /\ pipe' = NoPipe
  /\ UNCHANGED <<deployments, source, targets, runs, unit, images, checkouts, routed, breaks,
                 touched, unread>>

\* finish_deployment.
FinishJob ==
  /\ pipe.pc = "finish"
  /\ runs' = pipe.d
  /\ touched' = FALSE
  /\ Continue("publish")
  /\ UNCHANGED <<deployments, source, targets, unit, images, checkouts, routed, breaks,
                 unread>>

\* The database fails: nothing takes the containers back.
FinishFails ==
  /\ pipe.pc = "finish"
  /\ pipe' = NoPipe
  /\ touched' = (touched \/ source[pipe.d] # "image")
  /\ UNCHANGED <<deployments, source, targets, runs, unit, images, checkouts, routed, breaks,
                 unread>>

PublishJob ==
  /\ pipe.pc = "publish"
  /\ Publish
  /\ pipe' = [pipe EXCEPT !.pc = "remove", !.i = 1]
  /\ UNCHANGED <<deployments, source, targets, runs, unit, images, checkouts, breaks,
                 touched>>

\* The next target of switch, or its end.
SwitchNext ==
  pipe' = IF LastPlace THEN NoPipe ELSE [pipe EXCEPT !.pc = "remove", !.i = @ + 1]

\* remove_containers: the other containers of the app.
RemoveContainers ==
  /\ images' = [images EXCEPT ![Place] = @ \intersect {pipe.d}]
  /\ unit' = [unit EXCEPT ![Place] = IF @ = pipe.d THEN @ ELSE None]

\* remove_old: a deployment of another kind also removes the Compose project with its
\* checkouts.
RemoveOld ==
  /\ pipe.pc = "remove"
  /\ RemoveContainers
  /\ IF IsCompose(pipe.d) THEN Continue("retain") /\ UNCHANGED checkouts
     ELSE SwitchNext /\ checkouts' = {}
  /\ UNCHANGED <<deployments, source, targets, runs, routed, breaks, touched, unread>>

\* It fails, with or without the containers: the old ones are logged and stay.
RemoveOldFails ==
  /\ pipe.pc = "remove"
  /\ RemoveContainers \/ UNCHANGED <<unit, images>>
  /\ IF IsCompose(pipe.d) THEN Continue("retain") ELSE SwitchNext
  /\ UNCHANGED <<deployments, source, targets, runs, checkouts, routed, breaks, touched,
                 unread>>

\* retain, which an agent that is offline fails.
Retain ==
  /\ pipe.pc = "retain"
  /\ \/ checkouts' = checkouts \intersect {pipe.d}
     \/ UNCHANGED checkouts
  /\ SwitchNext
  /\ UNCHANGED <<deployments, source, targets, runs, unit, images, routed, breaks, touched,
                 unread>>

-----------------------------------------------------------------------------
\* publish of another app, at any time.
OtherPublish ==
  /\ Publish
  /\ UNCHANGED <<deployments, source, targets, runs, unit, images, checkouts, pipe, breaks,
                 touched>>

\* cleanup_cancelled_job: the container of the job goes, and no other one comes back.
CancelJob ==
  /\ pipe.pc # "idle" /\ breaks < MaxBreaks
  /\ breaks' = breaks + 1
  /\ LET Own == TargetSet(pipe.d)
     IN /\ unit' = [p \in Places |-> IF p \in Own /\ unit[p] = pipe.d THEN None ELSE unit[p]]
        /\ images' = [p \in Places |-> IF p \in Own THEN images[p] \ {pipe.d} ELSE images[p]]
        /\ routed' = [p \in Places |-> IF p \in Own /\ routed[p] = pipe.d THEN None
                                       ELSE routed[p]]
  /\ pipe' = NoPipe
  /\ touched' = TRUE
  /\ UNCHANGED <<deployments, source, targets, runs, checkouts, unread>>

\* The process stops and starts again: a job is not continued, and the routes are read.
\* Without them there is none.
CrashJob ==
  /\ pipe.pc # "idle" /\ breaks < MaxBreaks
  /\ breaks' = breaks + 1
  /\ pipe' = NoPipe
  /\ \/ routed' = Routes /\ unread' = FALSE
     \/ routed' = [p \in Places |-> None] /\ unread' = TRUE
  /\ touched' = TRUE
  /\ UNCHANGED <<deployments, source, targets, runs, unit, images, checkouts>>

-----------------------------------------------------------------------------
ComposeInit ==
  /\ deployments = 0
  /\ source = [n \in Deployments |-> "image"]
  /\ targets = [n \in Deployments |-> CHOOSE ts \in TargetLists : TRUE]
  /\ runs = None /\ unit = [p \in Places |-> None] /\ images = [p \in Places |-> {}]
  /\ checkouts = {} /\ routed = [p \in Places |-> None]
  /\ pipe = NoPipe /\ breaks = 0 /\ touched = FALSE /\ unread = FALSE

ComposeNext ==
  \/ BeginJob \/ Prepare \/ PrepareFails \/ Up \/ UpFails \/ Healthy \/ Unhealthy
  \/ Rollback \/ RollbackFails \/ RollbackRoutes \/ Tidy
  \/ ImageStarts \/ ImageFails \/ FinishJob \/ FinishFails \/ PublishJob
  \/ RemoveOld \/ RemoveOldFails \/ Retain
  \/ OtherPublish \/ CancelJob \/ CrashJob

ComposeSpec == ComposeInit /\ [][ComposeNext]_composeVars

-----------------------------------------------------------------------------
ComposeTypeOK ==
  /\ deployments \in 0..MaxDeployments /\ source \in [Deployments -> Sources]
  /\ targets \in [Deployments -> TargetLists] /\ runs \in 0..deployments
  /\ unit \in [Places -> 0..deployments] /\ images \in [Places -> SUBSET Deployments]
  /\ checkouts \subseteq 1..deployments /\ routed \in [Places -> 0..deployments]
  /\ pipe \in [pc : PipePcs, d : 0..deployments, i : Nat \ {0}, started : BOOLEAN,
               prev : 0..deployments, drop : BOOLEAN]
  /\ (pipe.pc = "undo") => (pipe.prev # None)
  /\ breaks \in 0..MaxBreaks /\ touched \in BOOLEAN /\ unread \in BOOLEAN

\* The checkout of a running Compose deployment stays, because its services can mount the
\* files (COMPOSE_DIR of compose.rs): through failed deployments, cancellations, crashes
\* and changes of the source.
CheckoutStays == IsCompose(runs) => runs \in checkouts

\* A deployment that fails leaves the containers of the running deployment on all its
\* targets, although `up` has replaced them on some (rollback_previous_compose).  The
\* exceptions: previous_compose has not found it, `up` or the return has failed at a
\* target, a cancellation, a crash, and a row that could not be written.
ComposeServes ==
  (pipe.pc = "idle" /\ ~touched /\ runs # None) =>
    \A p \in TargetSet(runs) : Present(runs, p)

\* And the routes lead to the containers that are there then, once a publish has read
\* them all.
RoutesReach ==
  (pipe.pc = "idle" /\ ~touched /\ ~unread /\ runs # None) =>
    \A p \in TargetSet(runs) : routed[p] = runs

\* The running Compose deployment keeps its files, its containers and its routes through
\* whatever happens to the next ones.
ComposeKept == ComposeTypeOK /\ CheckoutStays /\ ComposeServes /\ RoutesReach
=============================================================================
