--------------------------- MODULE ServiceProofs ---------------------------
(***************************************************************************)
(* What the rows of Deploy tell about its tasks, the switch with a fixed   *)
(* host port, and that Deploy implements AppService, for every set of      *)
(* apps, deployments and targets.                                          *)
(***************************************************************************)
EXTENDS DeployProofs

USE DEF rowVars, loopVars, tokVars, pubVars, envVars

-----------------------------------------------------------------------------
(* The rows and the tasks.                                                  *)

\* Where the code of a deployment is before it has a row, and between the row and the
\* switch.
Early  == {"idle", "locked", "pendhook", "pendlock", "pend"}
Middle == {"inserted", "start", "permit", "build", "pull", "prepared", "stopold", "launch",
           "probe", "undo", "restart", "fail", "finish"}
\* The rows of the deployments that are or were current.
Past == {"running", "superseded"}

\* The status s and the place w of the code of a deployment fit.  A row in progress may
\* be without a task only if a call of the store has failed.
Fits(w, s) ==
  /\ w \in Early => s = "none"
  /\ w \in Middle => s \in Active
  /\ w \in {"publish", "drain"} => s = "running"
  /\ s \in Past => w \in AfterFinish
  /\ MayFail("store") \/ (s \in Active => w \in Middle)

RowInv == \A d \in Deployments : Fits(pc[d], status[d])

\* The step of FinishedStays.
RowsKept ==
  \A d \in Deployments : status[d] \in Finished =>
    \/ status'[d] \in {status[d], "none"}
    \/ status[d] = "running" /\ status'[d] = "superseded"

\* A step that leaves every row and moves no deployment.
LEMMA RowSame ==
  ASSUME RowInv, UNCHANGED <<status, pc>> PROVE RowInv' /\ RowsKept
BY DEF RowInv, RowsKept

\* A step of d that writes no row but its own.
LEMMA RowMoves ==
  ASSUME TypeOK, RowInv, NEW d \in Deployments, NEW w, Goto(d, w),
         \A e \in Deployments \ {d} : status'[e] = status[e],
         Fits(w, status'[d]),
         status[d] \in Finished => status'[d] = status[d]
  PROVE  RowInv' /\ RowsKept
<1>1. \A x \in Deployments : pc'[x] = IF x = d THEN w ELSE pc[x]
  BY DEF TypeOK, Goto
<1>2. RowInv' BY <1>1 DEF RowInv
<1>3. RowsKept BY DEF RowsKept
<1> QED BY <1>2, <1>3

\* A step of d that writes no row at all.
LEMMA RowGoes ==
  ASSUME TypeOK, RowInv, NEW d \in Deployments, NEW w, Goto(d, w), UNCHANGED status,
         Fits(w, status[d])
  PROVE  RowInv' /\ RowsKept
BY RowMoves

\* The pipeline between the row and the switch has a row in progress.
LEMMA RowMiddle ==
  ASSUME TypeOK, RowInv, NEW d \in Deployments, pc[d] \in Middle,
         NEW w \in Middle, Goto(d, w),
         UNCHANGED status \/ \E s \in Active : SetStatus(d, s)
  PROVE  RowInv' /\ RowsKept
<1>1. status[d] \in Active BY DEF RowInv, Fits
<1>2. status \in [Deployments -> Statuses] BY DEF TypeOK
<1>3. \A e \in Deployments \ {d} : status'[e] = status[e] BY <1>2 DEF SetStatus
<1>4. status'[d] \in Active
  BY <1>1, <1>2 DEF SetStatus, Active
<1>5. Fits(w, status'[d])
  BY <1>4 DEF Fits, Early, Middle, Past, Active
<1>6. status[d] \notin Finished BY <1>1 DEF Active, Finished
<1> QED BY <1>3, <1>5, <1>6, RowMoves

\* The requests write a row where there is none, and change one that waits for approval.
LEMMA RequestRow ==
  ASSUME TypeOK, RowInv, NEW d \in Deployments, Request(d)
  PROVE  RowInv' /\ RowsKept
<1>s. status \in [Deployments -> Statuses] BY DEF TypeOK
<1>f. Fits(pc[d], status[d]) BY DEF RowInv
<1>1. CASE DeployRequest(d)
  BY <1>1, <1>f, RowGoes DEF DeployRequest, LockFor, Fits, Early, Middle, Past, Active
<1>2. CASE InsertRow(d)
  <2>1. pc[d] = "locked" /\ status[d] = "none" BY <1>2, <1>f DEF InsertRow, Fits, Early
  <2>2. CASE status' = [status EXCEPT ![d] = "queued"] /\ Goto(d, "inserted")
    BY <1>s, <2>1, <2>2, RowMoves DEF Fits, Early, Middle, Past, Active, Finished
  <2>3. CASE Goto(d, "done") /\ UNCHANGED status
    BY <2>1, <2>3, RowGoes DEF Fits, Early, Middle, Past, Active
  <2> QED BY <1>2, <2>2, <2>3 DEF InsertRow, Unlock
<1>3. CASE SpawnJob(d)
  <2>1. pc[d] = "inserted" /\ UNCHANGED status BY <1>3 DEF SpawnJob
  <2>2. CASE Goto(d, "start") BY <2>1, <2>2, RowMiddle DEF Middle
  <2>3. CASE Goto(d, "done") /\ MayFail("store")
    BY <2>1, <2>3, RowGoes DEF Fits, Early, Middle, Past, AfterFinish
  <2> QED BY <1>3, <2>2, <2>3 DEF SpawnJob, Unlock
<1>4. CASE PendUnlock(d)
  BY <1>4, <1>f, RowGoes DEF PendUnlock, Unlock, Fits, Early, Middle, Past, Active
<1>5. CASE InsertPending(d)
  <2>1. pc[d] = "pend" /\ status[d] = "none"
    BY <1>5, <1>f DEF InsertPending, Fits, Early
  <2>2. CASE status' = [status EXCEPT ![d] = "pending_approval"] /\ Goto(d, "parked")
    BY <1>s, <2>1, <2>2, RowMoves DEF Fits, Early, Middle, Past, Active, Finished
  <2>3. CASE Goto(d, "done") /\ UNCHANGED status
    BY <2>1, <2>3, RowGoes DEF Fits, Early, Middle, Past, Active
  <2> QED BY <1>5, <2>2, <2>3 DEF InsertPending
<1>6. CASE ApproveLock(d)
  BY <1>6, <1>f, RowGoes
     DEF ApproveLock, LockFor, Fits, Early, Middle, Past, AfterFinish
<1>7. CASE ApproveUpdate(d)
  <2>1. pc[d] = "approving" BY <1>7 DEF ApproveUpdate
  <2>2. CASE status[d] = "pending_approval" /\ SetStatus(d, "queued") /\ Goto(d, "start")
    BY <1>s, <2>2, RowMoves DEF SetStatus, Fits, Early, Middle, Past, Active, Finished
  <2>3. CASE Goto(d, "parked") /\ UNCHANGED status
    BY <1>f, <2>1, <2>3, RowGoes DEF Fits, Early, Middle, Past, AfterFinish
  <2> QED BY <1>7, <2>2, <2>3 DEF ApproveUpdate, Unlock
<1>8. CASE Reject(d)
  <2>1. status[d] = "pending_approval" /\ UNCHANGED pc BY <1>8 DEF Reject
  <2>2. \A x \in Deployments : status'[x] = IF x = d THEN "cancelled" ELSE status[x]
    BY <1>8, <1>s, <2>1 DEF Reject, SetStatus
  <2>3. Fits(pc[d], "cancelled")
    BY <1>f, <2>1 DEF Fits, Early, Middle, Past, Active
  <2>4. RowInv' BY <2>1, <2>2, <2>3 DEF RowInv
  <2>5. RowsKept BY <2>1, <2>2 DEF RowsKept, Finished
  <2> QED BY <2>4, <2>5
<1>9. ASSUME NEW s \in Deployments, RollbackRequest(d, s) PROVE RowInv' /\ RowsKept
  BY <1>9, <1>f, RowGoes
     DEF RollbackRequest, LockFor, Fits, Early, Middle, Past, Active
<1> QED BY <1>1, <1>2, <1>3, <1>4, <1>5, <1>6, <1>7, <1>8, <1>9 DEF Request

\* From its start to the switch the pipeline moves a row in progress on.
LEMMA PipelineRow ==
  ASSUME TypeOK, RowInv, NEW d \in Deployments,
         \/ Start(d) \/ AcquirePermit(d) \/ Built(d) \/ Pulled(d) \/ Record(d)
         \/ Undo(d) \/ RestartStopped(d)
         \/ \E t \in Targets :
              StopOld(d, t) \/ Launch(d, t) \/ ProbeOk(d, t) \/ ProbeFail(d, t)
  PROVE  RowInv' /\ RowsKept
<1>1. CASE Start(d) BY <1>1, RowMiddle DEF Start, Middle, Active
<1>2. CASE AcquirePermit(d) BY <1>2, RowMiddle DEF AcquirePermit, Middle
<1>3. CASE Built(d) BY <1>3, RowMiddle DEF Built, Middle, Active
<1>4. CASE Pulled(d) BY <1>4, RowMiddle DEF Pulled, Middle
<1>5. CASE Record(d) BY <1>5, RowMiddle DEF Record, Middle
<1>6. CASE Undo(d) BY <1>6, RowMiddle, RowSame DEF Undo, Middle
<1>7. CASE RestartStopped(d) BY <1>7, RowMiddle, RowSame DEF RestartStopped, Middle
<1>8. ASSUME NEW t \in Targets, StopOld(d, t) PROVE RowInv' /\ RowsKept
  BY <1>8, RowMiddle, RowSame DEF StopOld, Middle
<1>9. ASSUME NEW t \in Targets, Launch(d, t) PROVE RowInv' /\ RowsKept
  BY <1>9, RowMiddle DEF Launch, Middle
<1>10. ASSUME NEW t \in Targets, ProbeOk(d, t) \/ ProbeFail(d, t)
       PROVE  RowInv' /\ RowsKept
  BY <1>10, RowMiddle DEF ProbeOk, ProbeFail, Middle
<1> QED BY <1>1, <1>2, <1>3, <1>4, <1>5, <1>6, <1>7, <1>8, <1>9, <1>10

\* The switch ends the row of the deployment that was current, which is not on its way
\* to the drain: d has the app.
LEMMA FinishRow ==
  ASSUME TypeOK, LockInv, RowInv, NEW d \in Deployments, Finish(d)
  PROVE  RowInv' /\ RowsKept
<1>s. status \in [Deployments -> Statuses] BY DEF TypeOK
<1>1. pc[d] = "finish" BY DEF Finish
<1>2. status[d] \in Active BY <1>1 DEF RowInv, Fits, Middle
<1>3. CASE Goto(d, "fail") /\ UNCHANGED status
  BY <1>1, <1>3, RowMiddle DEF Middle
<1>4. ASSUME Goto(d, "publish"),
             status' = [e \in Deployments |->
               IF e = d THEN (IF status[d] = "none" THEN "none" ELSE "running")
               ELSE IF AppOf[e] = AppOf[d] /\ status[e] = "running"
               THEN "superseded" ELSE status[e]]
      PROVE  RowInv' /\ RowsKept
  <2>1. \A x \in Deployments : pc'[x] = IF x = d THEN "publish" ELSE pc[x]
    BY <1>4 DEF TypeOK, Goto
  <2>2. status'[d] = "running" BY <1>2, <1>4 DEF Active
  <2>3. RowsKept BY <1>2, <1>4 DEF RowsKept, Active, Finished
  <2>4. ASSUME NEW e \in Deployments, e # d PROVE Fits(pc'[e], status'[e])
    <3>1. Fits(pc[e], status[e]) BY DEF RowInv
    <3>2. CASE AppOf[e] = AppOf[d] /\ status[e] = "running"
      <4>1. pc[e] \notin HeldPcs BY <1>1, <2>4, <3>2, Alone, HeldNames
      <4>2. pc[e] \in AfterFinish BY <3>1, <3>2 DEF Fits, Past
      <4>3. pc'[e] = pc[e] /\ status'[e] = "superseded" BY <1>4, <2>1, <2>4, <3>2
      <4> QED BY <4>1, <4>2, <4>3, HeldNames
              DEF Fits, Early, Middle, Past, Active, AfterFinish
    <3>3. CASE ~(AppOf[e] = AppOf[d] /\ status[e] = "running")
      BY <1>4, <2>1, <2>4, <3>1, <3>3
    <3> QED BY <3>2, <3>3
  <2>5. Fits(pc'[d], status'[d])
    BY <2>1, <2>2 DEF Fits, Early, Middle, Past, Active, AfterFinish
  <2> QED BY <2>3, <2>4, <2>5 DEF RowInv
<1> QED BY <1>3, <1>4 DEF Finish

\* The error path ends the row that is in progress; the rest of the task leaves it.
LEMMA EndRow ==
  ASSUME TypeOK, RowInv, NEW d \in Deployments,
         \/ Fail(d) \/ RemoveOld(d) \/ RemoveToken(d) \/ UnlockJob(d)
         \/ PendHook(d) \/ Drained(d) \/ RunHook(d)
  PROVE  RowInv' /\ RowsKept
<1>s. status \in [Deployments -> Statuses] BY DEF TypeOK
<1>f. Fits(pc[d], status[d]) BY DEF RowInv
<1>1. CASE Fail(d)
  <2>1. pc[d] = "fail" /\ Goto(d, "end") BY <1>1 DEF Fail
  <2>2. status[d] \in Active BY <1>f, <2>1 DEF Fits, Middle
  <2>3. CASE SetStatus(d, "failed")
    <3>1. \A x \in Deployments : status'[x] = IF x = d THEN "failed" ELSE status[x]
      BY <1>s, <2>2, <2>3 DEF SetStatus, Active
    <3> QED BY <2>1, <2>2, <3>1, RowMoves DEF Fits, Early, Middle, Past, Active, Finished
  <2>4. CASE MayFail("store") /\ UNCHANGED status
    BY <2>1, <2>2, <2>4, RowGoes DEF Fits, Early, Middle, Past, Active
  <2> QED BY <1>1, <2>3, <2>4 DEF Fail
<1>2. CASE RemoveOld(d) \/ RemoveToken(d) \/ UnlockJob(d)
  <2>1. UNCHANGED status /\ pc[d] \in {"drain", "end", "unlock"}
    BY <1>2 DEF RemoveOld, RemoveToken, UnlockJob
  <2>2. pc' = pc \/ \E w \in {"end", "unlock", "drained"} : Goto(d, w)
    BY <1>2 DEF RemoveOld, RemoveToken, UnlockJob, Unlock
  <2>3. ASSUME NEW w \in {"end", "unlock", "drained"}, Goto(d, w)
        PROVE  RowInv' /\ RowsKept
    BY <1>f, <2>1, <2>3, RowGoes DEF Fits, Early, Middle, Past, Active, AfterFinish
  <2> QED BY <2>1, <2>2, <2>3, RowSame
<1>3. CASE PendHook(d) \/ Drained(d)
  BY <1>3, <1>f, RowGoes
     DEF PendHook, Drained, Dequeue, Fits, Early, Middle, Past, Active, AfterFinish
<1>4. CASE RunHook(d)
  <2> DEFINE next == IF pc[d] = "hook" THEN "done" ELSE "pend"
  <2>1. UNCHANGED status /\ pc[d] \in {"hook", "pendlock"} BY <1>4 DEF RunHook
  <2>2. Fits(next, status[d])
    BY <1>f, <2>1 DEF Fits, Early, Middle, Past, Active, AfterFinish
  <2>3. CASE Goto(d, next) BY <2>1, <2>2, <2>3, RowGoes
  <2>4. ASSUME NEW e \in Fresh(AppOf[d]), pc' = [pc EXCEPT ![d] = next, ![e] = "locked"]
        PROVE  RowInv' /\ RowsKept
    <3>1. e \in Deployments /\ pc[e] = "idle" BY <2>4 DEF Fresh, DeploymentsOf
    <3>2. \A x \in Deployments :
            pc'[x] = IF x = e THEN "locked" ELSE IF x = d THEN next ELSE pc[x]
      BY <2>1, <2>4, <3>1 DEF TypeOK
    <3>3. Fits("locked", status[e])
      BY <3>1 DEF RowInv, Fits, Early, Middle, Past, Active
    <3> HIDE DEF next
    <3>4. RowInv' BY <2>1, <2>2, <3>2, <3>3 DEF RowInv
    <3> QED BY <2>1, <3>4 DEF RowsKept
  <2> QED BY <1>4, <2>3, <2>4 DEF RunHook
<1> QED BY <1>1, <1>2, <1>3, <1>4

\* What a step of the publisher does to the deployments.
LEMMA PublishMoves ==
  ASSUME PubInv, Publish
  PROVE  \/ pc' = pc
         \/ /\ pub.owner \in Deployments /\ pc[pub.owner] = "publish"
            /\ Goto(pub.owner, "drain")
BY DEF Publish, PubRead, PubRecord, PubDeliver, PubError, PubDone, Goto, PubInv

\* The publishers write no row, a deletion writes the rows of an app that no task has, and
\* a restart ends the rows whose tasks it loses.
LEMMA OtherRow ==
  ASSUME TypeOK, LockInv, PubInv, RowInv,
         \/ Publish \/ Restart
         \/ \E a \in Apps : HookQueued(a) \/ HoldApp(a) \/ ReleaseApp(a) \/ Delete(a)
  PROVE  RowInv' /\ RowsKept
<1>s. status \in [Deployments -> Statuses] BY DEF TypeOK
<1>1. CASE Publish
  <2>1. UNCHANGED status
    BY <1>1 DEF Publish, PubRead, PubRecord, PubDeliver, PubError
  <2>2. ASSUME NEW d \in Deployments, pc[d] = "publish", Goto(d, "drain")
        PROVE  RowInv' /\ RowsKept
    <3>1. Fits("drain", status[d])
      BY <2>2 DEF RowInv, Fits, Early, Middle, Past, Active, AfterFinish
    <3> QED BY <2>1, <2>2, <3>1, RowGoes
  <2> QED BY <1>1, <2>1, <2>2, PublishMoves, RowSame
<1>2. CASE Restart
  <2>1. ASSUME NEW d \in Deployments PROVE Fits(pc'[d], status'[d])
    <3>1. Fits(pc[d], status[d]) BY DEF RowInv
    <3>2. status'[d] = AfterRestart(status[d])
          /\ pc'[d] = IF pc[d] = "idle" THEN "idle"
                      ELSE IF status[d] = "pending_approval" THEN "parked" ELSE "done"
      BY <1>2 DEF Restart
    <3>3. CASE pc[d] = "idle"
      BY <3>1, <3>2, <3>3 DEF Fits, AfterRestart, Early, Middle, Past, Active
    <3>4. CASE pc[d] # "idle"
      BY <3>2, <3>4 DEF Fits, AfterRestart, Early, Middle, Past, Active, AfterFinish
    <3> QED BY <3>3, <3>4
  <2>2. RowsKept
    BY <1>2 DEF Restart, AfterRestart, RowsKept, Active, Finished
  <2> QED BY <2>1, <2>2 DEF RowInv
<1>3. ASSUME NEW a \in Apps, HookQueued(a) \/ HoldApp(a) \/ ReleaseApp(a)
      PROVE  RowInv' /\ RowsKept
  BY <1>3, RowSame DEF HookQueued, HoldApp, ReleaseApp
<1>4. ASSUME NEW a \in Apps, DeleteLock(a) \/ DeleteResources(a) \/ DeleteUnlock(a)
      PROVE  RowInv' /\ RowsKept
  BY <1>4, RowSame DEF DeleteLock, DeleteResources, DeleteUnlock
<1>5. ASSUME NEW a \in Apps, DeleteRows(a) PROVE RowInv' /\ RowsKept
  <2>1. holder[a] \in HolderLocks /\ UNCHANGED pc BY <1>5 DEF DeleteRows, HolderLocks
  <2>2. \A d \in Deployments : AppOf[d] = a => pc[d] \notin HeldPcs
    BY <2>1 DEF LockInv, OnePipeline
  <2>3. ASSUME NEW d \in Deployments
        PROVE  \/ status'[d] = status[d]
               \/ status'[d] = "none" /\ AppOf[d] = a
    BY <1>5 DEF DeleteRows
  <2>4. ASSUME NEW d \in Deployments PROVE Fits(pc'[d], status'[d])
    <3>1. Fits(pc[d], status[d]) BY DEF RowInv
    <3>2. CASE status'[d] = "none" /\ AppOf[d] = a
      BY <2>1, <2>2, <3>2, HeldNames DEF Fits, Early, Middle, Past, Active
    <3> QED BY <2>1, <2>3, <3>1, <3>2
  <2>5. RowsKept BY <2>3 DEF RowsKept
  <2> QED BY <2>4, <2>5 DEF RowInv
<1>6. ASSUME NEW a \in Apps, DeleteHook(a) PROVE RowInv' /\ RowsKept
  <2>1. UNCHANGED status BY <1>6 DEF DeleteHook
  <2>2. ASSUME NEW e \in Fresh(a), Goto(e, "locked") PROVE RowInv' /\ RowsKept
    <3>1. e \in Deployments /\ pc[e] = "idle" BY <2>2 DEF Fresh, DeploymentsOf
    <3>2. Fits("locked", status[e])
      BY <3>1 DEF RowInv, Fits, Early, Middle, Past, Active
    <3> QED BY <2>1, <2>2, <3>1, <3>2, RowGoes
  <2> QED BY <1>6, <2>1, <2>2, RowSame DEF DeleteHook
<1> QED BY <1>1, <1>2, <1>3, <1>4, <1>5, <1>6 DEF Delete

\* Every step keeps the rows in order and the results of the finished ones.
LEMMA NextRow ==
  ASSUME TypeOK, ServeInv, RowInv, [Next]_vars PROVE RowInv' /\ RowsKept
<1>1. LockInv /\ PubInv BY DEF ServeInv
<1>2. ASSUME NEW d \in Deployments, Job(d) PROVE RowInv' /\ RowsKept
  BY <1>1, <1>2, PipelineRow, FinishRow, EndRow DEF Job
<1>3. CASE UNCHANGED vars BY <1>3, RowSame DEF vars
<1> QED BY <1>1, <1>2, <1>3, RequestRow, OtherRow DEF Next

\* RowInv needs the lock and the publisher from ServeInv.
LEMMA RowInductive == Spec => [](TypeOK /\ ServeInv /\ RowInv)
<1>1. Init => RowInv
  BY DEF Init, RowInv, Fits, Early, Middle, Past, Active
<1>2. TypeOK /\ ServeInv /\ RowInv /\ [Next]_vars => RowInv'
  BY NextRow
<1> QED BY <1>1, <1>2, ServeInductive, PTL DEF Spec

\* Without cancel requests a deployment that ended keeps its result, although calls of the
\* store, the runtimes and the inspection fail and the server restarts: only the switch
\* to the next deployment and the deletion of the app write its row again.
THEOREM FinishedKept == Spec => FinishedStays
<1>1. TypeOK /\ ServeInv /\ RowInv /\ [Next]_vars => [RowsKept]_vars
  BY NextRow
<1>2. [RowsKept]_vars =>
        [\A d \in Deployments : status[d] \in Finished =>
           \/ status'[d] \in {status[d], "none"}
           \/ status[d] = "running" /\ status'[d] = "superseded"]_vars
  BY DEF RowsKept
<1> QED BY <1>1, <1>2, RowInductive, PTL DEF Spec, FinishedStays

\* If the store does not fail, a row in progress belongs to a task that has the app and
\* will end the row; a restart ends the rows of the tasks it loses.
THEOREM TasksOwnRows ==
  ASSUME ~MayFail("store") PROVE Spec => []ActiveHasTask
<1>1. RowInv => ActiveHasTask
  BY HeldNames DEF RowInv, Fits, Middle, ActiveHasTask
<1> QED BY <1>1, RowInductive, PTL

-----------------------------------------------------------------------------
(* The switch with a fixed host port: the old containers stop before the    *)
(* new ones start, and a failed switch starts them again.                   *)

\* No call of the runtimes or of the store fails, the server does not restart, and an
\* image with a fixed host port has one target.  Each of them is needed: a crash leaves
\* the old container stopped, and a pull that fails on the second target leaves the new
\* container of the first one on the port.
Undisturbed ==
  /\ MaxRestarts = 0 /\ ~MayFail("runtime") /\ ~MayFail("store")
  /\ \A d \in HostPort \ Git : \A t, u \in TargetsOf[d] : t = u

\* From the first stop to the switch, or to the restart of what was stopped.
Switching == {"stopold", "launch", "probe", "undo", "restart", "finish"}

\* The targets on which the container of d runs.
Up(d) == {t \in Targets : cont[d][t] = "running"}

\* The engine gives a host port to one container of an app.
PortOnce ==
  \A d, e \in HostPort : \A t \in Targets :
    AppOf[d] = AppOf[e] /\ t \in Up(d) /\ t \in Up(e) => d = e

\* What e has stopped: other deployments of its app that have been launched, at most one
\* with the port on each target, and while e may have to start it again the port is free
\* of everyone but e.
StopAt(e) ==
  /\ pc[e] \in BeforeLoop \ {"stopold"} => stopped[e] = {}
  /\ \A p \in stopped[e] :
       /\ AppOf[p[1]] = AppOf[e] /\ p[1] # e /\ pc[p[1]] \notin BeforeLoop
       /\ pc[e] = "stopold" => p[2] \notin todo[e]
       /\ p[1] \in HostPort => \A q \in stopped[e] :
            q[1] \in HostPort /\ q[2] = p[2] => q[1] = p[1]
       /\ pc[e] \in Switching /\ p[1] \in HostPort => \A x \in HostPort :
            AppOf[x] = AppOf[e] /\ p[2] \in Up(x) => x = e

\* Which containers of e run: those it has started, the one it probes, and none when it
\* gives the port back.
OwnAt(e) ==
  /\ pc[e] \in BeforeLoop => Up(e) = {}
  /\ pc[e] \in {"launch", "undo"} => Up(e) \subseteq started[e]
  /\ pc[e] = "probe" => Up(e) \subseteq started[e] \cup Current(e)
  /\ pc[e] = "restart" /\ e \in HostPort => Up(e) = {}
  /\ pc[e] \in {"stopold", "launch", "probe"} => todo[e] \subseteq TargetsOf[e]
  /\ pc[e] \in {"launch", "probe"} =>
       started[e] \subseteq TargetsOf[e] /\ todo[e] \cap started[e] = {}

SlotInv == PortOnce /\ \A e \in Deployments : StopAt(e) /\ OwnAt(e)

\* A container of the running deployment runs, or it is on the list of the pipeline that
\* stopped it.
Listed(d, t) == \E e \in Deployments :
  /\ AppOf[e] = AppOf[d] /\ e # d /\ pc[e] \in Switching
  /\ <<d, t>> \in stopped[e] /\ cont[d][t] = "stopped"

DownInv ==
  \A d \in Deployments : status[d] = "running" /\ AppOf[d] \notin purged =>
    \A t \in TargetsOf[d] : cont[d][t] = "running" \/ Listed(d, t)

\* A step changes the containers S on one target.
LEMMA UpSet ==
  ASSUME TypeOK, NEW S, NEW t \in Targets, NEW s, SetContainers(S, t, s),
         NEW x \in Deployments
  PROVE  /\ x \notin S => cont'[x] = cont[x] /\ Up(x)' = Up(x)
         /\ x \in S /\ s = "running" => Up(x)' = Up(x) \cup {t}
         /\ x \in S /\ s # "running" => Up(x)' = Up(x) \ {t}
<1>1. cont[x] \in [Targets -> ContStates] BY DEF TypeOK
<1>2. cont'[x] = IF x \in S THEN [cont[x] EXCEPT ![t] = s] ELSE cont[x]
  BY DEF SetContainers
<1>3. \A u \in Targets : cont'[x][u] = IF x \in S /\ u = t THEN s ELSE cont[x][u]
  BY <1>1, <1>2
<1> QED BY <1>2, <1>3 DEF Up

\* The container of d starts, or does not run afterwards.
LEMMA UpStart ==
  ASSUME TypeOK, NEW d \in Deployments, NEW t \in Targets, SetContainers({d}, t, "running")
  PROVE  /\ \A x \in Deployments \ {d} : cont'[x] = cont[x] /\ Up(x)' = Up(x)
         /\ Up(d)' = Up(d) \cup {t}
<1>1. ASSUME NEW x \in Deployments \ {d} PROVE cont'[x] = cont[x] /\ Up(x)' = Up(x)
  <2>1. x \notin {d} OBVIOUS
  <2> QED BY <2>1, UpSet
<1>2. d \in {d} OBVIOUS
<1>3. Up(d)' = Up(d) \cup {t} BY <1>2, UpSet
<1> QED BY <1>1, <1>3

LEMMA UpStop ==
  ASSUME TypeOK, NEW d \in Deployments, NEW t \in Targets,
         NEW s \in {"absent", "created"}, SetContainers({d}, t, s)
  PROVE  /\ \A x \in Deployments \ {d} : cont'[x] = cont[x] /\ Up(x)' = Up(x)
         /\ Up(d)' = Up(d) \ {t}
<1>1. ASSUME NEW x \in Deployments \ {d} PROVE cont'[x] = cont[x] /\ Up(x)' = Up(x)
  <2>1. x \notin {d} OBVIOUS
  <2> QED BY <2>1, UpSet
<1>2. d \in {d} /\ s # "running" OBVIOUS
<1>3. d \in {d} /\ s # "running" => Up(d)' = Up(d) \ {t} BY UpSet
<1>4. Up(d)' = Up(d) \ {t} BY <1>2, <1>3
<1> QED BY <1>1, <1>4

\* A step after which x has the same list and no container more, and is not further in
\* the switch.
Calm(x) ==
  /\ stopped'[x] = stopped[x] /\ Up(x)' \subseteq Up(x)
  /\ pc'[x] \in Switching => pc'[x] = pc[x] /\ todo'[x] = todo[x] /\ started'[x] = started[x]
  /\ pc'[x] \in BeforeLoop => pc'[x] = pc[x] \/ pc[x] \in BeforeLoop \ {"stopold"}

LEMMA CalmSlots ==
  ASSUME TypeOK, SlotInv, \A x \in Deployments : Calm(x) PROVE SlotInv'
<1> USE DeployAssumption
<1>1. PortOnce'
  <2> SUFFICES ASSUME NEW d \in HostPort, NEW e \in HostPort, NEW t \in Targets,
                      AppOf[d] = AppOf[e], t \in Up(d)', t \in Up(e)'
               PROVE  d = e
    BY DEF PortOnce
  <2>1. t \in Up(d) /\ t \in Up(e) BY DEF Calm
  <2> QED BY <2>1 DEF SlotInv, PortOnce
<1>2. ASSUME NEW e \in Deployments PROVE StopAt(e)'
  <2>0. StopAt(e) /\ Calm(e) BY DEF SlotInv
  <2>1. pc'[e] \in BeforeLoop \ {"stopold"} => stopped'[e] = {}
    BY <2>0 DEF StopAt, Calm
  <2>2. ASSUME NEW p \in stopped'[e]
        PROVE  /\ AppOf[p[1]] = AppOf[e] /\ p[1] # e /\ pc'[p[1]] \notin BeforeLoop
               /\ pc'[e] = "stopold" => p[2] \notin todo'[e]
               /\ p[1] \in HostPort => \A q \in stopped'[e] :
                    q[1] \in HostPort /\ q[2] = p[2] => q[1] = p[1]
    <3>1. p \in stopped[e] BY <2>0, <2>2 DEF Calm
    <3>2. p[1] \in Deployments BY <3>1 DEF TypeOK, Servers
    <3>3. pc'[p[1]] \notin BeforeLoop
      BY <2>0, <3>1, <3>2 DEF StopAt, Calm
    <3> QED BY <2>0, <3>1, <3>3 DEF StopAt, Calm, Switching
  <2>3. ASSUME NEW p \in stopped'[e], pc'[e] \in Switching, p[1] \in HostPort,
               NEW x \in HostPort, AppOf[x] = AppOf[e], p[2] \in Up(x)'
        PROVE  x = e
    <3>1. p \in stopped[e] /\ pc[e] \in Switching BY <2>0, <2>3 DEF Calm
    <3>2. p[2] \in Up(x) BY <2>3 DEF Calm
    <3> QED BY <2>0, <2>3, <3>1, <3>2 DEF StopAt
  <2> QED BY <2>1, <2>2, <2>3 DEF StopAt
<1>3. ASSUME NEW e \in Deployments PROVE OwnAt(e)'
  <2>0. OwnAt(e) /\ Calm(e) BY DEF SlotInv
  <2> QED BY <2>0 DEF OwnAt, Calm, Switching, Current, BeforeLoop
<1> QED BY <1>1, <1>2, <1>3 DEF SlotInv

\* A step of the pipeline d, which has its app, leaves the lists and the containers of
\* the others in order.
LEMMA OtherSlots ==
  ASSUME TypeOK, LockInv, SlotInv, NEW d \in Deployments, pc[d] \in HeldPcs,
         \A x \in Deployments \ {d} :
           /\ pc'[x] = pc[x] /\ todo'[x] = todo[x] /\ started'[x] = started[x]
           /\ stopped'[x] = stopped[x]
           /\ \/ Up(x)' \subseteq Up(x)
              \/ AppOf[x] = AppOf[d] /\ pc[x] \notin BeforeLoop,
         pc'[d] \in BeforeLoop => pc[d] \in BeforeLoop,
         PortOnce', StopAt(d)', OwnAt(d)'
  PROVE  SlotInv'
<1> USE DeployAssumption
<1> SUFFICES ASSUME NEW e \in Deployments \ {d} PROVE StopAt(e)' /\ OwnAt(e)'
  BY DEF SlotInv
<1>0. StopAt(e) /\ OwnAt(e) BY DEF SlotInv
<1>1. AppOf[e] = AppOf[d] => pc[e] \notin Switching
  BY Alone, HeldNames DEF Switching
<1>2. ASSUME NEW p \in stopped[e] PROVE pc'[p[1]] \notin BeforeLoop
  <2>1. p[1] \in Deployments BY <1>2 DEF TypeOK, Servers
  <2> QED BY <1>0, <1>2, <2>1 DEF StopAt
<1>3. ASSUME NEW p \in stopped[e], pc[e] \in Switching, p[1] \in HostPort,
             NEW x \in HostPort, AppOf[x] = AppOf[e], p[2] \in Up(x)'
      PROVE  x = e
  <2>1. AppOf[x] # AppOf[d] /\ x # d BY <1>1, <1>3
  <2>2. p[2] \in Up(x) BY <1>3, <2>1
  <2> QED BY <1>0, <1>3, <2>2 DEF StopAt
<1>4. StopAt(e)' BY <1>0, <1>2, <1>3 DEF StopAt
<1>5. CASE Up(e)' \subseteq Up(e) BY <1>0, <1>4, <1>5 DEF OwnAt, Current
<1>6. CASE AppOf[e] = AppOf[d] /\ pc[e] \notin BeforeLoop
  BY <1>0, <1>1, <1>4, <1>6 DEF OwnAt, Switching, BeforeLoop
<1> QED BY <1>5, <1>6

\* A step that starts no container of another deployment than d, and none of d on a port
\* that is taken.
LEMMA PortStep ==
  ASSUME TypeOK, PortOnce, NEW d \in Deployments, NEW t \in Targets,
         \A x \in Deployments \ {d} : Up(x)' \subseteq Up(x),
         Up(d)' \subseteq Up(d) \/ (Up(d)' \subseteq Up(d) \cup {t} /\ ~PortTaken(d, t))
  PROVE  PortOnce'
<1> USE DeployAssumption
<1> SUFFICES ASSUME NEW x \in HostPort, NEW y \in HostPort, NEW u \in Targets,
                    AppOf[x] = AppOf[y], u \in Up(x)', u \in Up(y)', x # y
             PROVE  FALSE
  BY DEF PortOnce
<1>1. u \in Up(x) /\ u \in Up(y) => FALSE BY DEF PortOnce
<1>2. ASSUME NEW y1 \in HostPort, d \in HostPort, y1 # d, AppOf[y1] = AppOf[d], t \in Up(y1)
      PROVE  PortTaken(d, t)
  BY <1>2 DEF PortTaken, RunningOn, DeploymentsOf, Up
<1> QED BY <1>1, <1>2

\* The containers of the running deployments stay, and so do the lists.
LEMMA DownSame ==
  ASSUME DownInv, NoNewRunning, purged \subseteq purged', UNCHANGED stopped,
         \A x \in Deployments :
           /\ status[x] = "running" /\ AppOf[x] \notin purged' => cont'[x] = cont[x]
           /\ pc[x] \in Switching => pc'[x] \in Switching \/ stopped[x] = {}
  PROVE  DownInv'
<1> SUFFICES ASSUME NEW d \in Deployments, status'[d] = "running", AppOf[d] \notin purged',
                    NEW t \in TargetsOf[d], cont'[d][t] # "running"
             PROVE  Listed(d, t)'
  BY DEF DownInv
<1>1. status[d] = "running" /\ cont'[d] = cont[d] BY DEF NoNewRunning
<1>2. Listed(d, t) BY <1>1 DEF DownInv
<1> QED BY <1>1, <1>2 DEF Listed

\* The parts of the invariant, before and after a step.
IdleInv == SlotInv /\ DownInv

\* A calm step that leaves the containers of the running deployments.
LEMMA CalmStep ==
  ASSUME TypeOK, IdleInv, NoNewRunning, purged \subseteq purged', UNCHANGED stopped,
         \A x \in Deployments :
           /\ Calm(x)
           /\ status[x] = "running" /\ AppOf[x] \notin purged' => cont'[x] = cont[x]
           /\ pc[x] \in Switching => pc'[x] \in Switching \/ stopped[x] = {}
  PROVE  IdleInv'
BY CalmSlots, DownSame DEF IdleInv

\* A deployment outside the switch moves on and touches no container.
LEMMA CalmGoes ==
  ASSUME TypeOK, IdleInv, NoNewRunning, NEW d \in Deployments, NEW w, Goto(d, w),
         UNCHANGED <<todo, started, stopped, cont, purged>>,
         pc[d] \notin Switching \/ (pc[d] = "restart" /\ stopped[d] = {}),
         w \notin Switching, w \in BeforeLoop => pc[d] \in BeforeLoop
  PROVE  IdleInv'
<1>1. \A x \in Deployments : pc'[x] = IF x = d THEN w ELSE pc[x]
  BY DEF TypeOK, Goto
<1>2. ASSUME NEW x \in Deployments PROVE Calm(x)
  <2>1. Up(x)' = Up(x) BY DEF Up
  <2> QED BY <1>1, <2>1 DEF Calm, Switching, BeforeLoop
<1>3. ASSUME NEW x \in Deployments, pc[x] \in Switching
      PROVE  pc'[x] \in Switching \/ stopped[x] = {}
  BY <1>1, <1>3
<1> QED BY <1>2, <1>3, CalmStep

\* A step that moves no deployment and touches no container.
LEMMA CalmStays ==
  ASSUME TypeOK, IdleInv, NoNewRunning, purged \subseteq purged',
         UNCHANGED <<pc, todo, started, stopped, cont>>
  PROVE  IdleInv'
<1>1. ASSUME NEW x \in Deployments PROVE Calm(x)
  <2>1. Up(x)' = Up(x) BY DEF Up
  <2> QED BY <2>1 DEF Calm
<1> QED BY <1>1, CalmStep

\* A step of a deployment of the app that is not the running one.
LEMMA OwnStep ==
  ASSUME TypeOK, LockInv, SwitchInv, IdleInv, NEW d \in Deployments, NEW t \in Targets,
         pc[d] \in {"prepared", "launch", "probe", "undo"}, pc'[d] \in Switching,
         pc'[d] \in BeforeLoop => pc[d] \in BeforeLoop,
         \A x \in Deployments \ {d} :
           /\ pc'[x] = pc[x] /\ todo'[x] = todo[x] /\ started'[x] = started[x]
           /\ cont'[x] = cont[x],
         UNCHANGED <<status, stopped, purged>>,
         Up(d)' \subseteq Up(d) \/ (Up(d)' \subseteq Up(d) \cup {t} /\ ~PortTaken(d, t)),
         OwnAt(d)'
  PROVE  IdleInv'
<1> USE DeployAssumption
<1>0. SlotInv /\ DownInv /\ PortOnce BY DEF IdleInv, SlotInv
<1>1. pc[d] \in HeldPcs BY HeldNames
<1>2. \A x \in Deployments \ {d} : Up(x)' = Up(x) BY DEF Up
<1>3. PortOnce' BY <1>0, <1>2, PortStep
<1>4. StopAt(d)'
  <2>0. StopAt(d) BY <1>0 DEF SlotInv
  <2>1. CASE pc[d] = "prepared"
    BY <2>0, <2>1 DEF StopAt, BeforeLoop
  <2>2. CASE pc[d] # "prepared"
    <3>1. pc[d] \notin BeforeLoop /\ pc[d] \in Switching
      BY <2>2 DEF BeforeLoop, Switching
    <3>2. pc'[d] \notin BeforeLoop BY <3>1
    <3>3. ASSUME NEW p \in stopped[d]
          PROVE  /\ AppOf[p[1]] = AppOf[d] /\ p[1] # d /\ pc'[p[1]] \notin BeforeLoop
                 /\ p[1] \in HostPort => \A q \in stopped[d] :
                      q[1] \in HostPort /\ q[2] = p[2] => q[1] = p[1]
      <4>1. p[1] \in Deployments BY <3>3 DEF TypeOK, Servers
      <4> QED BY <2>0, <3>3, <4>1 DEF StopAt
    <3>4. ASSUME NEW p \in stopped[d], p[1] \in HostPort,
                 NEW x \in HostPort, AppOf[x] = AppOf[d], p[2] \in Up(x)'
          PROVE  x = d
      BY <1>2, <2>0, <3>1, <3>4 DEF StopAt
    <3>5. pc'[d] # "stopold" BY <3>2 DEF BeforeLoop
    <3> QED BY <3>2, <3>3, <3>4, <3>5 DEF StopAt
  <2> QED BY <2>1, <2>2
<1>5. SlotInv' BY <1>0, <1>1, <1>2, <1>3, <1>4, OtherSlots
<1>6. status[d] # "running" BY DEF SwitchInv, AfterFinish
<1>7. DownInv'
  <2>1. \A x \in Deployments : status[x] = "running" => cont'[x] = cont[x] BY <1>6
  <2>2. \A x \in Deployments : pc[x] \in Switching => pc'[x] \in Switching OBVIOUS
  <2> QED BY <1>0, <2>1, <2>2, SameStatus, DownSame
<1> QED BY <1>5, <1>7 DEF IdleInv

\* The loop of deploy_targets and its cleanup.
LEMMA RecordIdle ==
  ASSUME TypeOK, LockInv, LoopInv, SwitchInv, IdleInv, ~MayFail("store"),
         NEW d \in Deployments, Record(d)
  PROVE  IdleInv'
<1> USE DeployAssumption
<1>0. OwnAt(d) /\ LoopAt(d) BY DEF IdleInv, SlotInv, LoopInv
<1>1. /\ pc[d] = "prepared" /\ todo' = [todo EXCEPT ![d] = TargetsOf[d]]
      /\ UNCHANGED <<status, started, stopped, cont, purged>>
  BY DEF Record
<1>2. todo'[d] = TargetsOf[d] /\ \A x \in Deployments \ {d} : todo'[x] = todo[x]
  BY <1>1 DEF TypeOK
<1>3. \A x \in Deployments : Up(x)' = Up(x) BY <1>1 DEF Up
<1>4. Up(d) = {} /\ started[d] = {} BY <1>0, <1>1 DEF OwnAt, LoopAt, BeforeLoop
<1>5. CASE Goto(d, "fail")
  <2>1. \A x \in Deployments : pc'[x] = IF x = d THEN "fail" ELSE pc[x]
    BY <1>5 DEF TypeOK, Goto
  <2>2. ASSUME NEW x \in Deployments PROVE Calm(x)
    BY <1>1, <1>2, <1>3, <2>1 DEF Calm, Switching, BeforeLoop
  <2>3. \A x \in Deployments : pc[x] \in Switching => pc'[x] \in Switching
    BY <1>1, <2>1 DEF Switching
  <2> QED BY <1>1, <2>2, <2>3, SameStatus, CalmStep
<1>6. ASSUME NEW w \in {"stopold", "launch"}, Goto(d, w) PROVE IdleInv'
  <2>1. \A x \in Deployments : pc'[x] = IF x = d THEN w ELSE pc[x]
    BY <1>6 DEF TypeOK, Goto
  <2>2. OwnAt(d)' BY <1>1, <1>2, <1>3, <1>4, <1>6, <2>1 DEF OwnAt
  <2>3. pc'[d] \in Switching BY <2>1 DEF Switching
  <2>4. pc[d] \in BeforeLoop BY <1>1 DEF BeforeLoop
  <2>5. PICK t \in TargetsOf[d] : TRUE OBVIOUS
  <2> QED BY <1>1, <1>2, <1>3, <2>1, <2>2, <2>3, <2>4, <2>5, OwnStep
<1> QED BY <1>5, <1>6 DEF Record

\* A pull that fails goes to the restart with the containers it has started: an image
\* with a host port has none, because it has one target.
LEMMA LaunchIdle ==
  ASSUME TypeOK, LockInv, SwitchInv, IdleInv,
         \A e \in HostPort \ Git : \A v, u \in TargetsOf[e] : v = u,
         NEW d \in Deployments, NEW t \in Targets, Launch(d, t)
  PROVE  IdleInv'
<1> USE DeployAssumption
<1>0. OwnAt(d) BY DEF IdleInv, SlotInv
<1>1. /\ pc[d] = "launch" /\ t \in todo[d] /\ todo' = [todo EXCEPT ![d] = @ \ {t}]
      /\ UNCHANGED <<status, started, stopped, purged>>
  BY DEF Launch
<1>2. todo'[d] = todo[d] \ {t} /\ \A x \in Deployments \ {d} : todo'[x] = todo[x]
  BY <1>1 DEF TypeOK
<1>3. /\ Up(d) \subseteq started[d] /\ started[d] \subseteq TargetsOf[d]
      /\ todo[d] \subseteq TargetsOf[d] /\ todo[d] \cap started[d] = {}
  BY <1>0, <1>1 DEF OwnAt
<1>4. pc[d] \notin BeforeLoop BY <1>1 DEF BeforeLoop
<1>5. ASSUME NEW w \in {"probe", "restart", "undo"}, Goto(d, w),
             \A x \in Deployments \ {d} : cont'[x] = cont[x],
             Up(d)' \subseteq Up(d) \/ (Up(d)' \subseteq Up(d) \cup {t} /\ ~PortTaken(d, t)),
             w # "probe" => Up(d)' \subseteq Up(d), w = "restart" => d \notin Git
      PROVE  IdleInv'
  <2>1. \A x \in Deployments : pc'[x] = IF x = d THEN w ELSE pc[x]
    BY <1>5 DEF TypeOK, Goto
  <2>2. w \in Switching /\ w \notin BeforeLoop BY <1>5 DEF Switching, BeforeLoop
  <2>3. OwnAt(d)'
    <3>1. CASE w = "probe"
      <4>1. t \in Current(d)' BY <1>1, <1>2, <1>3 DEF Current
      <4>2. Up(d)' \subseteq started[d] \cup Current(d)' BY <1>3, <1>5, <4>1
      <4> QED BY <1>1, <1>2, <1>3, <2>1, <3>1, <4>2 DEF OwnAt, BeforeLoop
    <3>2. CASE w = "undo"
      BY <1>1, <1>3, <1>5, <2>1, <3>2 DEF OwnAt, BeforeLoop
    <3>3. CASE w = "restart"
      <4>1. d \in HostPort => started[d] = {} BY <1>1, <1>3, <1>5, <3>3
      <4> QED BY <1>3, <1>5, <2>1, <3>3, <4>1 DEF OwnAt, BeforeLoop
    <3> QED BY <1>5, <3>1, <3>2, <3>3
  <2> QED BY <1>1, <1>2, <1>4, <1>5, <2>1, <2>2, <2>3, OwnStep
<1>6. CASE ~PortTaken(d, t) /\ SetContainers({d}, t, "running") /\ Goto(d, "probe")
  <2>1. Up(d)' = Up(d) \cup {t} /\ \A x \in Deployments \ {d} : cont'[x] = cont[x]
    BY <1>6, UpStart
  <2> QED BY <1>5, <1>6, <2>1
<1>7. CASE d \notin Git /\ Goto(d, "restart") /\ UNCHANGED cont
  <2>1. Up(d)' = Up(d) BY <1>7 DEF Up
  <2> QED BY <1>5, <1>7, <2>1
<1>8. CASE Goto(d, "undo") /\ UNCHANGED cont
  <2>1. Up(d)' = Up(d) BY <1>8 DEF Up
  <2> QED BY <1>5, <1>8, <2>1
<1>9. CASE SetContainers({d}, t, "created") /\ Goto(d, "undo")
  <2>1. Up(d)' = Up(d) \ {t} /\ \A x \in Deployments \ {d} : cont'[x] = cont[x]
    BY <1>9, UpStop
  <2> QED BY <1>5, <1>9, <2>1
<1> QED BY <1>6, <1>7, <1>8, <1>9 DEF Launch

LEMMA ProbeIdle ==
  ASSUME TypeOK, LockInv, LoopInv, SwitchInv, IdleInv, ~MayFail("runtime"),
         NEW d \in Deployments, NEW t \in Targets, ProbeOk(d, t) \/ ProbeFail(d, t)
  PROVE  IdleInv'
<1> USE DeployAssumption
<1>0. OwnAt(d) /\ LoopAt(d) BY DEF IdleInv, SlotInv, LoopInv
<1>1. /\ pc[d] = "probe" /\ t \in Current(d)
      /\ UNCHANGED <<status, todo, stopped, purged>>
  BY DEF ProbeOk, ProbeFail
<1>2. /\ Up(d) \subseteq started[d] \cup {t} /\ started[d] \subseteq TargetsOf[d]
      /\ todo[d] \subseteq TargetsOf[d] /\ todo[d] \cap started[d] = {}
  BY <1>0, <1>1 DEF OwnAt, LoopAt
<1>3. t \in TargetsOf[d] /\ t \notin todo[d] BY <1>1 DEF Current
<1>4. pc[d] \notin BeforeLoop BY <1>1 DEF BeforeLoop
<1>5. CASE ProbeOk(d, t)
  <2> DEFINE w == IF todo[d] = {} THEN "finish" ELSE "launch"
  <2>1. \A x \in Deployments : pc'[x] = IF x = d THEN w ELSE pc[x]
    BY <1>5 DEF ProbeOk, TypeOK, Goto
  <2>2. /\ started'[d] = started[d] \cup {t} /\ UNCHANGED cont
        /\ \A x \in Deployments \ {d} : started'[x] = started[x]
    BY <1>5 DEF ProbeOk, TypeOK
  <2>3. Up(d)' = Up(d) BY <2>2 DEF Up
  <2>4. w \in {"finish", "launch"} OBVIOUS
  <2> HIDE DEF w
  <2>5. OwnAt(d)'
    BY <1>1, <1>2, <1>3, <2>1, <2>2, <2>3, <2>4 DEF OwnAt, BeforeLoop
  <2>6. w \in Switching /\ w \notin BeforeLoop BY <2>4 DEF Switching, BeforeLoop
  <2> QED BY <1>1, <1>4, <2>1, <2>2, <2>3, <2>5, <2>6, OwnStep
<1>6. CASE ProbeFail(d, t)
  <2>0. SetContainers({d}, t, "absent") /\ Goto(d, "undo") /\ UNCHANGED started
    BY <1>6 DEF ProbeFail
  <2>1. \A x \in Deployments : pc'[x] = IF x = d THEN "undo" ELSE pc[x]
    BY <2>0 DEF TypeOK, Goto
  <2>2. Up(d)' = Up(d) \ {t} /\ \A x \in Deployments \ {d} : cont'[x] = cont[x]
    BY <2>0, UpStop
  <2>3. OwnAt(d)' BY <1>2, <2>0, <2>1, <2>2 DEF OwnAt, BeforeLoop
  <2>4. "undo" \in Switching /\ "undo" \notin BeforeLoop BY DEF Switching, BeforeLoop
  <2> QED BY <1>1, <1>4, <2>0, <2>1, <2>2, <2>3, <2>4, OwnStep
<1> QED BY <1>5, <1>6

LEMMA UndoIdle ==
  ASSUME TypeOK, LockInv, SwitchInv, IdleInv, ~MayFail("runtime"),
         NEW d \in Deployments, Undo(d)
  PROVE  IdleInv'
<1> USE DeployAssumption
<1>0. OwnAt(d) BY DEF IdleInv, SlotInv
<1>1. pc[d] = "undo" /\ UNCHANGED <<status, todo, stopped, purged>> BY DEF Undo
<1>2. Up(d) \subseteq started[d] BY <1>0, <1>1 DEF OwnAt
<1>3. pc[d] \notin BeforeLoop /\ pc[d] \in Switching BY <1>1 DEF BeforeLoop, Switching
<1>4. ASSUME NEW t \in started[d], SetContainers({d}, t, "absent"),
             started' = [started EXCEPT ![d] = @ \ {t}], UNCHANGED pc
      PROVE  IdleInv'
  <2>1. t \in Targets BY DEF TypeOK
  <2>2. Up(d)' = Up(d) \ {t} /\ \A x \in Deployments \ {d} : cont'[x] = cont[x]
    BY <1>4, <2>1, UpStop
  <2>3. /\ started'[d] = started[d] \ {t}
        /\ \A x \in Deployments \ {d} : started'[x] = started[x]
    BY <1>4 DEF TypeOK
  <2>4. OwnAt(d)' BY <1>1, <1>2, <1>4, <2>2, <2>3 DEF OwnAt, BeforeLoop
  <2> QED BY <1>1, <1>3, <1>4, <2>1, <2>2, <2>3, <2>4, OwnStep
<1>5. CASE started[d] = {} /\ Goto(d, "restart") /\ UNCHANGED <<cont, started>>
  <2>1. \A x \in Deployments : pc'[x] = IF x = d THEN "restart" ELSE pc[x]
    BY <1>5 DEF TypeOK, Goto
  <2>2. Up(d)' = Up(d) BY <1>5 DEF Up
  <2>3. OwnAt(d)' BY <1>2, <1>5, <2>1, <2>2 DEF OwnAt, BeforeLoop
  <2>4. "restart" \in Switching /\ "restart" \notin BeforeLoop
    BY DEF Switching, BeforeLoop
  <2>5. PICK t \in TargetsOf[d] : TRUE OBVIOUS
  <2> QED BY <1>1, <1>3, <1>5, <2>1, <2>2, <2>3, <2>4, <2>5, OwnStep
<1> QED BY <1>4, <1>5 DEF Undo

\* The pipeline stops what runs on a target: the list has it, and the port is free.
LEMMA StopOldIdle ==
  ASSUME TypeOK, LockInv, LoopInv, SwitchInv, IdleInv, ~MayFail("runtime"),
         NEW d \in Deployments, NEW t \in Targets, StopOld(d, t)
  PROVE  IdleInv'
<1> USE DeployAssumption
<1> DEFINE old == RunningOn(AppOf[d], t)
<1>0. /\ SlotInv /\ DownInv /\ PortOnce /\ StopAt(d) /\ OwnAt(d) /\ LoopAt(d)
  BY DEF IdleInv, SlotInv, LoopInv
<1>1. /\ pc[d] = "stopold" /\ t \in todo[d] /\ SetContainers(old, t, "stopped")
      /\ stopped' = [stopped EXCEPT ![d] = @ \cup (old \X {t})]
      /\ UNCHANGED <<status, started, purged>>
  BY DEF StopOld
<1>2. /\ pc[d] \in HeldPcs /\ pc[d] \in BeforeLoop /\ pc[d] \in Switching
  BY <1>1, HeldNames DEF BeforeLoop, Switching
<1>3. \A x \in Deployments : x \in old <=> AppOf[x] = AppOf[d] /\ t \in Up(x)
  BY DEF RunningOn, DeploymentsOf, Up
<1>4. old \subseteq Deployments BY DEF RunningOn, DeploymentsOf
<1>5. ASSUME NEW x \in Deployments
      PROVE  /\ x \notin old => cont'[x] = cont[x] /\ Up(x)' = Up(x)
             /\ x \in old => Up(x)' = Up(x) \ {t} /\ cont'[x][t] = "stopped"
             /\ \A u \in Targets \ {t} : cont'[x][u] = cont[x][u]
  <2> HIDE DEF old
  <2>1. cont[x] \in [Targets -> ContStates] BY DEF TypeOK
  <2>2. cont'[x] = IF x \in old THEN [cont[x] EXCEPT ![t] = "stopped"] ELSE cont[x]
    BY <1>1 DEF SetContainers
  <2>3. \A u \in Targets :
          cont'[x][u] = IF x \in old /\ u = t THEN "stopped" ELSE cont[x][u]
    BY <2>1, <2>2
  <2> QED BY <2>2, <2>3 DEF Up
<1>6. /\ stopped'[d] = stopped[d] \cup (old \X {t})
      /\ \A x \in Deployments \ {d} : stopped'[x] = stopped[x]
  BY <1>1 DEF TypeOK
<1> HIDE DEF old
<1>7. Up(d) = {} /\ d \notin old /\ started[d] = {} /\ todo[d] \subseteq TargetsOf[d]
  BY <1>0, <1>1, <1>2, <1>3 DEF OwnAt, LoopAt
<1>8. /\ \A x \in Deployments \ {d} : pc'[x] = pc[x] /\ todo'[x] = todo[x]
      /\ \/ pc'[d] = "stopold" /\ todo'[d] = todo[d] \ {t}
         \/ pc'[d] = "launch" /\ todo'[d] = TargetsOf[d]
  BY <1>1 DEF StopOld, Goto, TypeOK
<1>9. PortOnce'
  <2>1. \A x \in Deployments : Up(x)' \subseteq Up(x) BY <1>5
  <2> QED BY <1>0, <2>1, PortStep
<1>10. OwnAt(d)'
  <2>1. Up(d)' = {} BY <1>5, <1>7
  <2> QED BY <1>1, <1>7, <1>8, <2>1 DEF OwnAt
<1>11. StopAt(d)'
  <2>1. pc'[d] \notin BeforeLoop \ {"stopold"} /\ pc'[d] \in Switching
    BY <1>8 DEF BeforeLoop, Switching
  <2>2. ASSUME NEW p \in stopped'[d]
        PROVE  \/ p \in stopped[d]
               \/ p[1] \in old /\ p[2] = t
    BY <1>6
  <2>3. ASSUME NEW p \in stopped'[d]
        PROVE  AppOf[p[1]] = AppOf[d] /\ p[1] # d /\ pc'[p[1]] \notin BeforeLoop
    <3>1. CASE p \in stopped[d]
      <4>1. p[1] \in Deployments BY <3>1 DEF TypeOK, Servers
      <4> QED BY <1>0, <1>8, <3>1, <4>1 DEF StopAt
    <3>2. CASE p[1] \in old
      <4>1. p[1] \in Deployments /\ p[1] # d /\ AppOf[p[1]] = AppOf[d] /\ t \in Up(p[1])
        BY <1>3, <1>4, <1>7, <3>2
      <4>2. OwnAt(p[1]) BY <1>0, <4>1 DEF SlotInv
      <4>3. pc[p[1]] \notin BeforeLoop BY <4>1, <4>2 DEF OwnAt
      <4> QED BY <1>8, <4>1, <4>3
    <3> QED BY <2>2, <3>1, <3>2
  <2>4. ASSUME NEW p \in stopped'[d], pc'[d] = "stopold" PROVE p[2] \notin todo'[d]
    BY <1>0, <1>1, <1>8, <2>2, <2>4 DEF StopAt
  <2>5. ASSUME NEW p \in stopped'[d], NEW q \in stopped'[d], p[1] \in HostPort,
               q[1] \in HostPort, q[2] = p[2]
        PROVE  q[1] = p[1]
    <3>1. CASE p \in stopped[d] /\ q \in stopped[d] BY <1>0, <2>5, <3>1 DEF StopAt
    <3>2. CASE p[1] \in old /\ q[1] \in old
      <4>1. t \in Up(p[1]) /\ t \in Up(q[1]) /\ AppOf[p[1]] = AppOf[q[1]]
        BY <1>3, <1>4, <3>2
      <4> QED BY <1>0, <2>5, <4>1 DEF PortOnce
    <3>3. \A r \in stopped[d] : r[2] # t BY <1>0, <1>1 DEF StopAt
    <3> QED BY <2>2, <2>5, <3>1, <3>2, <3>3
  <2>6. ASSUME NEW p \in stopped'[d], p[1] \in HostPort,
               NEW x \in HostPort, AppOf[x] = AppOf[d], p[2] \in Up(x)'
        PROVE  x = d
    <3>1. CASE p \in stopped[d]
      <4>1. p[2] \in Up(x) BY <1>5, <2>6
      <4> QED BY <1>0, <1>2, <2>6, <3>1, <4>1 DEF StopAt
    <3>2. CASE p[2] = t
      <4>1. x \in old BY <1>3, <1>5, <2>6, <3>2
      <4> QED BY <1>5, <2>6, <3>2, <4>1
    <3> QED BY <2>2, <3>1, <3>2
  <2> QED BY <2>1, <2>3, <2>4, <2>5, <2>6 DEF StopAt
<1>12. SlotInv'
  <2>1. \A x \in Deployments : Up(x)' \subseteq Up(x) BY <1>5
  <2> QED BY <1>0, <1>1, <1>2, <1>6, <1>8, <1>9, <1>10, <1>11, <2>1, OtherSlots
<1>13. DownInv'
  <2> SUFFICES ASSUME NEW e \in Deployments, status'[e] = "running",
                      AppOf[e] \notin purged', NEW u \in TargetsOf[e],
                      cont'[e][u] # "running"
               PROVE  Listed(e, u)'
    BY DEF DownInv
  <2>1. status[e] = "running" /\ AppOf[e] \notin purged /\ e # d
    BY <1>1 DEF SwitchInv, AfterFinish
  <2>2. pc'[d] \in Switching BY <1>8 DEF Switching
  <2>3. u \in Targets OBVIOUS
  <2>4. CASE cont[e][u] = "running"
    <3>1. e \in old /\ u = t BY <1>5, <2>3, <2>4
    <3>2. <<e, u>> \in stopped'[d] BY <1>6, <3>1
    <3>3. AppOf[d] = AppOf[e] /\ cont'[e][u] = "stopped" BY <1>3, <1>5, <3>1
    <3> QED BY <2>1, <2>2, <3>2, <3>3 DEF Listed
  <2>5. CASE cont[e][u] # "running"
    <3>1. PICK f \in Deployments :
            /\ AppOf[f] = AppOf[e] /\ f # e /\ pc[f] \in Switching
            /\ <<e, u>> \in stopped[f] /\ cont[e][u] = "stopped"
      BY <1>0, <2>1, <2>5 DEF DownInv, Listed
    <3>2. cont'[e][u] = "stopped"
      BY <1>3, <1>5, <2>3, <3>1 DEF Up
    <3>3. pc'[f] \in Switching /\ <<e, u>> \in stopped'[f]
      BY <1>6, <1>8, <2>2, <3>1
    <3> QED BY <3>1, <3>2, <3>3 DEF Listed
  <2> QED BY <2>4, <2>5
<1> QED BY <1>12, <1>13 DEF IdleInv

\* A failed switch starts what it stopped: the port is free, because nothing of the
\* failed deployment runs and the list has one container with the port.
LEMMA RestartOldIdle ==
  ASSUME TypeOK, LockInv, SwitchInv, IdleInv, ~MayFail("runtime"),
         NEW d \in Deployments, RestartStopped(d)
  PROVE  IdleInv'
<1> USE DeployAssumption
<1>0. SlotInv /\ DownInv /\ PortOnce /\ StopAt(d) /\ OwnAt(d) BY DEF IdleInv, SlotInv
<1>1. pc[d] = "restart" /\ UNCHANGED <<status, todo, started, purged>>
  BY DEF RestartStopped
<1>2. CASE stopped[d] = {} /\ Goto(d, "fail") /\ UNCHANGED <<cont, stopped>>
  <2>1. "fail" \notin Switching /\ "fail" \notin BeforeLoop BY DEF Switching, BeforeLoop
  <2> QED BY <1>1, <1>2, <2>1, SameStatus, CalmGoes
<1>3. ASSUME NEW p \in stopped[d], stopped' = [stopped EXCEPT ![d] = @ \ {p}], UNCHANGED pc,
             \/ /\ cont[p[1]][p[2]] \in {"stopped", "running"} /\ ~PortTaken(p[1], p[2])
                /\ SetContainers({p[1]}, p[2], "running")
             \/ /\ \/ cont[p[1]][p[2]] \notin {"stopped", "running"}
                   \/ PortTaken(p[1], p[2])
                /\ UNCHANGED cont
      PROVE  IdleInv'
  <2> DEFINE e == p[1]
             t == p[2]
  <2>0. e \in Deployments /\ t \in Targets /\ p = <<e, t>> BY <1>3 DEF TypeOK, Servers
  <2>1. AppOf[e] = AppOf[d] /\ e # d /\ pc[e] \notin BeforeLoop BY <1>0, <1>3 DEF StopAt
  <2>2. pc[d] \in Switching /\ pc[d] \in HeldPcs /\ pc[d] \notin BeforeLoop
    BY <1>1, HeldNames DEF Switching, BeforeLoop
  <2>3. ~PortTaken(e, t)
    <3> SUFFICES ASSUME PortTaken(e, t) PROVE FALSE OBVIOUS
    <3>1. PICK x \in HostPort : AppOf[x] = AppOf[e] /\ x # e /\ t \in Up(x)
      BY <2>0 DEF PortTaken, RunningOn, DeploymentsOf, Up
    <3>2. e \in HostPort BY DEF PortTaken
    <3>3. x = d BY <1>0, <1>3, <2>1, <2>2, <3>1, <3>2 DEF StopAt
    <3> QED BY <1>0, <1>1, <3>1, <3>3 DEF OwnAt
  <2>4. /\ stopped'[d] = stopped[d] \ {p}
        /\ \A x \in Deployments \ {d} : stopped'[x] = stopped[x]
    BY <1>3 DEF TypeOK
  <2> HIDE DEF e, t
  <2>5. /\ \A x \in Deployments \ {e} : cont'[x] = cont[x] /\ Up(x)' = Up(x)
        /\ Up(e)' \subseteq Up(e) \cup {t}
        /\ \A u \in Targets \ {t} : cont'[e][u] = cont[e][u]
        /\ cont[e][t] \in {"stopped", "running"} => cont'[e][t] = "running"
    <3>1. CASE SetContainers({e}, t, "running")
      <4>1. cont[e] \in [Targets -> ContStates] BY <2>0 DEF TypeOK
      <4>2. cont'[e][t] = "running" /\ \A u \in Targets \ {t} : cont'[e][u] = cont[e][u]
        BY <2>0, <3>1, <4>1 DEF SetContainers
      <4> QED BY <2>0, <3>1, <4>2, UpStart
    <3>2. CASE UNCHANGED cont /\ cont[e][t] \notin {"stopped", "running"}
      BY <3>2 DEF Up
    <3> QED BY <1>3, <2>3, <3>1, <3>2 DEF e, t
  <2>6. PortOnce' BY <1>0, <2>0, <2>3, <2>5, PortStep
  <2>7. OwnAt(d)' BY <1>0, <1>1, <1>3, <2>1, <2>5 DEF OwnAt, Current
  <2>8. StopAt(d)'
    <3>1. ASSUME NEW q \in stopped[d], q # p, q[1] \in HostPort,
                 NEW x \in HostPort, AppOf[x] = AppOf[d], q[2] \in Up(x)'
          PROVE  x = d
      <4>1. CASE q[2] \in Up(x) BY <1>0, <2>2, <3>1, <4>1 DEF StopAt
      <4>2. CASE q[2] \notin Up(x)
        <5>1. x = e /\ q[2] = t BY <2>5, <3>1, <4>2
        <5>2. q[1] = e BY <1>0, <1>3, <3>1, <5>1 DEF StopAt, e, t
        <5>3. q = <<q[1], q[2]>> BY <3>1 DEF TypeOK, Servers
        <5> QED BY <2>0, <3>1, <5>1, <5>2, <5>3
      <4> QED BY <4>1, <4>2
    <3> QED BY <1>0, <1>1, <1>3, <2>2, <2>4, <3>1 DEF StopAt
  <2>9. SlotInv'
    BY <1>0, <1>1, <1>3, <2>0, <2>1, <2>2, <2>4, <2>5, <2>6, <2>7, <2>8, OtherSlots
  <2>10. DownInv'
    <3> SUFFICES ASSUME NEW f \in Deployments, status'[f] = "running",
                        AppOf[f] \notin purged', NEW u \in TargetsOf[f],
                        cont'[f][u] # "running"
                 PROVE  Listed(f, u)'
      BY DEF DownInv
    <3>0. u \in Targets OBVIOUS
    <3>1. f = e /\ u = t => cont[f][u] \notin {"stopped", "running"} BY <2>5
    <3>2. cont'[f][u] = cont[f][u] \/ (f = e /\ u = t) BY <2>5, <3>0
    <3>3. cont[f][u] # "running" BY <3>1, <3>2
    <3>4. PICK g \in Deployments :
            /\ AppOf[g] = AppOf[f] /\ g # f /\ pc[g] \in Switching
            /\ <<f, u>> \in stopped[g] /\ cont[f][u] = "stopped"
      BY <1>0, <1>1, <3>3 DEF DownInv, Listed
    <3>5. <<f, u>> # p /\ cont'[f][u] = "stopped" BY <2>0, <3>1, <3>2, <3>4
    <3>6. <<f, u>> \in stopped'[g] BY <2>4, <3>4, <3>5
    <3> QED BY <1>3, <3>4, <3>5, <3>6 DEF Listed
  <2> QED BY <2>9, <2>10 DEF IdleInv
<1> QED BY <1>2, <1>3 DEF RestartStopped

\* The switch: the new deployment runs everywhere, and no other one is the running one.
LEMMA FinishIdle ==
  ASSUME TypeOK, LockInv, LoopInv, SwitchInv, IdleInv, ~MayFail("store"),
         NEW d \in Deployments, Finish(d)
  PROVE  IdleInv'
<1> USE DeployAssumption
<1>0. SlotInv /\ DownInv /\ LoopAt(d) BY DEF IdleInv, LoopInv
<1>1. /\ pc[d] = "finish" /\ Goto(d, "publish") /\ purged' = purged \ {AppOf[d]}
      /\ todo' = [todo EXCEPT ![d] = TargetsOf[d]] /\ UNCHANGED <<started, stopped, cont>>
      /\ \A e \in Deployments \ {d} : status'[e] =
           IF AppOf[e] = AppOf[d] /\ status[e] = "running" THEN "superseded" ELSE status[e]
  BY DEF Finish
<1>2. \A x \in Deployments : pc'[x] = IF x = d THEN "publish" ELSE pc[x]
  BY <1>1 DEF TypeOK, Goto
<1>3. \A x \in Deployments \ {d} : todo'[x] = todo[x] BY <1>1 DEF TypeOK
<1>4. \A x \in Deployments : Up(x)' = Up(x) BY <1>1 DEF Up
<1>5. ASSUME NEW x \in Deployments PROVE Calm(x)
  BY <1>1, <1>2, <1>3, <1>4 DEF Calm, Switching, BeforeLoop
<1>6. DownInv'
  <2> SUFFICES ASSUME NEW e \in Deployments, status'[e] = "running",
                      AppOf[e] \notin purged', NEW u \in TargetsOf[e],
                      cont'[e][u] # "running"
               PROVE  Listed(e, u)'
    BY DEF DownInv
  <2>1. CASE e = d BY <1>0, <1>1, <2>1 DEF LoopAt
  <2>2. CASE e # d
    <3>1. AppOf[e] # AppOf[d] /\ status[e] = "running" /\ AppOf[e] \notin purged
      BY <1>1, <2>2
    <3>2. PICK f \in Deployments :
            /\ AppOf[f] = AppOf[e] /\ f # e /\ pc[f] \in Switching
            /\ <<e, u>> \in stopped[f] /\ cont[e][u] = "stopped"
      BY <1>0, <1>1, <3>1 DEF DownInv, Listed
    <3>3. pc'[f] = pc[f] BY <1>2, <3>1, <3>2
    <3> QED BY <1>1, <3>2, <3>3 DEF Listed
  <2> QED BY <2>1, <2>2
<1> QED BY <1>0, <1>5, <1>6, CalmSlots DEF IdleInv

\* What the drain removes is not running: its app has no other running row.
LEMMA RemoveOldIdle ==
  ASSUME TypeOK, SwitchInv, IdleInv, NEW d \in Deployments, RemoveOld(d)
  PROVE  IdleInv'
<1> USE DeployAssumption
<1>1. pc[d] = "drain" /\ UNCHANGED <<status, started, stopped, purged>> BY DEF RemoveOld
<1>2. CASE Goto(d, "end") /\ UNCHANGED <<cont, todo>>
  <2>1. /\ pc[d] \notin Switching /\ "end" \notin Switching /\ "end" \notin BeforeLoop
    BY <1>1 DEF Switching, BeforeLoop
  <2> QED BY <1>1, <1>2, <2>1, SameStatus, CalmGoes
<1>3. ASSUME NEW t \in todo[d], NEW S \in SUBSET OldContainers(d),
             SetContainers(S, t, "absent"), todo' = [todo EXCEPT ![d] = @ \ {t}],
             UNCHANGED pc
      PROVE  IdleInv'
  <2>1. t \in Targets BY DEF TypeOK
  <2>2. ASSUME NEW x \in Deployments PROVE Up(x)' \subseteq Up(x)
    <3>1. cont[x] \in [Targets -> ContStates] BY DEF TypeOK
    <3>2. \A u \in Targets : cont'[x][u] \in {"absent", cont[x][u]}
      BY <1>3, <2>1, <3>1 DEF SetContainers
    <3> QED BY <3>2 DEF Up
  <2>3. \A x \in Deployments \ {d} : todo'[x] = todo[x] BY <1>3 DEF TypeOK
  <2>4. ASSUME NEW x \in Deployments PROVE Calm(x)
    BY <1>1, <1>3, <2>2, <2>3 DEF Calm, Switching
  <2>5. ASSUME NEW x \in Deployments, status[x] = "running" PROVE cont'[x] = cont[x]
    <3>1. x \notin S
      BY <1>1, <1>3, <2>5 DEF OldContainers, DeploymentsOf, SwitchInv
    <3> QED BY <1>3, <3>1 DEF SetContainers
  <2> QED BY <1>1, <1>3, <2>4, <2>5, SameStatus, CalmStep
<1> QED BY <1>2, <1>3 DEF RemoveOld

\* The deployments that a request, a task outside the switch or a publisher moves.
LEMMA RequestIdle ==
  ASSUME TypeOK, IdleInv, NEW d \in Deployments, Request(d) PROVE IdleInv'
<1> USE DEF Switching, BeforeLoop
<1>0. NoNewRunning BY RequestRunning
<1>1. CASE DeployRequest(d) BY <1>0, <1>1, CalmGoes DEF DeployRequest, LockFor
<1>2. CASE InsertRow(d) BY <1>0, <1>2, CalmGoes DEF InsertRow, Unlock
<1>3. CASE SpawnJob(d) BY <1>0, <1>3, CalmGoes DEF SpawnJob, Unlock
<1>4. CASE PendUnlock(d) BY <1>0, <1>4, CalmGoes DEF PendUnlock, Unlock
<1>5. CASE InsertPending(d) BY <1>0, <1>5, CalmGoes DEF InsertPending
<1>6. CASE ApproveLock(d) BY <1>0, <1>6, CalmGoes DEF ApproveLock, LockFor
<1>7. CASE ApproveUpdate(d) BY <1>0, <1>7, CalmGoes DEF ApproveUpdate, Unlock
<1>8. CASE Reject(d) BY <1>0, <1>8, CalmStays DEF Reject
<1>9. ASSUME NEW s \in Deployments, RollbackRequest(d, s) PROVE IdleInv'
  BY <1>0, <1>9, CalmGoes DEF RollbackRequest, LockFor
<1> QED BY <1>1, <1>2, <1>3, <1>4, <1>5, <1>6, <1>7, <1>8, <1>9 DEF Request

LEMMA LightIdle ==
  ASSUME TypeOK, IdleInv, NEW d \in Deployments,
         \/ Start(d) \/ AcquirePermit(d) \/ Built(d) \/ Pulled(d) \/ Fail(d)
         \/ RemoveToken(d) \/ UnlockJob(d) \/ PendHook(d) \/ Drained(d) \/ RunHook(d)
  PROVE  IdleInv'
<1> USE DEF Switching, BeforeLoop
<1>0. Finish(d) => pc[d] = "finish" BY DEF Finish
<1>1. CASE Start(d) BY <1>0, <1>1, JobRunning, CalmGoes DEF Start, Job
<1>2. CASE AcquirePermit(d) BY <1>2, SameStatus, CalmGoes DEF AcquirePermit
<1>3. CASE Built(d) BY <1>0, <1>3, JobRunning, CalmGoes DEF Built, Job
<1>4. CASE Pulled(d) BY <1>4, SameStatus, CalmGoes DEF Pulled
<1>5. CASE Fail(d) BY <1>0, <1>5, JobRunning, CalmGoes DEF Fail, Job
<1>6. CASE RemoveToken(d) \/ UnlockJob(d)
  BY <1>6, SameStatus, CalmGoes DEF RemoveToken, UnlockJob, Unlock
<1>7. CASE PendHook(d) \/ Drained(d)
  BY <1>7, SameStatus, CalmGoes DEF PendHook, Drained, Dequeue
<1>8. CASE RunHook(d)
  <2> DEFINE next == IF pc[d] = "hook" THEN "done" ELSE "pend"
  <2>0. /\ pc[d] \in {"hook", "pendlock"}
        /\ UNCHANGED <<status, cont, started, todo, stopped, purged>>
    BY <1>8 DEF RunHook
  <2>1. CASE Goto(d, next) BY <2>0, <2>1, SameStatus, CalmGoes
  <2>2. ASSUME NEW e \in Fresh(AppOf[d]),
               pc' = [pc EXCEPT ![d] = next, ![e] = "locked"]
        PROVE  IdleInv'
    <3>1. e \in Deployments /\ pc[e] = "idle" BY <2>2 DEF Fresh, DeploymentsOf
    <3>2. \A x \in Deployments :
            pc'[x] = IF x = e THEN "locked" ELSE IF x = d THEN next ELSE pc[x]
      BY <2>0, <2>2, <3>1 DEF TypeOK
    <3>3. ASSUME NEW x \in Deployments
          PROVE  Calm(x) /\ (pc[x] \in Switching => pc'[x] \in Switching)
      <4>1. Up(x)' = Up(x) BY <2>0 DEF Up
      <4> QED BY <2>0, <3>1, <3>2, <4>1 DEF Calm
    <3> QED BY <2>0, <3>3, SameStatus, CalmStep
  <2> QED BY <1>8, <2>1, <2>2 DEF RunHook
<1> QED BY <1>1, <1>2, <1>3, <1>4, <1>5, <1>6, <1>7, <1>8

LEMMA PublishIdle ==
  ASSUME TypeOK, PubInv, IdleInv, Publish PROVE IdleInv'
<1> USE DEF Switching, BeforeLoop
<1>1. UNCHANGED <<status, todo, started, stopped, cont, purged>>
  BY DEF Publish, PubRead, PubRecord, PubDeliver, PubError
<1>2. CASE pc' = pc BY <1>1, <1>2, SameStatus, CalmStays
<1>3. ASSUME NEW d \in Deployments, pc[d] = "publish", Goto(d, "drain") PROVE IdleInv'
  BY <1>1, <1>3, SameStatus, CalmGoes
<1> QED BY <1>2, <1>3, PublishMoves

\* A deletion removes containers of an app that it has purged.
LEMMA AppIdle ==
  ASSUME TypeOK, IdleInv, NEW a \in Apps,
         HookQueued(a) \/ HoldApp(a) \/ ReleaseApp(a) \/ Delete(a)
  PROVE  IdleInv'
<1> USE DeployAssumption
<1>0. NoNewRunning BY OthersRunning
<1>1. CASE HookQueued(a) \/ HoldApp(a) \/ ReleaseApp(a)
  BY <1>0, <1>1, CalmStays DEF HookQueued, HoldApp, ReleaseApp
<1>2. CASE DeleteLock(a) \/ DeleteRows(a) \/ DeleteUnlock(a)
  BY <1>0, <1>2, CalmStays DEF DeleteLock, DeleteRows, DeleteUnlock
<1>3. CASE DeleteResources(a)
  <2>1. UNCHANGED <<pc, todo, started, stopped>> /\ purged' = purged \cup {a}
    BY <1>3 DEF DeleteResources
  <2>2. \/ cont' = cont
        \/ \E S \in SUBSET SpecTargets[a] :
             cont' = [d \in Deployments |-> [t \in Targets |->
                        IF AppOf[d] = a /\ t \in S THEN "absent" ELSE cont[d][t]]]
    BY <1>3 DEF DeleteResources
  <2>3. ASSUME NEW x \in Deployments
        PROVE  /\ Up(x)' \subseteq Up(x)
               /\ AppOf[x] # a => cont'[x] = cont[x]
    <3>1. cont[x] \in [Targets -> ContStates] BY DEF TypeOK
    <3>2. cont' = cont \/ \E S \in SUBSET SpecTargets[a] :
            cont'[x] = [t \in Targets |->
                          IF AppOf[x] = a /\ t \in S THEN "absent" ELSE cont[x][t]]
      BY <2>2
    <3>3. \A u \in Targets : cont'[x][u] \in {"absent", cont[x][u]} BY <3>2
    <3>4. AppOf[x] # a => cont'[x] = cont[x] BY <3>1, <3>2
    <3> QED BY <3>3, <3>4 DEF Up
  <2>4. ASSUME NEW x \in Deployments PROVE Calm(x) BY <2>1, <2>3 DEF Calm
  <2> QED BY <1>0, <2>1, <2>3, <2>4, CalmStep
<1>4. CASE DeleteHook(a)
  <2>1. UNCHANGED <<todo, started, stopped, cont, purged>> BY <1>4 DEF DeleteHook
  <2>2. CASE UNCHANGED pc BY <1>0, <2>1, <2>2, CalmStays
  <2>3. ASSUME NEW e \in Fresh(a), Goto(e, "locked") PROVE IdleInv'
    <3>1. e \in Deployments /\ pc[e] = "idle" BY <2>3 DEF Fresh, DeploymentsOf
    <3> QED BY <1>0, <2>1, <2>3, <3>1, CalmGoes DEF Switching, BeforeLoop
  <2> QED BY <1>4, <2>2, <2>3 DEF DeleteHook
<1> QED BY <1>1, <1>2, <1>3, <1>4 DEF Delete

\* IdleInv is inductive on top of ServeInv, if nothing disturbs the switch.
LEMMA IdleInductive ==
  ASSUME Undisturbed PROVE Spec => [](TypeOK /\ ServeInv /\ IdleInv)
<1>1. Init => IdleInv
  <2> SUFFICES ASSUME Init PROVE IdleInv OBVIOUS
  <2>1. \A d \in Deployments : Up(d) = {} BY DEF Init, Up
  <2>2. PortOnce BY <2>1, DeployAssumption DEF PortOnce
  <2>3. \A e \in Deployments : StopAt(e) /\ OwnAt(e)
    BY <2>1 DEF Init, StopAt, OwnAt
  <2> QED BY <2>2, <2>3 DEF Init, IdleInv, SlotInv, DownInv
<1>2. TypeOK /\ ServeInv /\ IdleInv /\ [Next]_vars => IdleInv'
  <2> SUFFICES ASSUME TypeOK, ServeInv, IdleInv, [Next]_vars PROVE IdleInv'
    OBVIOUS
  <2>0. LockInv /\ PubInv /\ LoopInv /\ SwitchInv BY DEF ServeInv
  <2>1. /\ ~MayFail("runtime") /\ ~MayFail("store")
        /\ \A e \in HostPort \ Git : \A v, u \in TargetsOf[e] : v = u
    BY DEF Undisturbed
  <2>2. ~Restart BY DEF Undisturbed, Restart, TypeOK
  <2>3. CASE UNCHANGED vars BY <2>3, SameStatus, CalmStays DEF vars
  <2>4. ASSUME NEW d \in Deployments, Job(d) PROVE IdleInv'
    BY <2>0, <2>1, <2>4, LightIdle, RecordIdle, StopOldIdle, LaunchIdle, ProbeIdle,
       UndoIdle, RestartOldIdle, FinishIdle, RemoveOldIdle DEF Job
  <2> QED BY <2>0, <2>2, <2>3, <2>4, RequestIdle, PublishIdle, AppIdle DEF Next
<1> QED BY <1>1, <1>2, ServeInductive, PTL DEF Spec

\* With a fixed host port the switch stops the old containers first.  If no call fails and
\* the server does not crash, an app that nothing holds has the containers of its running
\* deployment on every target: a failed switch frees the port, also for a container that
\* was probed or half removed, and starts again everything that it stopped.
THEOREM IdleApps == ASSUME Undisturbed PROVE Spec => []IdleServes
<1>1. LockInv /\ IdleInv => IdleServes
  <2> SUFFICES ASSUME LockInv, IdleInv, NEW d \in Deployments, status[d] = "running",
                      AppOf[d] \notin busy \cup purged, NEW t \in TargetsOf[d],
                      cont[d][t] # "running"
               PROVE  FALSE
    BY DEF IdleServes, Serves
  <2>0. Listed(d, t) BY DEF IdleInv, DownInv
  <2>1. PICK e \in Deployments : AppOf[e] = AppOf[d] /\ pc[e] \in Switching
    BY <2>0 DEF Listed
  <2>2. pc[e] \in HeldPcs BY <2>1, HeldNames DEF Switching
  <2> QED BY <2>1, <2>2 DEF LockInv
<1>2. ServeInv => LockInv BY DEF ServeInv
<1> QED BY <1>1, <1>2, IdleInductive, PTL

-----------------------------------------------------------------------------
(* What the users of an app see.  From here on no call fails and no app has *)
(* a fixed host port: a failed listing or a stopped container takes traffic *)
(* from a deployment that AppService keeps.                                 *)

\* The variables of AppService, as Deploy has them.
Live       == {s \in Deployments \X Targets : cont[s[1]][s[2]] = "running"}
StageOf(s) == CASE s = "running" -> "current"
                [] s = "superseded" -> "past"
                [] OTHER -> "new"
Stage      == [d \in Deployments |-> StageOf(status[d])]

\* The app is not between the removal of its containers and the end of its rows.
Kept(a) == a \in alive /\ holder[a] # "removed"

\* The servers in S are running containers of the app a that is or was current.
Good(S, a) == \A s \in S :
  /\ s[1] \in Deployments /\ s[2] \in Targets /\ AppOf[s[1]] = a
  /\ cont[s[1]][s[2]] = "running" /\ status[s[1]] \in Past

\* A deletion ends what it began, only an app that exists has rows, and the publisher of
\* a deletion waits until its own publish ends.
LifeInv ==
  /\ \A a \in Apps : holder[a] # "failed"
  /\ \A a \in Apps \ purged : Kept(a)
  /\ \A d \in Deployments : status[d] # "none" => AppOf[d] \in alive
  /\ pub.step # "free" /\ pub.owner \in Apps => holder[pub.owner] = "publish"

\* What the proxy has, what it will get and what a publisher has read.
RouteInv ==
  /\ \A a \in Apps : Kept(a) => Good(route[a], a)
  /\ pub.step = "recorded" => \A a \in Apps : Kept(a) => Good(sent.servers[a], a)
  /\ pub.step # "recorded" => route = sent.servers
  /\ pub.step # "free" => \A e \in pub.view : Kept(AppOf[e]) => status[e] \in Past

\* From its own publish on, the deployment d is the only one of its app that is read,
\* recorded or routed: what it removes gets no traffic and will get none.
AloneAt(d) ==
  /\ pc[d] = "drain" => \A s \in route[AppOf[d]] : s[1] = d
  /\ pc[d] = "drain" \/ (pc[d] = "publish" /\ pub.owner = d) =>
       /\ pub.step # "free" => \A e \in pub.view : AppOf[e] = AppOf[d] => e = d
       /\ pub.step = "recorded" => \A s \in sent.servers[AppOf[d]] : s[1] = d

AloneInv == \A d \in Deployments : AloneAt(d)

\* The inductive invariant behind the refinement.
SeenInv ==
  TypeOK /\ ServeInv /\ RowInv /\ LifeInv /\ RouteInv /\ AloneInv

\* A server of an app that is kept gets traffic, or will get it.
InUse(s) == \E a \in Apps :
  /\ Kept(a)
  /\ s \in route[a] \/ (pub.step = "recorded" /\ s \in sent.servers[a])

\* A step that switches, publishes and deletes nothing.
Quiet ==
  /\ UNCHANGED <<purged, alive, sent, route, pub>>
  /\ \A e \in Deployments :
       /\ status[e] \in Past \/ status'[e] \in Past => status'[e] = status[e]
       /\ status'[e] # "none" => status[e] # "none" \/ AppOf[e] \in alive
       /\ pc'[e] \in {"publish", "drain"} => pc'[e] = pc[e]
  /\ \A a \in Apps : holder'[a] # holder[a] =>
       holder[a] \notin {"removed", "publish"} /\ holder'[a] \notin {"removed", "failed"}

\* The container states that a quiet step leaves to the servers in use.
UsedRun == \A s : InUse(s) => cont'[s[1]][s[2]] = "running"

\* What AppService calls a status.
LEMMA StageValues ==
  /\ StageOf("running") = "current" /\ StageOf("superseded") = "past"
  /\ \A s : s \notin Past => StageOf(s) = "new"
BY DEF StageOf, Past

\* The stages stay if the rows that are or were current stay.
LEMMA StageSame ==
  ASSUME \A e \in Deployments :
           status[e] \in Past \/ status'[e] \in Past => status'[e] = status[e]
  PROVE  Stage' = Stage
<1>1. \A e \in Deployments : StageOf(status'[e]) = StageOf(status[e])
  BY StageValues
<1> QED BY <1>1 DEF Stage

\* The servers in use run and are or were current.
LEMMA UsedGood ==
  ASSUME RouteInv, NEW s, InUse(s)
  PROVE  /\ s[1] \in Deployments /\ s[2] \in Targets
         /\ cont[s[1]][s[2]] = "running" /\ status[s[1]] \in Past
BY DEF RouteInv, InUse, Good

\* A quiet step keeps what the users see in order, if it leaves the servers in use.
LEMMA QuietInv ==
  ASSUME TypeOK, LifeInv, RouteInv, AloneInv, Quiet, UsedRun
  PROVE  LifeInv' /\ RouteInv' /\ AloneInv'
<1> USE DeployAssumption
<1>0. UNCHANGED <<purged, alive, sent, route, pub>> BY DEF Quiet
<1>1. \A a \in Apps : Kept(a)' <=> Kept(a) BY DEF Quiet, Kept
<1>2. LifeInv'
  <2>1. \A a \in Apps : holder'[a] # "failed" BY DEF LifeInv, Quiet
  <2>2. \A a \in Apps \ purged' : Kept(a)' BY <1>0, <1>1 DEF LifeInv
  <2>3. \A d \in Deployments : status'[d] # "none" => AppOf[d] \in alive'
    BY <1>0 DEF LifeInv, Quiet
  <2>4. pub'.step # "free" /\ pub'.owner \in Apps => holder'[pub'.owner] = "publish"
    BY <1>0 DEF LifeInv, Quiet
  <2> QED BY <2>1, <2>2, <2>3, <2>4 DEF LifeInv
<1>3. \A e \in Deployments : status[e] \in Past => status'[e] \in Past BY DEF Quiet
<1>4. RouteInv'
  <2>1. ASSUME NEW a \in Apps, Kept(a)' PROVE Good(route[a], a)'
    <3>1. Good(route[a], a) BY <1>1, <2>1 DEF RouteInv
    <3>2. \A s \in route[a] : InUse(s) BY <1>1, <2>1 DEF InUse
    <3> QED BY <1>0, <1>3, <3>1, <3>2 DEF Good, UsedRun
  <2>2. ASSUME pub'.step = "recorded", NEW a \in Apps, Kept(a)'
        PROVE  Good(sent.servers[a], a)'
    <3>1. Good(sent.servers[a], a) BY <1>0, <1>1, <2>2 DEF RouteInv
    <3>2. \A s \in sent.servers[a] : InUse(s) BY <1>0, <1>1, <2>2 DEF InUse
    <3> QED BY <1>0, <1>3, <3>1, <3>2 DEF Good, UsedRun
  <2>3. pub'.step # "recorded" => route' = sent'.servers BY <1>0 DEF RouteInv
  <2>4. ASSUME pub'.step # "free", NEW e \in pub'.view, Kept(AppOf[e])'
        PROVE  status'[e] \in Past
    <3>1. e \in Deployments /\ e \in pub.view BY <1>0, <2>4 DEF TypeOK
    <3> QED BY <1>0, <1>1, <1>3, <2>4, <3>1 DEF RouteInv
  <2> QED BY <2>1, <2>2, <2>3, <2>4 DEF RouteInv
<1>5. AloneInv'
  <2> SUFFICES ASSUME NEW d \in Deployments PROVE AloneAt(d)' BY DEF AloneInv
  <2>1. AloneAt(d) BY DEF AloneInv
  <2>2. pc'[d] \in {"publish", "drain"} => pc'[d] = pc[d] BY DEF Quiet
  <2> QED BY <1>0, <2>1, <2>2 DEF AloneAt
<1> QED BY <1>2, <1>4, <1>5

\* Such a step starts or stops containers for AppService.
LEMMA QuietService ==
  ASSUME HostPort = {}, TypeOK, TypeOK', ServeInv', LifeInv, Quiet, UsedRun,
         Live \subseteq Live' \/ Live' \subseteq Live
  PROVE  Service!ServiceNext
<1> USE DeployAssumption
<1>1. Stage' = Stage BY StageSame DEF Quiet
<1>2. UNCHANGED <<route, purged>> BY DEF Quiet
<1>3. CASE Live \subseteq Live'
  <2>1. Service!Start
    BY <1>1, <1>2, <1>3 DEF Service!Start, Live, Stage, StageOf
  <2> QED BY <2>1 DEF Service!ServiceNext
<1>4. CASE Live' \subseteq Live
  <2>1. ASSUME NEW a \in Apps \ purged, NEW s \in route[a] PROVE s \in Live'
    <3>1. InUse(s) BY <2>1 DEF InUse, LifeInv
    <3>2. s \in Deployments \X Targets BY <2>1 DEF TypeOK, Servers
    <3> QED BY <3>1, <3>2 DEF UsedRun, Live
  <2>2. ASSUME NEW d \in Deployments, Stage[d] = "current", AppOf[d] \notin purged,
               NEW s \in {d} \X TargetsOf[d]
        PROVE  s \in Live'
    <3>1. status[d] = "running" BY <2>2, StageValues DEF Stage, Past
    <3>2. status'[d] = "running" BY <3>1 DEF Quiet, Past
    <3>3. Serves(d)' BY <1>2, <2>2, <3>2 DEF ServeInv, RunningServes
    <3> QED BY <2>2, <3>3 DEF Serves, Live
  <2> DEFINE Of(d) == {d} \X TargetsOf[d]
             Currents == {e \in Deployments :
                            Stage[e] = "current" /\ AppOf[e] \notin purged}
             Routed   == UNION {route[a] : a \in Apps \ purged}
             Running  == UNION {Of(d) : d \in Currents}
  <2>3. Service!Needed = Routed \cup Running
    BY DEF Service!Needed, Service!ContainersOf, Stage, StageOf
  <2>4. Routed \subseteq Live' BY <2>1
  <2>5. Running \subseteq Live'
    <3>1. ASSUME NEW d \in Currents, NEW s \in Of(d) PROVE s \in Live'
      BY <2>2, <3>1
    <3> HIDE DEF Of, Currents
    <3> QED BY <3>1
  <2> HIDE DEF Of, Currents, Routed, Running
  <2>6. Service!Needed \subseteq Live' BY <2>3, <2>4, <2>5
  <2>7. Service!Stop
    BY <1>1, <1>2, <1>4, <2>6 DEF Service!Stop, Live, Stage, StageOf
  <2> QED BY <2>7 DEF Service!ServiceNext
<1> QED BY <1>3, <1>4

\* A step that touches no container leaves the servers in use.
LEMMA SameLive ==
  ASSUME RouteInv, UNCHANGED cont PROVE UsedRun /\ Live \subseteq Live'
<1>1. UsedRun BY UsedGood DEF UsedRun
<1>2. Live \subseteq Live' BY DEF Live
<1> QED BY <1>1, <1>2

\* A step of d outside publish and drain, with a row that is not and was not current.
LEMMA QuietMove ==
  ASSUME TypeOK, NEW d \in Deployments, NEW w, Goto(d, w),
         w \notin {"publish", "drain"},
         UNCHANGED <<purged, alive, holder, sent, route, pub>>,
         \A e \in Deployments \ {d} : status'[e] = status[e],
         \/ status'[d] = status[d]
         \/ /\ status[d] \notin Past /\ status'[d] \notin Past
            /\ status[d] # "none" \/ AppOf[d] \in alive
  PROVE  Quiet
<1>1. \A x \in Deployments : pc'[x] = IF x = d THEN w ELSE pc[x] BY DEF TypeOK, Goto
<1> QED BY <1>1 DEF Quiet

\* A step of d that writes no row.
LEMMA QuietGoes ==
  ASSUME TypeOK, NEW d \in Deployments, NEW w, Goto(d, w),
         w \notin {"publish", "drain"},
         UNCHANGED <<status, purged, alive, holder, sent, route, pub>>
  PROVE  Quiet
BY QuietMove

\* A step that writes no row and moves no deployment.
LEMMA QuietStill ==
  ASSUME UNCHANGED <<status, pc, purged, alive, holder, sent, route, pub>>
  PROVE  Quiet
BY DEF Quiet

\* A status that SetStatus writes below Past.
LEMMA QuietSet ==
  ASSUME TypeOK, RowInv, NEW d \in Deployments, NEW w, Goto(d, w),
         w \notin {"publish", "drain"}, pc[d] \notin AfterFinish,
         UNCHANGED <<purged, alive, holder, sent, route, pub>>,
         NEW s, s \notin Past, SetStatus(d, s)
  PROVE  Quiet
<1>1. status \in [Deployments -> Statuses] BY DEF TypeOK
<1>2. status[d] \notin Past BY DEF RowInv, Fits
<1>3. \A e \in Deployments :
        status'[e] = IF e = d /\ status[d] # "none" THEN s ELSE status[e]
  BY <1>1 DEF SetStatus
<1> QED BY <1>2, <1>3, QuietMove

\* No request is seen by the users of the app.
LEMMA RequestQuiet ==
  ASSUME TypeOK, RowInv, NEW d \in Deployments, Request(d)
  PROVE  Quiet /\ UNCHANGED cont
<1>s. status \in [Deployments -> Statuses] BY DEF TypeOK
<1>f. Fits(pc[d], status[d]) BY DEF RowInv
<1>c. UNCHANGED cont
  BY DEF Request, DeployRequest, InsertRow, SpawnJob, PendUnlock, InsertPending,
     ApproveLock, ApproveUpdate, Reject, RollbackRequest
<1>1. CASE DeployRequest(d) BY <1>1, QuietGoes DEF DeployRequest, LockFor
<1>2. CASE InsertRow(d)
  <2>1. status[d] = "none" BY <1>2, <1>f DEF InsertRow, Fits, Early
  <2>2. CASE AppOf[d] \in alive /\ status' = [status EXCEPT ![d] = "queued"]
             /\ Goto(d, "inserted")
    BY <1>2, <1>s, <2>1, <2>2, QuietMove DEF InsertRow, Past
  <2>3. CASE Goto(d, "done") /\ UNCHANGED status
    BY <1>2, <2>3, QuietGoes DEF InsertRow
  <2> QED BY <1>2, <2>2, <2>3 DEF InsertRow, Unlock
<1>3. CASE SpawnJob(d) BY <1>3, QuietGoes DEF SpawnJob, Unlock
<1>4. CASE PendUnlock(d) BY <1>4, QuietGoes DEF PendUnlock, Unlock
<1>5. CASE InsertPending(d)
  <2>1. status[d] = "none" BY <1>5, <1>f DEF InsertPending, Fits, Early
  <2>2. CASE AppOf[d] \in alive /\ status' = [status EXCEPT ![d] = "pending_approval"]
             /\ Goto(d, "parked")
    BY <1>5, <1>s, <2>1, <2>2, QuietMove DEF InsertPending, Past
  <2>3. CASE Goto(d, "done") /\ UNCHANGED status
    BY <1>5, <2>3, QuietGoes DEF InsertPending
  <2> QED BY <1>5, <2>2, <2>3 DEF InsertPending
<1>6. CASE ApproveLock(d) BY <1>6, QuietGoes DEF ApproveLock, LockFor
<1>7. CASE ApproveUpdate(d)
  <2>1. CASE SetStatus(d, "queued") /\ Goto(d, "start")
    BY <1>7, <2>1, QuietSet DEF ApproveUpdate, AfterFinish, Past
  <2>2. CASE Goto(d, "parked") /\ UNCHANGED status
    BY <1>7, <2>2, QuietGoes DEF ApproveUpdate
  <2> QED BY <1>7, <2>1, <2>2 DEF ApproveUpdate, Unlock
<1>8. CASE Reject(d)
  <2>1. \A x \in Deployments : status'[x] = IF x = d THEN "cancelled" ELSE status[x]
    BY <1>8, <1>s DEF Reject, SetStatus
  <2> QED BY <1>8, <2>1 DEF Reject, Quiet, Past
<1>9. ASSUME NEW s \in Deployments, RollbackRequest(d, s) PROVE Quiet
  BY <1>9, QuietGoes DEF RollbackRequest, LockFor
<1> QED BY <1>c, <1>1, <1>2, <1>3, <1>4, <1>5, <1>6, <1>7, <1>8, <1>9 DEF Request

\* The steps of a pipeline that touch no container are not seen before the switch.
LEMMA JobQuiet ==
  ASSUME TypeOK, RowInv, NEW d \in Deployments,
         \/ Start(d) \/ AcquirePermit(d) \/ Built(d) \/ Pulled(d) \/ Record(d)
         \/ \E t \in Targets : ProbeOk(d, t)
         \/ Fail(d) \/ RemoveToken(d) \/ UnlockJob(d)
         \/ PendHook(d) \/ Drained(d) \/ RunHook(d)
  PROVE  Quiet /\ UNCHANGED cont
<1>c. UNCHANGED cont
  BY DEF Start, AcquirePermit, Built, Pulled, Record, ProbeOk, Fail, RemoveToken,
     UnlockJob, PendHook, Drained, Dequeue, RunHook
<1>1. CASE Start(d)
  BY <1>1, QuietSet, QuietGoes DEF Start, AfterFinish, Past
<1>2. CASE Built(d)
  BY <1>2, QuietSet, QuietGoes DEF Built, AfterFinish, Past
<1>3. CASE Fail(d)
  BY <1>3, QuietSet, QuietGoes DEF Fail, AfterFinish, Past
<1>4. CASE AcquirePermit(d) \/ Pulled(d) \/ Record(d)
  BY <1>4, QuietGoes DEF AcquirePermit, Pulled, Record
<1>5. ASSUME NEW t \in Targets, ProbeOk(d, t) PROVE Quiet
  BY <1>5, QuietGoes DEF ProbeOk
<1>6. CASE RemoveToken(d) \/ UnlockJob(d)
  BY <1>6, QuietGoes DEF RemoveToken, UnlockJob, Unlock
<1>7. CASE PendHook(d) \/ Drained(d)
  BY <1>7, QuietGoes DEF PendHook, Drained, Dequeue
<1>8. CASE RunHook(d)
  <2> DEFINE next == IF pc[d] = "hook" THEN "done" ELSE "pend"
  <2>1. UNCHANGED <<status, purged, alive, holder, sent, route, pub>>
    BY <1>8 DEF RunHook
  <2>2. CASE Goto(d, next)
    <3>1. \E w \in {"done", "pend"} : Goto(d, w) BY <2>2
    <3> QED BY <1>c, <2>1, <3>1, QuietGoes
  <2>3. ASSUME NEW e \in Fresh(AppOf[d]), pc' = [pc EXCEPT ![d] = next, ![e] = "locked"]
        PROVE  Quiet
    <3>1. \A x \in Deployments : pc'[x] \in {"publish", "drain"} => pc'[x] = pc[x]
      BY <2>3 DEF TypeOK, Fresh, DeploymentsOf
    <3> QED BY <2>1, <3>1 DEF Quiet
  <2> QED BY <1>8, <2>2, <2>3 DEF RunHook
<1> QED BY <1>c, <1>1, <1>2, <1>3, <1>4, <1>5, <1>6, <1>7, <1>8

\* The locks of a backup and of a deletion are not seen.
LEMMA HolderQuiet ==
  ASSUME TypeOK, LifeInv, NEW a \in Apps,
         \/ HookQueued(a) \/ HoldApp(a) \/ ReleaseApp(a)
         \/ DeleteLock(a) \/ DeleteUnlock(a) \/ DeleteHook(a)
  PROVE  Quiet /\ UNCHANGED cont
<1>h. holder \in [Apps -> HolderStates] BY DEF TypeOK
<1>c. UNCHANGED <<cont, status, purged, alive, sent, route, pub>>
  BY DEF HookQueued, HoldApp, ReleaseApp, DeleteLock, DeleteUnlock, DeleteHook
<1>1. \A b \in Apps : holder'[b] # holder[b] =>
        holder[b] \notin {"removed", "publish"} /\ holder'[b] \notin {"removed", "failed"}
  <2>1. CASE HookQueued(a) BY <2>1 DEF HookQueued
  <2>2. CASE HoldApp(a) BY <1>h, <2>2 DEF HoldApp
  <2>3. CASE ReleaseApp(a) BY <1>h, <2>3 DEF ReleaseApp
  <2>4. CASE DeleteLock(a) BY <1>h, <2>4 DEF DeleteLock
  <2>5. CASE DeleteUnlock(a) BY <1>h, <2>5 DEF DeleteUnlock
  <2>6. CASE DeleteHook(a)
    <3>1. /\ holder[a] \in {"hook", "hooklock"}
          /\ \E h \in {"free", "hooklock"} : holder' = [holder EXCEPT ![a] = h]
      BY <2>6 DEF DeleteHook
    <3> QED BY <1>h, <3>1
  <2> QED BY <2>1, <2>2, <2>3, <2>4, <2>5, <2>6
<1>2. pc' = pc \/ \E e \in Fresh(a) : Goto(e, "locked")
  BY DEF HookQueued, HoldApp, ReleaseApp, DeleteLock, DeleteUnlock, DeleteHook
<1>3. \A x \in Deployments : pc'[x] \in {"publish", "drain"} => pc'[x] = pc[x]
  BY <1>2 DEF TypeOK, Goto, Fresh, DeploymentsOf
<1> QED BY <1>c, <1>1, <1>3 DEF Quiet

\* The steps that start and stop containers leave the ones in use: a pipeline changes its
\* own, which are not current, and the ones that it has replaced.
LEMMA ContQuiet ==
  ASSUME Faults = {}, HostPort = {}, TypeOK, ServeInv, RowInv, RouteInv, AloneInv,
         NEW d \in Deployments,
         \/ Undo(d) \/ RestartStopped(d) \/ RemoveOld(d)
         \/ \E t \in Targets : StopOld(d, t) \/ Launch(d, t) \/ ProbeFail(d, t)
  PROVE  Quiet /\ UsedRun /\ (Live \subseteq Live' \/ Live' \subseteq Live)
<1> USE DeployAssumption
<1>c. cont \in [Deployments -> [Targets -> ContStates]] BY DEF TypeOK
<1>f. Fits(pc[d], status[d]) /\ LoopAt(d) BY DEF RowInv, ServeInv, LoopInv
<1>0. Quiet
  <2>1. CASE Undo(d) \/ RestartStopped(d) \/ RemoveOld(d)
    BY <2>1, QuietGoes, QuietStill DEF Undo, RestartStopped, RemoveOld
  <2>2. ASSUME NEW t \in Targets, StopOld(d, t) \/ Launch(d, t) \/ ProbeFail(d, t)
        PROVE  Quiet
    BY <2>2, QuietGoes, QuietStill DEF StopOld, Launch, ProbeFail
  <2> QED BY <2>1, <2>2
\* The containers of S on t change to x.
<1>1. ASSUME NEW t \in Targets, NEW S, NEW x \in ContStates, SetContainers(S, t, x)
      PROVE  \A e \in Deployments : \A u \in Targets :
               cont'[e][u] = IF e \in S /\ u = t THEN x ELSE cont[e][u]
  BY <1>1, <1>c DEF SetContainers
<1>2. ASSUME NEW t \in Targets, NEW S, NEW x \in ContStates, SetContainers(S, t, x),
             x # "running" => \A s : InUse(s) => s[1] \notin S
      PROVE  UsedRun /\ (Live \subseteq Live' \/ Live' \subseteq Live)
  <2>1. UsedRun
    BY <1>1, <1>2, UsedGood DEF UsedRun
  <2>2. \A s \in Deployments \X Targets :
          cont'[s[1]][s[2]] = IF s[1] \in S /\ s[2] = t THEN x ELSE cont[s[1]][s[2]]
    BY <1>1, <1>2
  <2>3. Live \subseteq Live' \/ Live' \subseteq Live BY <2>2 DEF Live
  <2> QED BY <2>1, <2>3
<1>3. CASE cont' = cont BY <1>0, <1>3, SameLive
<1>4. ASSUME pc[d] \in Middle PROVE \A s : InUse(s) => s[1] \notin {d}
  <2>1. status[d] \notin Past BY <1>f, <1>4 DEF Fits, Active, Past
  <2> QED BY <2>1, UsedGood
<1>5. ASSUME NEW t \in Targets, StopOld(d, t) PROVE FALSE
  BY <1>5, <1>f DEF StopOld, LoopAt
<1>6. ASSUME NEW t \in Targets, Launch(d, t) \/ ProbeFail(d, t)
      PROVE  UsedRun /\ (Live \subseteq Live' \/ Live' \subseteq Live)
  <2>1. pc[d] \in Middle BY <1>6 DEF Launch, ProbeFail, Middle
  <2>2. cont' = cont \/ \E x \in {"running", "created", "absent"} : SetContainers({d}, t, x)
    BY <1>6 DEF Launch, ProbeFail
  <2> QED BY <1>2, <1>3, <1>4, <2>1, <2>2, ContNames
<1>7. CASE Undo(d)
  <2>1. pc[d] \in Middle BY <1>7 DEF Undo, Middle
  <2>2. cont' = cont \/ \E t \in Targets : SetContainers({d}, t, "absent")
    BY <1>7 DEF Undo, TypeOK
  <2> QED BY <1>0, <1>2, <1>3, <1>4, <2>1, <2>2, ContNames
<1>8. CASE RestartStopped(d)
  <2>1. \A old \in stopped[d] : old[2] \in Targets BY DEF TypeOK, Servers
  <2>2. cont' = cont \/ \E t \in Targets : \E e : SetContainers({e}, t, "running")
    BY <1>8, <2>1 DEF RestartStopped
  <2> QED BY <1>0, <1>2, <1>3, <2>2, ContNames
<1>9. CASE RemoveOld(d)
  <2>1. pc[d] = "drain" BY <1>9 DEF RemoveOld
  <2>2. cont' = cont \/ \E t \in Targets : SetContainers(OldContainers(d), t, "absent")
    BY <1>9 DEF RemoveOld, TypeOK, MayFail
  <2>3. ASSUME NEW s, InUse(s) PROVE s[1] \notin OldContainers(d)
    <3>1. PICK a \in Apps : /\ Kept(a)
                            /\ \/ s \in route[a]
                               \/ pub.step = "recorded" /\ s \in sent.servers[a]
      BY <2>3 DEF InUse
    <3>2. AppOf[s[1]] = a BY <3>1 DEF RouteInv, Good
    <3>3. AppOf[d] = a => s[1] = d BY <2>1, <3>1 DEF AloneInv, AloneAt
    <3> QED BY <3>2, <3>3 DEF OldContainers, DeploymentsOf
  <2> QED BY <1>0, <1>2, <1>3, <2>2, <2>3, ContNames
<1> QED BY <1>0, <1>5, <1>6, <1>7, <1>8, <1>9

\* The switch: the containers of d run, and what the app is routed to runs.
LEMMA FinishSeen ==
  ASSUME Faults = {}, HostPort = {}, SeenInv, NEW d \in Deployments, Finish(d)
  PROVE  LifeInv' /\ RouteInv' /\ AloneInv' /\ Service!ServiceNext
<1> USE DeployAssumption
<1>i. /\ TypeOK /\ LockInv /\ PubInv /\ LoopAt(d) /\ RowInv /\ LifeInv
      /\ RouteInv /\ AloneInv
  BY DEF SeenInv, ServeInv, LoopInv
<1>1. /\ pc[d] = "finish" /\ Goto(d, "publish") /\ purged' = purged \ {AppOf[d]}
      /\ status' = [e \in Deployments |->
           IF e = d THEN (IF status[d] = "none" THEN "none" ELSE "running")
           ELSE IF AppOf[e] = AppOf[d] /\ status[e] = "running"
           THEN "superseded" ELSE status[e]]
      /\ UNCHANGED <<cont, holder, alive, sent, route, pub>>
  BY DEF Finish, MayFail
<1>2. status[d] \in Active BY <1>i, <1>1 DEF RowInv, Fits, Middle
<1>3. \A e \in Deployments : status'[e] =
        IF e = d THEN "running"
        ELSE IF AppOf[e] = AppOf[d] /\ status[e] = "running" THEN "superseded"
        ELSE status[e]
  BY <1>1, <1>2 DEF Active
<1>4. \A x \in Deployments : pc'[x] = IF x = d THEN "publish" ELSE pc[x]
  BY <1>i, <1>1 DEF TypeOK, Goto
<1>5. Kept(AppOf[d])
  <2>1. AppOf[d] \in alive BY <1>i, <1>2 DEF LifeInv, Active
  <2>2. holder[AppOf[d]] \notin HolderLocks
    BY <1>i, <1>1, HeldNames DEF LockInv, OnePipeline
  <2> QED BY <2>1, <2>2, HolderFacts DEF Kept
<1>6. \A a \in Apps : Kept(a)' <=> Kept(a) BY <1>1 DEF Kept
<1>7. LifeInv'
  <2>1. \A a \in Apps : holder'[a] # "failed" BY <1>i, <1>1 DEF LifeInv
  <2>2. \A a \in Apps \ purged' : Kept(a)' BY <1>i, <1>1, <1>5, <1>6 DEF LifeInv
  <2>3. \A e \in Deployments : status'[e] # "none" => AppOf[e] \in alive'
    BY <1>i, <1>1, <1>3, <1>5 DEF LifeInv, Kept
  <2>4. pub'.step # "free" /\ pub'.owner \in Apps => holder'[pub'.owner] = "publish"
    BY <1>i, <1>1 DEF LifeInv
  <2> QED BY <2>1, <2>2, <2>3, <2>4 DEF LifeInv
<1>8. \A e \in Deployments : status[e] \in Past => status'[e] \in Past
  BY <1>3 DEF Past
<1>9. RouteInv'
  <2>1. ASSUME NEW S, NEW a \in Apps, Good(S, a)
        PROVE  \A s \in S :
                 /\ s[1] \in Deployments /\ s[2] \in Targets /\ AppOf[s[1]] = a
                 /\ cont'[s[1]][s[2]] = "running" /\ status'[s[1]] \in Past
    BY <1>1, <1>8, <2>1 DEF Good
  <2>2. \A a \in Apps : Kept(a)' => Good(route[a], a)'
    BY <1>i, <1>1, <1>6, <2>1 DEF RouteInv, Good
  <2>3. pub'.step = "recorded" => \A a \in Apps : Kept(a)' => Good(sent.servers[a], a)'
    BY <1>i, <1>1, <1>6, <2>1 DEF RouteInv, Good
  <2>4. ASSUME pub'.step # "free", NEW e \in pub'.view, Kept(AppOf[e])'
        PROVE  status'[e] \in Past
    <3>1. e \in Deployments /\ e \in pub.view BY <1>i, <1>1, <2>4 DEF TypeOK
    <3> QED BY <1>i, <1>1, <1>6, <1>8, <2>4, <3>1 DEF RouteInv
  <2>5. pub'.step # "recorded" => route' = sent'.servers BY <1>i, <1>1 DEF RouteInv
  <2> QED BY <2>2, <2>3, <2>4, <2>5 DEF RouteInv
<1>10. AloneInv'
  <2> SUFFICES ASSUME NEW e \in Deployments PROVE AloneAt(e)' BY DEF AloneInv
  <2>1. AloneAt(e) BY <1>i DEF AloneInv
  <2>2. pub.step = "free" \/ pub.owner # d BY <1>i, <1>1 DEF PubInv
  <2>3. CASE e = d BY <1>1, <1>4, <2>2, <2>3 DEF AloneAt
  <2>4. CASE e # d BY <1>1, <1>4, <2>1, <2>4 DEF AloneAt
  <2> QED BY <2>3, <2>4
<1>11. Service!Switch(d)
  <2>1. {d} \X TargetsOf[d] \subseteq Live
    <3>1. \A t \in TargetsOf[d] : cont[d][t] = "running"
      BY <1>i, <1>1 DEF LoopAt
    <3> QED BY <3>1 DEF Live
  <2>2. route[AppOf[d]] \subseteq Live
    <3>1. Good(route[AppOf[d]], AppOf[d]) BY <1>i, <1>5 DEF RouteInv
    <3>2. route[AppOf[d]] \subseteq Deployments \X Targets BY <1>i DEF TypeOK, Servers
    <3> QED BY <3>1, <3>2 DEF Live, Good
  <2>3. Stage' = [e \in Deployments |->
          IF e = d THEN "current"
          ELSE IF AppOf[e] = AppOf[d] /\ Stage[e] = "current" THEN "past" ELSE Stage[e]]
    <3>1. ASSUME NEW e \in Deployments
          PROVE  StageOf(status'[e]) =
                   IF e = d THEN "current"
                   ELSE IF AppOf[e] = AppOf[d] /\ StageOf(status[e]) = "current" THEN "past"
                   ELSE StageOf(status[e])
      <4>1. StageOf(status[e]) = "current" <=> status[e] = "running"
        BY StageValues DEF Past
      <4> QED BY <1>3, <4>1, StageValues
    <3> QED BY <3>1 DEF Stage
  <2>4. Live' = Live BY <1>1 DEF Live
  <2> QED BY <1>1, <2>1, <2>2, <2>3, <2>4
          DEF Service!Switch, Service!ContainersOf, Live, Stage, StageOf
<1> QED BY <1>7, <1>9, <1>10, <1>11 DEF Service!ServiceNext

\* A step that touches no container, no row, no route and no app says nothing to
\* AppService.
LEMMA UnseenService ==
  ASSUME UNCHANGED <<cont, status, route, purged>> PROVE Service!ServiceNext
<1>1. Live' = Live /\ Stage' = Stage BY StageSame DEF Live
<1>2. Service!Start BY <1>1 DEF Service!Start, Live, Stage, StageOf
<1> QED BY <1>2 DEF Service!ServiceNext

\* What a publisher reads: the running row of an app is that of the deployment that waits
\* for its publish or drains.
LEMMA ReadSeen ==
  ASSUME SeenInv, NEW p \in Publishers, PubRead(p)
  PROVE  LifeInv' /\ RouteInv' /\ AloneInv' /\ Service!ServiceNext
<1> USE DeployAssumption
<1>i. TypeOK /\ SwitchInv /\ RowInv /\ LifeInv /\ RouteInv /\ AloneInv
  BY DEF SeenInv, ServeInv
<1>1. /\ pub.step = "free" /\ Wants(p)
      /\ pub' = [step |-> "read", owner |-> p,
                 view |-> {d \in Deployments : status[d] = "running"}]
      /\ UNCHANGED <<status, cont, pc, holder, alive, purged, sent, route>>
  BY DEF PubRead
<1>2. /\ pub'.step = "read" /\ pub'.owner = p
      /\ pub'.view = {d \in Deployments : status[d] = "running"}
  BY <1>1
<1>3. \A a \in Apps : Kept(a)' <=> Kept(a) BY <1>1 DEF Kept
<1>4. LifeInv'
  <2>1. p \in Apps => holder[p] = "publish" BY <1>1 DEF Wants
  <2> QED BY <1>i, <1>1, <1>2, <1>3, <2>1 DEF LifeInv
<1>5. RouteInv'
  <2>1. \A a \in Apps : Kept(a)' => Good(route[a], a)' BY <1>i, <1>1, <1>3 DEF RouteInv, Good
  <2>2. route' = sent'.servers BY <1>i, <1>1 DEF RouteInv
  <2>3. \A e \in pub'.view : status'[e] \in Past BY <1>1, <1>2 DEF Past
  <2> QED BY <1>2, <2>1, <2>2, <2>3 DEF RouteInv
<1>6. AloneInv'
  <2> SUFFICES ASSUME NEW d \in Deployments PROVE AloneAt(d)' BY DEF AloneInv
  <2>1. AloneAt(d) BY <1>i DEF AloneInv
  <2>2. ASSUME pc[d] \in {"publish", "drain"}, NEW e \in pub'.view, AppOf[e] = AppOf[d]
        PROVE  e = d
    BY <1>i, <1>2, <2>2 DEF SwitchInv, DeploymentsOf
  <2> QED BY <1>1, <1>2, <2>1, <2>2 DEF AloneAt
<1> QED BY <1>1, <1>4, <1>5, <1>6, UnseenService

\* The end of a publish: the mutex is free and its holder goes on.
LEMMA DoneSeen ==
  ASSUME TypeOK, PubInv, LifeInv, PubDone, pub.step # "free",
         UNCHANGED <<status, alive, purged>>
  PROVE  /\ LifeInv' /\ pub'.step = "free"
         /\ \A a \in Apps : Kept(a)' <=> Kept(a)
         /\ \A x \in Deployments : pc'[x] = "drain" =>
              \/ pc[x] = "drain"
              \/ pc[x] = "publish" /\ pub.owner = x
<1> USE DeployAssumption
<1>1. pub'.step = "free" BY DEF PubDone, PubFree
<1>2. \A a \in Apps : holder'[a] # holder[a] => holder[a] = "publish" /\ holder'[a] = "free"
  <2>1. holder \in [Apps -> HolderStates] BY DEF TypeOK
  <2>2. CASE pub.owner \notin Apps BY <2>2 DEF PubDone
  <2>3. CASE pub.owner \in Apps
    <3>1. holder' = [holder EXCEPT ![pub.owner] = "free"] BY <2>3 DEF PubDone
    <3>2. holder[pub.owner] = "publish" BY <2>3 DEF LifeInv
    <3> QED BY <2>1, <2>3, <3>1, <3>2
  <2> QED BY <2>2, <2>3
<1>3. \A a \in Apps : Kept(a)' <=> Kept(a) BY <1>2 DEF Kept
<1>4. LifeInv' BY <1>1, <1>2, <1>3 DEF LifeInv
<1>5. \A x \in Deployments : pc'[x] = "drain" =>
        \/ pc[x] = "drain"
        \/ pc[x] = "publish" /\ pub.owner = x
  <2>1. CASE pub.owner \notin Deployments BY <2>1 DEF PubDone
  <2>2. CASE pub.owner \in Deployments
    <3>1. pc' = [pc EXCEPT ![pub.owner] = "drain"] BY <2>2 DEF PubDone
    <3>2. pc[pub.owner] = "publish" BY <2>2 DEF PubInv
    <3> QED BY <2>2, <3>1, <3>2 DEF TypeOK
  <2> QED BY <2>1, <2>2
<1> QED BY <1>1, <1>3, <1>4, <1>5

\* The servers of a view: running containers of what was read.
LEMMA RecordSeen ==
  ASSUME SeenInv, PubRecord
  PROVE  LifeInv' /\ RouteInv' /\ AloneInv' /\ Service!ServiceNext
<1> USE DeployAssumption
<1>i. TypeOK /\ PubInv /\ RowInv /\ LifeInv /\ RouteInv /\ AloneInv
  BY DEF SeenInv, ServeInv
<1> DEFINE read == ServersOf(pub.view)
<1>1. pub.step = "read" /\ UNCHANGED <<status, cont, alive, purged, route>>
  BY DEF PubRecord
<1>2. \A a \in Apps : \A s \in read[a] :
        /\ s[1] \in pub.view /\ s[1] \in Deployments /\ s[2] \in Targets
        /\ AppOf[s[1]] = a /\ cont[s[1]][s[2]] = "running"
  BY DEF ServersOf
<1> HIDE DEF read
<1>3. Service!ServiceNext BY <1>1, UnseenService
<1>4. ASSUME sent.servers = read, PubDone, UNCHANGED sent
      PROVE  LifeInv' /\ RouteInv' /\ AloneInv'
  <2>1. /\ LifeInv' /\ pub'.step = "free" /\ \A a \in Apps : Kept(a)' <=> Kept(a)
        /\ \A x \in Deployments : pc'[x] = "drain" =>
             pc[x] = "drain" \/ (pc[x] = "publish" /\ pub.owner = x)
    BY <1>i, <1>1, <1>4, DoneSeen
  <2>2. route = sent.servers BY <1>i, <1>1 DEF RouteInv
  <2>3. \A a \in Apps : Kept(a)' => Good(route[a], a)'
    BY <1>i, <1>1, <2>1 DEF RouteInv, Good
  <2>4. RouteInv' BY <1>1, <1>4, <2>1, <2>2, <2>3 DEF RouteInv
  <2>5. ASSUME NEW x \in Deployments, pc'[x] = "drain", NEW s \in route'[AppOf[x]]
        PROVE  s[1] = x
    <3>1. AloneAt(x) BY <1>i DEF AloneInv
    <3>2. s[1] \in pub.view /\ AppOf[s[1]] = AppOf[x]
      BY <1>1, <1>2, <1>4, <2>2, <2>5
    <3> QED BY <1>1, <2>1, <2>5, <3>1, <3>2 DEF AloneAt
  <2>6. AloneInv' BY <2>1, <2>5 DEF AloneInv, AloneAt
  <2> QED BY <2>1, <2>4, <2>6
<1>5. ASSUME sent'.servers = read, pub' = [pub EXCEPT !.step = "recorded"],
             UNCHANGED <<pc, holder>>
      PROVE  LifeInv' /\ RouteInv' /\ AloneInv'
  <2>1. pub'.step = "recorded" /\ pub'.owner = pub.owner /\ pub'.view = pub.view
    BY <1>i, <1>5 DEF TypeOK
  <2>2. \A a \in Apps : Kept(a)' <=> Kept(a) BY <1>1, <1>5 DEF Kept
  <2>3. LifeInv' BY <1>i, <1>1, <1>5, <2>1, <2>2 DEF LifeInv
  <2>4. RouteInv'
    <3>1. \A a \in Apps : Kept(a)' => Good(route[a], a)'
      BY <1>i, <1>1, <2>2 DEF RouteInv, Good
    <3>2. \A e \in pub.view : Kept(AppOf[e]) => status[e] \in Past
      BY <1>i, <1>1 DEF RouteInv
    <3>3. \A a \in Apps : Kept(a)' => Good(sent.servers[a], a)'
      BY <1>1, <1>2, <1>5, <2>2, <3>2 DEF Good
    <3>4. \A e \in pub'.view : Kept(AppOf[e])' => status'[e] \in Past
      BY <1>i, <1>1, <2>1, <2>2, <3>2 DEF TypeOK
    <3> QED BY <2>1, <3>1, <3>3, <3>4 DEF RouteInv
  <2>5. AloneInv'
    <3> SUFFICES ASSUME NEW x \in Deployments PROVE AloneAt(x)' BY DEF AloneInv
    <3>1. AloneAt(x) BY <1>i DEF AloneInv
    <3> QED BY <1>1, <1>2, <1>5, <2>1, <3>1 DEF AloneAt
  <2> QED BY <2>3, <2>4, <2>5
<1>6. \/ sent.servers = read /\ PubDone /\ UNCHANGED sent
      \/ sent'.servers = read /\ pub' = [pub EXCEPT !.step = "recorded"]
         /\ UNCHANGED <<pc, holder>>
  BY DEF PubRecord, read
<1> QED BY <1>3, <1>4, <1>5, <1>6

\* The delivery directs the traffic to what was recorded.
LEMMA DeliverSeen ==
  ASSUME SeenInv, PubDeliver
  PROVE  LifeInv' /\ RouteInv' /\ AloneInv' /\ Service!ServiceNext
<1> USE DeployAssumption
<1>i. TypeOK /\ PubInv /\ RowInv /\ LifeInv /\ RouteInv /\ AloneInv
  BY DEF SeenInv, ServeInv
<1>1. /\ pub.step = "recorded" /\ route' = sent.servers /\ PubDone
      /\ UNCHANGED <<status, cont, alive, purged, sent>>
  BY DEF PubDeliver
<1>2. /\ LifeInv' /\ pub'.step = "free" /\ \A a \in Apps : Kept(a)' <=> Kept(a)
      /\ \A x \in Deployments : pc'[x] = "drain" =>
           pc[x] = "drain" \/ (pc[x] = "publish" /\ pub.owner = x)
  BY <1>i, <1>1, DoneSeen
<1>3. RouteInv'
  <2>1. \A a \in Apps : Kept(a)' => Good(route[a], a)'
    BY <1>i, <1>1, <1>2 DEF RouteInv, Good
  <2> QED BY <1>1, <1>2, <2>1 DEF RouteInv
<1>4. AloneInv'
  <2> SUFFICES ASSUME NEW x \in Deployments PROVE AloneAt(x)' BY DEF AloneInv
  <2>1. AloneAt(x) BY <1>i DEF AloneInv
  <2> QED BY <1>1, <1>2, <2>1 DEF AloneAt
<1>5. Service!Route
  <2>1. Live' = Live /\ Stage' = Stage BY <1>1, StageSame DEF Live
  <2>2. ASSUME NEW a \in Apps \ purged, NEW s \in route'[a]
        PROVE  s \in Live /\ AppOf[s[1]] = a /\ Stage[s[1]] # "new"
    <3>1. Good(sent.servers[a], a) BY <1>i, <1>1 DEF LifeInv, RouteInv
    <3>2. s \in Deployments \X Targets BY <1>i, <1>1 DEF TypeOK, Servers
    <3>3. /\ s[1] \in Deployments /\ AppOf[s[1]] = a /\ status[s[1]] \in Past
          /\ cont[s[1]][s[2]] = "running"
      BY <1>1, <3>1 DEF Good
    <3>4. Stage[s[1]] # "new" BY <3>3, StageValues DEF Stage, Past
    <3> QED BY <3>2, <3>3, <3>4 DEF Live
  <2> QED BY <1>1, <2>1, <2>2 DEF Service!Route, Live, Stage, StageOf
<1> QED BY <1>2, <1>3, <1>4, <1>5 DEF Service!ServiceNext

\* What is routed, recorded and read stays good for the apps that a deletion leaves.
LEMMA OtherAppsSeen ==
  ASSUME TypeOK, RouteInv, AloneInv, NEW a \in Apps, ~Kept(a)',
         \A b \in Apps : Kept(b)' => Kept(b),
         \A e \in Deployments : AppOf[e] # a =>
           status'[e] = status[e] /\ \A t \in Targets : cont'[e][t] = cont[e][t],
         UNCHANGED <<pc, sent, route, pub>>
  PROVE  RouteInv' /\ AloneInv'
<1> USE DeployAssumption
<1>1. RouteInv'
  <2>1. ASSUME NEW b \in Apps, Kept(b)' PROVE Good(route[b], b)'
    BY <2>1 DEF RouteInv, Good
  <2>2. ASSUME pub'.step = "recorded", NEW b \in Apps, Kept(b)'
        PROVE  Good(sent.servers[b], b)'
    BY <2>2 DEF RouteInv, Good
  <2>3. ASSUME pub'.step # "free", NEW e \in pub'.view, Kept(AppOf[e])'
        PROVE  status'[e] \in Past
    <3>1. e \in Deployments /\ e \in pub.view BY <2>3 DEF TypeOK
    <3> QED BY <2>3, <3>1 DEF RouteInv
  <2>4. pub'.step # "recorded" => route' = sent'.servers BY DEF RouteInv
  <2> QED BY <2>1, <2>2, <2>3, <2>4 DEF RouteInv
<1>2. AloneInv' BY DEF AloneInv, AloneAt
<1> QED BY <1>1, <1>2

\* The deletion takes the app from its users.
LEMMA ResourcesSeen ==
  ASSUME Faults = {}, SeenInv, NEW a \in Apps, DeleteResources(a)
  PROVE  LifeInv' /\ RouteInv' /\ AloneInv' /\ Service!ServiceNext
<1> USE DeployAssumption
<1>i. TypeOK /\ LifeInv /\ RouteInv /\ AloneInv BY DEF SeenInv
<1>h. holder \in [Apps -> HolderStates] BY <1>i DEF TypeOK
<1>1. /\ holder[a] = "deleting" /\ holder' = [holder EXCEPT ![a] = "removed"]
      /\ purged' = purged \cup {a}
      /\ UNCHANGED <<status, alive, pc, sent, route, pub>>
  BY DEF DeleteResources, MayFail
<1>2. \A e \in Deployments : \A t \in Targets :
        cont'[e][t] = cont[e][t] \/ (AppOf[e] = a /\ cont'[e][t] = "absent")
  BY DEF DeleteResources
<1>3. ~Kept(a)' /\ \A b \in Apps \ {a} : Kept(b)' <=> Kept(b)
  BY <1>h, <1>1 DEF Kept
<1>4. LifeInv'
  <2>1. \A b \in Apps : holder'[b] # "failed" BY <1>h, <1>i, <1>1 DEF LifeInv
  <2>2. \A b \in Apps \ purged' : Kept(b)' BY <1>i, <1>1, <1>3 DEF LifeInv
  <2>3. pub'.step # "free" /\ pub'.owner \in Apps => holder'[pub'.owner] = "publish"
    BY <1>h, <1>i, <1>1 DEF LifeInv
  <2> QED BY <1>i, <1>1, <2>1, <2>2, <2>3 DEF LifeInv
<1>5. RouteInv' /\ AloneInv' BY <1>i, <1>1, <1>2, <1>3, OtherAppsSeen
<1>6. Service!Delete(a)
  <2>1. Live' \subseteq Live /\ \A s \in Live \ Live' : AppOf[s[1]] = a
    <3>1. \A s \in Deployments \X Targets :
            \/ cont'[s[1]][s[2]] = cont[s[1]][s[2]]
            \/ AppOf[s[1]] = a /\ cont'[s[1]][s[2]] = "absent"
      BY <1>2
    <3> QED BY <3>1 DEF Live
  <2>2. Stage' = Stage BY <1>1, StageSame
  <2> QED BY <1>1, <2>1, <2>2 DEF Service!Delete, Live, Stage, StageOf
<1> QED BY <1>4, <1>5, <1>6 DEF Service!ServiceNext

\* The end of the rows, after the containers of the app are gone.
LEMMA RowsSeen ==
  ASSUME Faults = {}, SeenInv, NEW a \in Apps, DeleteRows(a)
  PROVE  LifeInv' /\ RouteInv' /\ AloneInv' /\ Service!ServiceNext
<1> USE DeployAssumption
<1>i. TypeOK /\ LifeInv /\ RouteInv /\ AloneInv BY DEF SeenInv
<1>h. holder \in [Apps -> HolderStates] BY <1>i DEF TypeOK
<1>1. /\ holder[a] = "removed" /\ holder' = [holder EXCEPT ![a] = "deleted"]
      /\ alive' = alive \ {a}
      /\ status' = [d \in Deployments |-> IF AppOf[d] = a THEN "none" ELSE status[d]]
      /\ UNCHANGED <<cont, purged, pc, sent, route, pub>>
  BY DEF DeleteRows, MayFail
<1>2. a \in purged BY <1>i, <1>1 DEF LifeInv, Kept
<1>3. ~Kept(a)' /\ \A b \in Apps \ {a} : Kept(b)' <=> Kept(b)
  BY <1>h, <1>1 DEF Kept
<1>4. LifeInv'
  <2>1. \A b \in Apps : holder'[b] # "failed" BY <1>h, <1>i, <1>1 DEF LifeInv
  <2>2. \A b \in Apps \ purged' : Kept(b)' BY <1>i, <1>1, <1>2, <1>3 DEF LifeInv
  <2>3. \A d \in Deployments : status'[d] # "none" => AppOf[d] \in alive'
    BY <1>i, <1>1 DEF LifeInv
  <2>4. pub'.step # "free" /\ pub'.owner \in Apps => holder'[pub'.owner] = "publish"
    BY <1>h, <1>i, <1>1 DEF LifeInv
  <2> QED BY <2>1, <2>2, <2>3, <2>4 DEF LifeInv
<1>5. RouteInv' /\ AloneInv' BY <1>i, <1>1, <1>3, OtherAppsSeen
<1>6. Service!Forget(a)
  <2>1. Stage' = [d \in Deployments |-> IF AppOf[d] = a THEN "new" ELSE Stage[d]]
    <3>1. \A d \in Deployments : StageOf(status'[d]) =
            IF AppOf[d] = a THEN "new" ELSE StageOf(status[d])
      BY <1>1, StageValues DEF Past
    <3> QED BY <3>1 DEF Stage
  <2>2. Live' = Live BY <1>1 DEF Live
  <2> QED BY <1>1, <1>2, <2>1, <2>2 DEF Service!Forget, Live, Stage, StageOf
<1> QED BY <1>4, <1>5, <1>6 DEF Service!ServiceNext

\* A restart directs no traffic until the first publish, and keeps the containers.
LEMMA RestartSeen ==
  ASSUME SeenInv, Restart
  PROVE  LifeInv' /\ RouteInv' /\ AloneInv' /\ Service!ServiceNext
<1> USE DeployAssumption
<1>i. TypeOK /\ LifeInv BY DEF SeenInv
<1>1. /\ \A a \in Apps : holder'[a] = "free" /\ route'[a] = {}
      /\ sent'.servers = route' /\ pub'.step = "free"
      /\ \A d \in Deployments : /\ pc'[d] \notin {"publish", "drain"}
                                /\ status'[d] = AfterRestart(status[d])
      /\ UNCHANGED <<cont, alive, purged>>
  BY DEF Restart, NoServers, Unsent, PubFree
<1>2. LifeInv'
  <2>1. \A d \in Deployments : status'[d] # "none" => AppOf[d] \in alive'
    BY <1>i, <1>1 DEF LifeInv, AfterRestart, Active
  <2>2. \A a \in Apps \ purged' : Kept(a)' BY <1>i, <1>1 DEF LifeInv, Kept
  <2> QED BY <1>1, <2>1, <2>2 DEF LifeInv
<1>3. RouteInv' BY <1>1 DEF RouteInv, Good
<1>4. AloneInv' BY <1>1 DEF AloneInv, AloneAt
<1>5. Service!Route
  <2>1. \A e \in Deployments :
          status[e] \in Past \/ status'[e] \in Past => status'[e] = status[e]
    BY <1>1 DEF AfterRestart, Past, Active
  <2>2. Live' = Live /\ Stage' = Stage BY <1>1, <2>1, StageSame DEF Live
  <2> QED BY <1>1, <2>2 DEF Service!Route, Live, Stage, StageOf
<1> QED BY <1>2, <1>3, <1>4, <1>5 DEF Service!ServiceNext

\* Every step is a step of AppService.
LEMMA NextSeen ==
  ASSUME Faults = {}, HostPort = {}, SeenInv, TypeOK', ServeInv', Next
  PROVE  LifeInv' /\ RouteInv' /\ AloneInv' /\ Service!ServiceNext
<1>i. TypeOK /\ ServeInv /\ RowInv /\ LifeInv /\ RouteInv /\ AloneInv BY DEF SeenInv
<1>1. ASSUME Quiet, UNCHANGED cont
      PROVE  LifeInv' /\ RouteInv' /\ AloneInv' /\ Service!ServiceNext
  BY <1>i, <1>1, SameLive, QuietInv, QuietService
<1>2. ASSUME Quiet, UsedRun, Live \subseteq Live' \/ Live' \subseteq Live
      PROVE  LifeInv' /\ RouteInv' /\ AloneInv' /\ Service!ServiceNext
  BY <1>i, <1>2, QuietInv, QuietService
<1>3. ASSUME NEW d \in Deployments, Request(d)
      PROVE  LifeInv' /\ RouteInv' /\ AloneInv' /\ Service!ServiceNext
  BY <1>i, <1>1, <1>3, RequestQuiet
<1>4. ASSUME NEW d \in Deployments, Job(d)
      PROVE  LifeInv' /\ RouteInv' /\ AloneInv' /\ Service!ServiceNext
  <2>1. CASE \/ Start(d) \/ AcquirePermit(d) \/ Built(d) \/ Pulled(d) \/ Record(d)
             \/ \E t \in Targets : ProbeOk(d, t)
             \/ Fail(d) \/ RemoveToken(d) \/ UnlockJob(d)
             \/ PendHook(d) \/ Drained(d) \/ RunHook(d)
    <3>1. Quiet /\ UNCHANGED cont BY <1>i, <2>1, JobQuiet
    <3> QED BY <1>1, <3>1
  <2>2. CASE \/ Undo(d) \/ RestartStopped(d) \/ RemoveOld(d)
             \/ \E t \in Targets : StopOld(d, t) \/ Launch(d, t) \/ ProbeFail(d, t)
    <3>1. Quiet /\ UsedRun /\ (Live \subseteq Live' \/ Live' \subseteq Live)
      BY <1>i, <2>2, ContQuiet
    <3> QED BY <1>2, <3>1
  <2> QED BY <1>4, <2>1, <2>2, FinishSeen DEF Job
<1>5. ASSUME NEW a \in Apps, HookQueued(a) \/ HoldApp(a) \/ ReleaseApp(a) \/ Delete(a)
      PROVE  LifeInv' /\ RouteInv' /\ AloneInv' /\ Service!ServiceNext
  BY <1>i, <1>1, <1>5, HolderQuiet, ResourcesSeen, RowsSeen DEF Delete
<1>6. CASE Publish
  <2>1. ~PubError BY DEF PubError, MayFail
  <2> QED BY <1>6, <2>1, ReadSeen, RecordSeen, DeliverSeen DEF Publish
<1> QED BY <1>3, <1>4, <1>5, <1>6, RestartSeen DEF Next

\* The initial state is one of AppService.
LEMMA SeenInit == ASSUME Init PROVE LifeInv /\ RouteInv /\ AloneInv /\ Service!ServiceInit
<1> USE DEF Init
<1>1. LifeInv BY DEF LifeInv, Kept, PubFree
<1>2. RouteInv BY DEF RouteInv, Good, NoServers, Unsent, PubFree
<1>3. AloneInv BY DEF AloneInv, AloneAt
<1>4. Live = {} BY DEF Live
<1>5. Stage = [d \in Deployments |-> "new"] BY StageValues DEF Stage, Past
<1>6. Service!ServiceInit
  BY <1>4, <1>5 DEF Service!ServiceInit, Live, Stage, StageOf, NoServers
<1> QED BY <1>1, <1>2, <1>3, <1>6

\* SeenInv is inductive on top of ServeInv and RowInv.
LEMMA SeenInductive ==
  ASSUME Faults = {}, HostPort = {} PROVE Spec => []SeenInv
<1>1. Init => LifeInv /\ RouteInv /\ AloneInv BY SeenInit
<1>2. /\ TypeOK /\ ServeInv /\ RowInv /\ LifeInv /\ RouteInv /\ AloneInv
      /\ TypeOK' /\ ServeInv' /\ [Next]_vars
      => LifeInv' /\ RouteInv' /\ AloneInv'
  <2> SUFFICES ASSUME SeenInv, TypeOK', ServeInv', [Next]_vars
               PROVE  LifeInv' /\ RouteInv' /\ AloneInv'
    BY DEF SeenInv
  <2>1. CASE Next BY <2>1, NextSeen
  <2>2. CASE UNCHANGED vars
    BY <2>2 DEF vars, SeenInv, LifeInv, RouteInv, AloneInv, AloneAt, Good, Kept
  <2> QED BY <2>1, <2>2
<1>3. TypeOK /\ ServeInv /\ RowInv /\ LifeInv /\ RouteInv /\ AloneInv => SeenInv
  BY DEF SeenInv
<1> QED BY <1>1, <1>2, <1>3, RowInductive, PTL DEF Spec

\* Deploy implements AppService.  Without failed calls, cancel requests and fixed host
\* ports the platform as its users see it, that is the containers, the current
\* deployments and the routes, only takes steps of AppService: the switch of Finish is
\* one step between two deployments whose containers all run, PubDeliver only routes to
\* live containers that are or were current, RemoveOld stops nothing that is current or
\* routed, and a restart at any point loses routes and no container.
THEOREM DeployImplements ==
  ASSUME Faults = {}, HostPort = {} PROVE Spec => ImplementsService
<1>1. Init => Service!ServiceInit BY SeenInit
<1>2. SeenInv /\ SeenInv' /\ [Next]_vars => [Service!ServiceNext]_(Service!serviceVars)
  <2> SUFFICES ASSUME SeenInv, SeenInv', [Next]_vars
               PROVE  [Service!ServiceNext]_(Service!serviceVars)
    OBVIOUS
  <2>1. CASE Next BY <2>1, NextSeen DEF SeenInv
  <2>2. CASE UNCHANGED vars BY <2>2 DEF vars, Service!serviceVars
  <2> QED BY <2>1, <2>2
<1> QED BY <1>1, <1>2, SeenInductive, PTL DEF Spec, ImplementsService, Service!ServiceSpec

\* The routes of the proxy name running containers only: the pipeline that replaced a
\* deployment publishes its own routes before it removes the old containers, and no
\* publisher that read earlier can bring them back.
THEOREM RoutesRun ==
  ASSUME Faults = {}, HostPort = {} PROVE Spec => []RouteServes
<1>1. SeenInv => RouteServes
  BY DEF SeenInv, LifeInv, RouteInv, Good, RouteServes
<1> QED BY <1>1, SeenInductive, PTL
=============================================================================
