---------------------------- MODULE DeployProofs ----------------------------
(***************************************************************************)
(* Proofs about Deploy, for every set of apps, deployments and targets,     *)
(* with the faults of the store and of the runtimes and with restarts.     *)
(***************************************************************************)
EXTENDS Deploy, TLAPS

LEMMA InitType == Init => TypeOK
<1> SUFFICES ASSUME Init PROVE TypeOK OBVIOUS
<1> USE DeployAssumption DEF Init
<1>1. /\ status \in [Deployments -> Statuses] /\ pc \in [Deployments -> Pcs]
      /\ cont \in [Deployments -> [Targets -> ContStates]]
      /\ holder \in [Apps -> HolderStates]
  BY DEF Statuses, Pcs, ContStates, HolderStates
<1>2. /\ sent \in [known : BOOLEAN, servers : [Apps -> Servers]]
      /\ route \in [Apps -> Servers]
  BY DEF Unsent, NoServers, Servers
<1>3. pub \in [step : {"free", "read", "recorded"}, owner : Publishers,
              view : SUBSET Deployments]
  BY DEF PubFree, Publishers
<1>4. /\ stopped \in [Deployments -> Servers]
      /\ cancel \in [Cancels -> CancelStates] /\ down \in BOOLEAN
  BY DEF Servers
<1> QED BY <1>1, <1>2, <1>3, <1>4 DEF TypeOK

LEMMA PcNames ==
  /\ "idle" \in Pcs /\ "locked" \in Pcs /\ "inserted" \in Pcs
  /\ "approving" \in Pcs /\ "start" \in Pcs /\ "permit" \in Pcs
  /\ "build" \in Pcs /\ "pull" \in Pcs /\ "prepared" \in Pcs
  /\ "stopold" \in Pcs /\ "launch" \in Pcs /\ "probe" \in Pcs
  /\ "undo" \in Pcs /\ "restart" \in Pcs /\ "fail" \in Pcs
  /\ "finish" \in Pcs /\ "publish" \in Pcs /\ "drain" \in Pcs
  /\ "cancelled" \in Pcs /\ "end" \in Pcs /\ "unlock" \in Pcs
  /\ "pendhook" \in Pcs /\ "pendlock" \in Pcs /\ "pend" \in Pcs
  /\ "parked" \in Pcs /\ "drained" \in Pcs /\ "hook" \in Pcs
  /\ "done" \in Pcs
BY DEF Pcs, HeldPcs, TaskPcs, PipelinePcs

LEMMA StatusNames ==
  /\ "none" \in Statuses /\ "queued" \in Statuses /\ "building" \in Statuses
  /\ "deploying" \in Statuses /\ "pending_approval" \in Statuses /\ "running" \in Statuses
  /\ "superseded" \in Statuses /\ "failed" \in Statuses /\ "cancelled" \in Statuses
BY DEF Statuses, Unfinished, Active, Finished

\* The two assignments that most steps share keep the types.
LEMMA GotoType ==
  ASSUME TypeOK, NEW d \in Deployments, NEW w \in Pcs, Goto(d, w)
  PROVE  pc' \in [Deployments -> Pcs]
BY DEF TypeOK, Goto

LEMMA SetStatusType ==
  ASSUME TypeOK, NEW d \in Deployments, NEW s \in Statuses, SetStatus(d, s)
  PROVE  status' \in [Deployments -> Statuses]
BY StatusNames DEF TypeOK, SetStatus

USE DEF rowVars, loopVars, tokVars, pubVars, envVars

LEMMA RequestType == ASSUME TypeOK, NEW d \in Deployments, Request(d) PROVE TypeOK'
<1> USE DeployAssumption, PcNames, StatusNames
<1>s. status \in [Deployments -> Statuses] BY DEF TypeOK
<1>1. CASE DeployRequest(d)
  <2>1. pc' \in [Deployments -> Pcs] BY <1>1, GotoType DEF DeployRequest, LockFor
  <2> QED BY <1>1, <2>1 DEF DeployRequest, LockFor, TypeOK
<1>2. CASE InsertRow(d)
  <2>1. pc' \in [Deployments -> Pcs] BY <1>2, GotoType DEF InsertRow, Unlock
  <2>2. status' \in [Deployments -> Statuses] BY <1>2, <1>s DEF InsertRow
  <2> QED BY <1>2, <2>1, <2>2 DEF InsertRow, Unlock, TypeOK
<1>3. CASE SpawnJob(d)
  <2>1. pc' \in [Deployments -> Pcs] BY <1>3, GotoType DEF SpawnJob, Unlock
  <2> QED BY <1>3, <2>1 DEF SpawnJob, Unlock, TypeOK
<1>4. CASE PendUnlock(d)
  <2>1. pc' \in [Deployments -> Pcs] BY <1>4, GotoType DEF PendUnlock, Unlock
  <2> QED BY <1>4, <2>1 DEF PendUnlock, Unlock, TypeOK
<1>5. CASE InsertPending(d)
  <2>1. pc' \in [Deployments -> Pcs] BY <1>5, GotoType DEF InsertPending
  <2>2. status' \in [Deployments -> Statuses] BY <1>5, <1>s DEF InsertPending
  <2> QED BY <1>5, <2>1, <2>2 DEF InsertPending, TypeOK
<1>6. CASE ApproveLock(d)
  <2>1. pc' \in [Deployments -> Pcs] BY <1>6, GotoType DEF ApproveLock, LockFor
  <2> QED BY <1>6, <2>1 DEF ApproveLock, LockFor, TypeOK
<1>7. CASE ApproveUpdate(d)
  <2>1. pc' \in [Deployments -> Pcs] BY <1>7, GotoType DEF ApproveUpdate, Unlock
  <2>2. status' \in [Deployments -> Statuses]
    BY <1>7, SetStatusType DEF ApproveUpdate, TypeOK
  <2> QED BY <1>7, <2>1, <2>2 DEF ApproveUpdate, Unlock, TypeOK
<1>8. CASE Reject(d)
  <2>1. status' \in [Deployments -> Statuses] BY <1>8, SetStatusType DEF Reject
  <2> QED BY <1>8, <2>1 DEF Reject, TypeOK
<1>9. ASSUME NEW s \in Deployments, RollbackRequest(d, s) PROVE TypeOK'
  <2>1. pc' \in [Deployments -> Pcs] BY <1>9, GotoType DEF RollbackRequest, LockFor
  <2>2. busy' \subseteq Apps BY <1>9 DEF RollbackRequest, LockFor, TypeOK
  <2> QED BY <1>9, <2>1, <2>2 DEF RollbackRequest, TypeOK
<1> QED BY <1>1, <1>2, <1>3, <1>4, <1>5, <1>6, <1>7, <1>8, <1>9 DEF Request

\* A step that sets containers leaves them typed.
LEMMA SetContainersType ==
  ASSUME TypeOK, NEW S, NEW t \in Targets, NEW s \in ContStates,
         SetContainers(S, t, s)
  PROVE  cont' \in [Deployments -> [Targets -> ContStates]]
BY DEF TypeOK, SetContainers

LEMMA ContNames ==
  /\ "absent" \in ContStates /\ "created" \in ContStates
  /\ "running" \in ContStates /\ "stopped" \in ContStates
BY DEF ContStates

LEMMA JobType == ASSUME TypeOK, NEW d \in Deployments, Job(d) PROVE TypeOK'
<1> USE DeployAssumption, PcNames, StatusNames, ContNames
<1>s. status \in [Deployments -> Statuses] BY DEF TypeOK
<1>t. /\ todo \in [Deployments -> SUBSET Targets]
      /\ started \in [Deployments -> SUBSET Targets] BY DEF TypeOK
<1>o. stopped \in [Deployments -> SUBSET (Deployments \X Targets)] BY DEF TypeOK, Servers
<1>p. pc \in [Deployments -> Pcs] BY DEF TypeOK
<1>1. CASE Start(d)
  <2>1. pc' \in [Deployments -> Pcs]
    BY <1>1, GotoType DEF Start, TypeOK
  <2>2. status' \in [Deployments -> Statuses]
    BY <1>1, SetStatusType DEF Start, TypeOK
  <2> QED BY <1>1, <2>1, <2>2 DEF Start, TypeOK
<1>2. CASE AcquirePermit(d)
  <2>1. pc' \in [Deployments -> Pcs]
    BY <1>2, GotoType DEF AcquirePermit, TypeOK
  <2> QED BY <1>2, <2>1 DEF AcquirePermit, TypeOK
<1>3. CASE Built(d)
  <2>1. pc' \in [Deployments -> Pcs]
    BY <1>3, GotoType DEF Built, TypeOK
  <2>2. status' \in [Deployments -> Statuses]
    BY <1>3, SetStatusType DEF Built, TypeOK
  <2> QED BY <1>3, <2>1, <2>2 DEF Built, TypeOK
<1>4. CASE Pulled(d)
  <2>1. pc' \in [Deployments -> Pcs]
    BY <1>4, GotoType DEF Pulled, TypeOK
  <2> QED BY <1>4, <2>1 DEF Pulled, TypeOK
<1>5. CASE Record(d)
  <2>1. pc' \in [Deployments -> Pcs]
    BY <1>5, GotoType DEF Record, TypeOK
  <2>2. todo' \in [Deployments -> SUBSET Targets]
    BY <1>5, <1>t DEF Record
  <2> QED BY <1>5, <2>1, <2>2 DEF Record, TypeOK
<1>6. ASSUME NEW t \in Targets, StopOld(d, t) PROVE TypeOK'
  <2>1. pc' \in [Deployments -> Pcs]
    BY <1>6, GotoType DEF StopOld, TypeOK
  <2>2. todo' \in [Deployments -> SUBSET Targets]
    BY <1>6, <1>t DEF StopOld
  <2>3. stopped' \in [Deployments -> Servers]
    BY <1>6, <1>o DEF StopOld, RunningOn, DeploymentsOf, Servers
  <2>4. cont' \in [Deployments -> [Targets -> ContStates]]
    BY <1>6, SetContainersType DEF StopOld, TypeOK
  <2> QED BY <1>6, <2>1, <2>2, <2>3, <2>4 DEF StopOld, TypeOK
<1>7. ASSUME NEW t \in Targets, Launch(d, t) PROVE TypeOK'
  <2>1. pc' \in [Deployments -> Pcs]
    BY <1>7, GotoType DEF Launch, TypeOK
  <2>2. todo' \in [Deployments -> SUBSET Targets]
    BY <1>7, <1>t DEF Launch
  <2>3. cont' \in [Deployments -> [Targets -> ContStates]]
    BY <1>7, SetContainersType DEF Launch, TypeOK
  <2> QED BY <1>7, <2>1, <2>2, <2>3 DEF Launch, TypeOK
<1>8. ASSUME NEW t \in Targets, ProbeOk(d, t) PROVE TypeOK'
  <2>1. pc' \in [Deployments -> Pcs]
    BY <1>8, GotoType DEF ProbeOk, TypeOK
  <2>2. started' \in [Deployments -> SUBSET Targets]
    BY <1>8, <1>t DEF ProbeOk
  <2> QED BY <1>8, <2>1, <2>2 DEF ProbeOk, TypeOK
<1>9. ASSUME NEW t \in Targets, ProbeFail(d, t) PROVE TypeOK'
  <2>1. pc' \in [Deployments -> Pcs]
    BY <1>9, GotoType DEF ProbeFail, TypeOK
  <2>2. cont' \in [Deployments -> [Targets -> ContStates]]
    BY <1>9, SetContainersType DEF ProbeFail, TypeOK
  <2> QED BY <1>9, <2>1, <2>2 DEF ProbeFail, TypeOK
<1>10. CASE Undo(d)
  <2>1. pc' \in [Deployments -> Pcs]
    BY <1>10, GotoType DEF Undo, TypeOK
  <2>2. started' \in [Deployments -> SUBSET Targets]
    BY <1>10, <1>t DEF Undo
  <2>3. cont' \in [Deployments -> [Targets -> ContStates]]
    BY <1>10, SetContainersType DEF Undo, TypeOK
  <2> QED BY <1>10, <2>1, <2>2, <2>3 DEF Undo, TypeOK
<1>11. CASE RestartStopped(d)
  <2>1. \A old \in stopped[d] : old[2] \in Targets
    BY DEF TypeOK, Servers
  <2>2. pc' \in [Deployments -> Pcs]
    BY <1>11, GotoType DEF RestartStopped, TypeOK
  <2>3. stopped' \in [Deployments -> Servers]
    <3>1. \/ \E old \in stopped[d] : stopped' = [stopped EXCEPT ![d] = @ \ {old}]
          \/ stopped' = stopped
      BY <1>11 DEF RestartStopped
    <3> QED BY <3>1, <1>o DEF Servers
  <2>4. cont' \in [Deployments -> [Targets -> ContStates]]
    BY <1>11, <2>1, SetContainersType DEF RestartStopped, TypeOK
  <2> QED BY <1>11, <2>2, <2>3, <2>4 DEF RestartStopped, TypeOK
<1>12. CASE Fail(d)
  <2>1. pc' \in [Deployments -> Pcs]
    BY <1>12, GotoType DEF Fail, TypeOK
  <2>2. status' \in [Deployments -> Statuses]
    BY <1>12, SetStatusType DEF Fail, TypeOK
  <2> QED BY <1>12, <2>1, <2>2 DEF Fail, TypeOK
<1>13. CASE Finish(d)
  <2>1. pc' \in [Deployments -> Pcs]
    BY <1>13, GotoType DEF Finish, TypeOK
  <2>2. todo' \in [Deployments -> SUBSET Targets]
    BY <1>13, <1>t DEF Finish
  <2>3. status' \in [Deployments -> Statuses]
    BY <1>13, <1>s DEF Finish
  <2> QED BY <1>13, <2>1, <2>2, <2>3 DEF Finish, TypeOK
<1>14. CASE RemoveOld(d)
  <2>1. pc' \in [Deployments -> Pcs]
    BY <1>14, GotoType DEF RemoveOld, TypeOK
  <2>2. todo' \in [Deployments -> SUBSET Targets]
    BY <1>14, <1>t DEF RemoveOld
  <2>3. cont' \in [Deployments -> [Targets -> ContStates]]
    BY <1>14, SetContainersType DEF RemoveOld, TypeOK
  <2> QED BY <1>14, <2>1, <2>2, <2>3 DEF RemoveOld, TypeOK
<1>15. CASE RemoveToken(d)
  <2>1. pc' \in [Deployments -> Pcs]
    BY <1>15, GotoType DEF RemoveToken, TypeOK
  <2> QED BY <1>15, <2>1 DEF RemoveToken, TypeOK
<1>16. CASE UnlockJob(d)
  <2>1. pc' \in [Deployments -> Pcs]
    BY <1>16, GotoType DEF UnlockJob, Unlock, TypeOK
  <2> QED BY <1>16, <2>1 DEF UnlockJob, Unlock, TypeOK
<1>17. CASE PendHook(d) \/ Drained(d)
  <2>1. pc' \in [Deployments -> Pcs]
    BY <1>17, GotoType DEF PendHook, Drained, Dequeue, TypeOK
  <2>2. queued' \subseteq Apps
    BY <1>17 DEF PendHook, Drained, Dequeue, TypeOK
  <2> QED BY <1>17, <2>1, <2>2 DEF PendHook, Drained, Dequeue, TypeOK
<1>18. CASE RunHook(d)
  <2>1. pc' \in [Deployments -> Pcs]
    BY <1>18, <1>p DEF RunHook, Fresh, DeploymentsOf, Goto
  <2>2. queued' \subseteq Apps /\ busy' \subseteq Apps
    BY <1>18 DEF RunHook, TypeOK
  <2> QED BY <1>18, <2>1, <2>2 DEF RunHook, TypeOK
<1> QED BY <1>1, <1>2, <1>3, <1>4, <1>5, <1>6, <1>7, <1>8, <1>9, <1>10, <1>11,
           <1>12, <1>13, <1>14, <1>15, <1>16, <1>17, <1>18 DEF Job

LEMMA HolderNames ==
  /\ "free" \in HolderStates /\ "held" \in HolderStates
  /\ "deleting" \in HolderStates /\ "removed" \in HolderStates
  /\ "deleted" \in HolderStates /\ "failed" \in HolderStates
  /\ "publish" \in HolderStates /\ "hook" \in HolderStates
  /\ "hooklock" \in HolderStates
BY DEF HolderStates, HolderLocks

LEMMA PublishType == ASSUME TypeOK, Publish PROVE TypeOK'
<1> USE DeployAssumption, PcNames, HolderNames
<1>p. pc \in [Deployments -> Pcs] /\ holder \in [Apps -> HolderStates]
  BY DEF TypeOK
<1>u. pub \in [step : {"free", "read", "recorded"}, owner : Publishers,
              view : SUBSET Deployments]
  BY DEF TypeOK
<1>1. ASSUME NEW p \in Publishers, PubRead(p) PROVE TypeOK'
  <2>1. pub' \in [step : {"free", "read", "recorded"}, owner : Publishers,
                 view : SUBSET Deployments]
    BY <1>1 DEF PubRead
  <2> QED BY <1>1, <2>1 DEF PubRead, TypeOK
<1>2. ASSUME PubDone
      PROVE  /\ pc' \in [Deployments -> Pcs]
             /\ holder' \in [Apps -> HolderStates]
             /\ pub' \in [step : {"free", "read", "recorded"},
                          owner : Publishers, view : SUBSET Deployments]
  BY <1>2, <1>p DEF PubDone, PubFree, Publishers
<1>3. CASE PubRecord
  <2>1. [known |-> TRUE, servers |-> ServersOf(pub.view)]
           \in [known : BOOLEAN, servers : [Apps -> Servers]]
    BY DEF ServersOf, Servers
  <2>2. sent' \in [known : BOOLEAN, servers : [Apps -> Servers]]
    BY <1>3, <2>1 DEF PubRecord, TypeOK
  <2>3. /\ pc' \in [Deployments -> Pcs]
        /\ holder' \in [Apps -> HolderStates]
        /\ pub' \in [step : {"free", "read", "recorded"},
                     owner : Publishers, view : SUBSET Deployments]
    BY <1>2, <1>3, <1>p, <1>u DEF PubRecord
  <2> QED BY <1>3, <2>2, <2>3 DEF PubRecord, TypeOK
<1>4. CASE PubDeliver
  BY <1>2, <1>4 DEF PubDeliver, TypeOK
<1>5. CASE PubError
  <2>1. Unsent \in [known : BOOLEAN, servers : [Apps -> Servers]]
    BY DEF Unsent, NoServers, Servers
  <2> QED BY <1>2, <1>5, <2>1 DEF PubError, TypeOK
<1> QED BY <1>1, <1>3, <1>4, <1>5 DEF Publish

LEMMA DeleteType == ASSUME TypeOK, NEW a \in Apps, Delete(a) PROVE TypeOK'
<1> USE DeployAssumption, PcNames, HolderNames, StatusNames, ContNames
<1>h. holder \in [Apps -> HolderStates] BY DEF TypeOK
<1>s. status \in [Deployments -> Statuses] BY DEF TypeOK
<1>p. pc \in [Deployments -> Pcs] BY DEF TypeOK
<1>c. cont \in [Deployments -> [Targets -> ContStates]] BY DEF TypeOK
<1>1. CASE DeleteLock(a)
  <2>1. holder' \in [Apps -> HolderStates] BY <1>1, <1>h DEF DeleteLock
  <2> QED BY <1>1, <2>1 DEF DeleteLock, TypeOK
<1>2. CASE DeleteResources(a)
  <2>1. holder' \in [Apps -> HolderStates] BY <1>2, <1>h DEF DeleteResources
  <2>2. cont' \in [Deployments -> [Targets -> ContStates]]
    BY <1>2, <1>c DEF DeleteResources
  <2> QED BY <1>2, <2>1, <2>2 DEF DeleteResources, TypeOK
<1>3. CASE DeleteRows(a)
  <2>1. holder' \in [Apps -> HolderStates] BY <1>3, <1>h DEF DeleteRows
  <2>2. status' \in [Deployments -> Statuses] BY <1>3, <1>s DEF DeleteRows
  <2> QED BY <1>3, <2>1, <2>2 DEF DeleteRows, TypeOK
<1>4. CASE DeleteUnlock(a)
  <2>1. holder' \in [Apps -> HolderStates] BY <1>4, <1>h DEF DeleteUnlock
  <2> QED BY <1>4, <2>1 DEF DeleteUnlock, TypeOK
<1>5. CASE DeleteHook(a)
  <2>1. holder' \in [Apps -> HolderStates] BY <1>5, <1>h DEF DeleteHook
  <2>2. pc' \in [Deployments -> Pcs]
    BY <1>5, <1>p DEF DeleteHook, Fresh, DeploymentsOf, Goto
  <2>3. queued' \subseteq Apps /\ busy' \subseteq Apps
    BY <1>5 DEF DeleteHook, TypeOK
  <2> QED BY <1>5, <2>1, <2>2, <2>3 DEF DeleteHook, TypeOK
<1> QED BY <1>1, <1>2, <1>3, <1>4, <1>5 DEF Delete

LEMMA NextType == ASSUME TypeOK, Next PROVE TypeOK'
<1> USE DeployAssumption
<1>1. ASSUME NEW a \in Apps, HookQueued(a) PROVE TypeOK'
  BY <1>1 DEF HookQueued, TypeOK
<1>2. ASSUME NEW a \in Apps, HoldApp(a) \/ ReleaseApp(a) PROVE TypeOK'
  <2>1. holder \in [Apps -> HolderStates] BY DEF TypeOK
  <2>2. holder' \in [Apps -> HolderStates]
    BY <1>2, <2>1, HolderNames DEF HoldApp, ReleaseApp
  <2>3. busy' \subseteq Apps BY <1>2 DEF HoldApp, ReleaseApp, TypeOK
  <2> QED BY <1>2, <2>2, <2>3 DEF HoldApp, ReleaseApp, TypeOK
<1>3. CASE Restart
  <2>1. status' \in [Deployments -> Statuses]
    BY <1>3, StatusNames DEF Restart, AfterRestart, TypeOK
  <2>2. pc' \in [Deployments -> Pcs] BY <1>3, PcNames DEF Restart
  <2>3. holder' \in [Apps -> HolderStates] BY <1>3, HolderNames DEF Restart
  <2>4. cancel' \in [Cancels -> CancelStates]
    <3>1. cancel \in [Cancels -> CancelStates] BY DEF TypeOK
    <3>2. ASSUME NEW c \in Cancels, NEW s \in {"idle", "done"}
          PROVE  [cancel[c] EXCEPT !.step = s] \in CancelStates
      BY <3>1 DEF CancelStates
    <3> QED BY <1>3, <3>2 DEF Restart
  <2>5. /\ sent' \in [known : BOOLEAN, servers : [Apps -> Servers]]
        /\ route' \in [Apps -> Servers]
    BY <1>3 DEF Restart, Unsent, NoServers, Servers
  <2>6. pub' \in [step : {"free", "read", "recorded"}, owner : Publishers,
                 view : SUBSET Deployments]
    BY <1>3 DEF Restart, PubFree, Publishers
  <2>7. /\ todo' \in [Deployments -> SUBSET Targets]
        /\ started' \in [Deployments -> SUBSET Targets]
        /\ stopped' \in [Deployments -> Servers]
        /\ down' \in BOOLEAN
    BY <1>3 DEF Restart, Servers
  <2>8. restarts' \in 0..MaxRestarts
    BY <1>3 DEF Restart, TypeOK
  <2> QED BY <1>3, <2>1, <2>2, <2>3, <2>4, <2>5, <2>6, <2>7, <2>8
          DEF Restart, TypeOK
<1> QED BY <1>1, <1>2, <1>3, RequestType, JobType, PublishType, DeleteType DEF Next

LEMMA CancelType == ASSUME TypeOK, CancelNext \/ ShutdownNext PROVE TypeOK'
<1> USE DeployAssumption, PcNames, StatusNames, ContNames
<1>k. cancel \in [Cancels -> CancelStates] BY DEF TypeOK
<1>1. ASSUME NEW c \in Cancels, NEW d \in Deployments, CancelRead(c, d)
      PROVE  TypeOK'
  <2>1. cancel' \in [Cancels -> CancelStates]
    BY <1>1 DEF CancelRead, TypeOK, CancelStates
  <2> QED BY <1>1, <2>1 DEF CancelRead, TypeOK
<1>2. ASSUME NEW c \in Cancels PROVE cancel[c].dep \in Deployments
  BY DEF TypeOK, CancelStates
<1>3. ASSUME NEW c \in Cancels, CancelMark(c) PROVE TypeOK'
  <2>1. cancel' \in [Cancels -> CancelStates]
    BY <1>3 DEF CancelMark, TypeOK, CancelStates
  <2>2. status' \in [Deployments -> Statuses]
    BY <1>2, <1>3, SetStatusType DEF CancelMark
  <2> QED BY <1>3, <2>1, <2>2 DEF CancelMark, TypeOK
<1>4. ASSUME NEW c \in Cancels, CancelFire(c) PROVE TypeOK'
  <2>1. cancel' \in [Cancels -> CancelStates]
    BY <1>4, <1>k DEF CancelFire, CancelStates
  <2>2. /\ busy' \subseteq Apps /\ token' \subseteq Deployments
        /\ fired' \subseteq Deployments
    BY <1>2, <1>4 DEF CancelFire, TypeOK
  <2> QED BY <1>4, <2>1, <2>2 DEF CancelFire, TypeOK
<1>5. ASSUME NEW d \in Deployments, Drop(d) PROVE TypeOK'
  <2>1. pc' \in [Deployments -> Pcs] BY <1>5, GotoType DEF Drop
  <2>2. todo' \in [Deployments -> SUBSET Targets] BY <1>5 DEF Drop, TypeOK
  <2>3. pub' \in [step : {"free", "read", "recorded"}, owner : Publishers,
                 view : SUBSET Deployments]
    BY <1>5 DEF Drop, TypeOK, PubFree, Publishers
  <2> QED BY <1>5, <2>1, <2>2, <2>3 DEF Drop, TypeOK
<1>6. ASSUME NEW d \in Deployments, CleanupCancelled(d) PROVE TypeOK'
  <2>1. pc' \in [Deployments -> Pcs]
    BY <1>6, GotoType DEF CleanupCancelled, TypeOK
  <2>2. todo' \in [Deployments -> SUBSET Targets]
    <3>1. \/ \E t \in todo[d] : todo' = [todo EXCEPT ![d] = @ \ {t}]
          \/ todo' = todo
      BY <1>6 DEF CleanupCancelled
    <3>2. todo \in [Deployments -> SUBSET Targets] BY DEF TypeOK
    <3> QED BY <3>1, <3>2
  <2>3. cont' \in [Deployments -> [Targets -> ContStates]]
    BY <1>6, SetContainersType DEF CleanupCancelled, TypeOK
  <2> QED BY <1>6, <2>1, <2>2, <2>3 DEF CleanupCancelled, TypeOK
<1>7. CASE Shutdown
  BY <1>7 DEF Shutdown, TypeOK
<1> QED BY <1>1, <1>3, <1>4, <1>5, <1>6, <1>7 DEF CancelNext, ShutdownNext

\* TypeOK holds in every behaviour, with cancel requests and shutdowns too.
THEOREM TypeCorrect == AnySpec => []TypeOK
<1>1. TypeOK /\ [AnyNext]_vars => TypeOK'
  <2>1. ASSUME TypeOK, UNCHANGED vars PROVE TypeOK'
    BY <2>1 DEF vars, TypeOK
  <2> QED BY <2>1, NextType, CancelType DEF AnyNext
<1> QED BY <1>1, InitType, PTL DEF AnySpec

-----------------------------------------------------------------------------
\* No new deployment is `running` after the step.
NoNewRunning ==
  \A e \in Deployments : status'[e] = "running" => status[e] = "running"

LEMMA SetStatusRunning ==
  ASSUME TypeOK, NEW d \in Deployments, NEW s, s # "running", SetStatus(d, s)
  PROVE  NoNewRunning
BY DEF TypeOK, SetStatus, NoNewRunning

LEMMA SameStatus == ASSUME UNCHANGED status PROVE NoNewRunning
BY DEF NoNewRunning

LEMMA RequestRunning ==
  ASSUME TypeOK, NEW d \in Deployments, Request(d) PROVE NoNewRunning
<1>s. status \in [Deployments -> Statuses] BY DEF TypeOK
<1>1. CASE InsertRow(d) BY <1>1, <1>s DEF InsertRow, NoNewRunning
<1>2. CASE InsertPending(d) BY <1>2, <1>s DEF InsertPending, NoNewRunning
<1>3. CASE ApproveUpdate(d) BY <1>3, SetStatusRunning, SameStatus DEF ApproveUpdate
<1>4. CASE Reject(d) BY <1>4, SetStatusRunning DEF Reject
<1>5. CASE DeployRequest(d) \/ SpawnJob(d) \/ PendUnlock(d) \/ ApproveLock(d)
  BY <1>5, SameStatus DEF DeployRequest, SpawnJob, PendUnlock, ApproveLock
<1>6. CASE \E r \in Deployments : RollbackRequest(d, r)
  BY <1>6, SameStatus DEF RollbackRequest
<1> QED BY <1>1, <1>2, <1>3, <1>4, <1>5, <1>6 DEF Request

\* finish_deployment is the only writer of `running`.
LEMMA JobRunning ==
  ASSUME TypeOK, NEW d \in Deployments, Job(d) PROVE NoNewRunning \/ Finish(d)
<1>1. CASE Start(d) BY <1>1, SetStatusRunning, SameStatus DEF Start
<1>2. CASE Built(d) BY <1>2, SetStatusRunning, SameStatus DEF Built
<1>3. CASE Fail(d) BY <1>3, SetStatusRunning, SameStatus DEF Fail
<1>4. CASE \/ AcquirePermit(d) \/ Pulled(d) \/ Record(d) \/ Undo(d)
           \/ RestartStopped(d) \/ RemoveOld(d) \/ RemoveToken(d)
           \/ UnlockJob(d) \/ PendHook(d) \/ Drained(d) \/ RunHook(d)
  BY <1>4, SameStatus DEF AcquirePermit, Pulled, Record, Undo, RestartStopped,
     RemoveOld, RemoveToken, UnlockJob, PendHook, Drained, Dequeue, RunHook
<1>5. ASSUME NEW t \in Targets,
             StopOld(d, t) \/ Launch(d, t) \/ ProbeOk(d, t) \/ ProbeFail(d, t)
      PROVE  NoNewRunning
  BY <1>5, SameStatus DEF StopOld, Launch, ProbeOk, ProbeFail
<1> QED BY <1>1, <1>2, <1>3, <1>4, <1>5 DEF Job

LEMMA OthersRunning ==
  ASSUME TypeOK,
         \/ Publish \/ Restart \/ CancelNext \/ ShutdownNext
         \/ \E a \in Apps : HookQueued(a) \/ HoldApp(a) \/ ReleaseApp(a) \/ Delete(a)
  PROVE  NoNewRunning
<1>1. CASE Publish
  BY <1>1, SameStatus DEF Publish, PubRead, PubRecord, PubDeliver, PubError
<1>2. CASE Restart BY <1>2 DEF Restart, AfterRestart, NoNewRunning, TypeOK
<1>3. ASSUME NEW a \in Apps, HookQueued(a) \/ HoldApp(a) \/ ReleaseApp(a)
      PROVE  NoNewRunning
  BY <1>3, SameStatus DEF HookQueued, HoldApp, ReleaseApp
<1>4. ASSUME NEW a \in Apps, Delete(a) PROVE NoNewRunning
  <2>1. CASE DeleteRows(a) BY <2>1 DEF DeleteRows, NoNewRunning
  <2> QED BY <1>4, <2>1, SameStatus DEF Delete, DeleteLock, DeleteResources,
          DeleteUnlock, DeleteHook
<1>5. ASSUME NEW c \in Cancels, CancelMark(c) PROVE NoNewRunning
  <2>1. cancel[c].dep \in Deployments BY DEF TypeOK, CancelStates
  <2> QED BY <1>5, <2>1, SetStatusRunning DEF CancelMark
<1>6. CASE CancelNext \/ ShutdownNext
  BY <1>5, <1>6, SameStatus DEF CancelNext, ShutdownNext, CancelRead, CancelFire,
     Drop, CleanupCancelled, Shutdown
<1> QED BY <1>1, <1>2, <1>3, <1>4, <1>6

\* At most one deployment of an app is `running`: finish_deployment supersedes
\* the others in its transaction, and nothing else writes `running`.  It holds
\* although a cancel request may let two pipelines have the app.
THEOREM OneRunning == AnySpec => []AtMostOneRunning
<1>1. Init => AtMostOneRunning BY DEF Init, AtMostOneRunning
<1>2. TypeOK /\ AtMostOneRunning /\ [AnyNext]_vars => AtMostOneRunning'
  <2> SUFFICES ASSUME TypeOK, AtMostOneRunning, [AnyNext]_vars
               PROVE  AtMostOneRunning'
    OBVIOUS
  <2>1. ASSUME NEW d \in Deployments, Finish(d) PROVE AtMostOneRunning'
    BY <2>1, DeployAssumption DEF Finish, AtMostOneRunning, TypeOK
  <2>2. ASSUME NoNewRunning PROVE AtMostOneRunning'
    BY <2>2 DEF NoNewRunning, AtMostOneRunning
  <2>3. CASE UNCHANGED vars
    BY <2>3, <2>2, SameStatus DEF vars
  <2> QED BY <2>1, <2>2, <2>3, RequestRunning, JobRunning, OthersRunning
          DEF AnyNext, Next
<1> QED BY <1>1, <1>2, TypeCorrect, PTL DEF AnySpec

-----------------------------------------------------------------------------
(* The app lock.                                                            *)

LEMMA HeldNames ==
  /\ "locked" \in HeldPcs /\ "inserted" \in HeldPcs /\ "approving" \in HeldPcs
  /\ "start" \in HeldPcs /\ "permit" \in HeldPcs /\ "build" \in HeldPcs
  /\ "pull" \in HeldPcs /\ "prepared" \in HeldPcs /\ "stopold" \in HeldPcs
  /\ "launch" \in HeldPcs /\ "probe" \in HeldPcs /\ "undo" \in HeldPcs
  /\ "restart" \in HeldPcs /\ "fail" \in HeldPcs /\ "finish" \in HeldPcs
  /\ "publish" \in HeldPcs /\ "drain" \in HeldPcs /\ "cancelled" \in HeldPcs
  /\ "end" \in HeldPcs /\ "unlock" \in HeldPcs
  /\ "idle" \notin HeldPcs /\ "pendhook" \notin HeldPcs /\ "pendlock" \notin HeldPcs
  /\ "pend" \notin HeldPcs /\ "parked" \notin HeldPcs /\ "drained" \notin HeldPcs
  /\ "hook" \notin HeldPcs /\ "done" \notin HeldPcs
BY DEF HeldPcs, TaskPcs, PipelinePcs

LEMMA LockSame == ASSUME LockInv, UNCHANGED <<pc, busy, holder>> PROVE LockInv'
BY DEF LockInv, OnePipeline, DeploymentsOf

\* A deployment moves on with the lock it has, or moves without one.
LEMMA LockKept ==
  ASSUME TypeOK, LockInv, NEW d \in Deployments, NEW w, Goto(d, w),
         pc[d] \in HeldPcs \/ w \notin HeldPcs, UNCHANGED <<busy, holder>>
  PROVE  LockInv'
BY DeployAssumption DEF TypeOK, LockInv, OnePipeline, Goto, DeploymentsOf

LEMMA LockTaken ==
  ASSUME TypeOK, LockInv, NEW d \in Deployments, NEW w, LockFor(d, w),
         UNCHANGED holder
  PROVE  LockInv'
BY DeployAssumption, ZenonT(60) DEF TypeOK, LockInv, OnePipeline, LockFor, Goto, DeploymentsOf

LEMMA LockDropped ==
  ASSUME TypeOK, LockInv, NEW d \in Deployments, NEW w, Unlock(d, w),
         pc[d] \in HeldPcs, w \notin HeldPcs, UNCHANGED holder
  PROVE  LockInv'
BY DeployAssumption DEF TypeOK, LockInv, OnePipeline, Unlock, Goto, DeploymentsOf

\* Deployments and holders let go of locks, and the busy apps stay.
LEMMA LockShrinks ==
  ASSUME LockInv, UNCHANGED busy,
         \A x \in Deployments : pc'[x] \in HeldPcs => pc[x] \in HeldPcs,
         \A a \in Apps : holder'[a] \in HolderLocks => holder[a] \in HolderLocks
  PROVE  LockInv'
BY DeployAssumption DEF LockInv, OnePipeline, DeploymentsOf

LEMMA RequestLock ==
  ASSUME TypeOK, LockInv, NEW d \in Deployments, Request(d) PROVE LockInv'
<1> USE HeldNames
<1>1. CASE DeployRequest(d) BY <1>1, LockTaken DEF DeployRequest
<1>2. CASE InsertRow(d) BY <1>2, LockKept, LockDropped DEF InsertRow
<1>3. CASE SpawnJob(d) BY <1>3, LockKept, LockDropped DEF SpawnJob
<1>4. CASE PendUnlock(d) BY <1>4, LockDropped DEF PendUnlock
<1>5. CASE InsertPending(d) BY <1>5, LockKept DEF InsertPending
<1>6. CASE ApproveLock(d) BY <1>6, LockTaken DEF ApproveLock
<1>7. CASE ApproveUpdate(d) BY <1>7, LockKept, LockDropped DEF ApproveUpdate
<1>8. CASE Reject(d) BY <1>8, LockSame DEF Reject
<1>9. ASSUME NEW s \in Deployments, RollbackRequest(d, s) PROVE LockInv'
  BY <1>9, LockKept, LockTaken DEF RollbackRequest
<1> QED BY <1>1, <1>2, <1>3, <1>4, <1>5, <1>6, <1>7, <1>8, <1>9 DEF Request

LEMMA JobLock ==
  ASSUME TypeOK, LockInv, NEW d \in Deployments, Job(d) PROVE LockInv'
<1> USE HeldNames
<1>1. CASE Start(d) \/ AcquirePermit(d) \/ Built(d) \/ Pulled(d) \/ Record(d)
  BY <1>1, LockKept DEF Start, AcquirePermit, Built, Pulled, Record
<1>2. ASSUME NEW t \in Targets, StopOld(d, t) \/ Launch(d, t) PROVE LockInv'
  BY <1>2, LockKept, LockSame DEF StopOld, Launch
<1>3. ASSUME NEW t \in Targets, ProbeOk(d, t) \/ ProbeFail(d, t) PROVE LockInv'
  BY <1>3, LockKept DEF ProbeOk, ProbeFail
<1>4. CASE Undo(d) \/ RestartStopped(d) \/ RemoveOld(d)
  BY <1>4, LockKept, LockSame DEF Undo, RestartStopped, RemoveOld
<1>5. CASE Fail(d) \/ Finish(d) \/ RemoveToken(d)
  BY <1>5, LockKept DEF Fail, Finish, RemoveToken
<1>6. CASE UnlockJob(d) BY <1>6, LockDropped DEF UnlockJob
<1>7. CASE PendHook(d) \/ Drained(d)
  BY <1>7, LockKept DEF PendHook, Drained, Dequeue
<1>8. CASE RunHook(d)
  <2> DEFINE next == IF pc[d] = "hook" THEN "done" ELSE "pend"
  <2>1. next \notin HeldPcs OBVIOUS
  <2>2. CASE Goto(d, next) /\ UNCHANGED busy
    BY <1>8, <2>1, <2>2, LockKept DEF RunHook
  <2>3. ASSUME NEW e \in Fresh(AppOf[d]), AppOf[d] \notin busy,
               pc' = [pc EXCEPT ![d] = next, ![e] = "locked"],
               busy' = busy \cup {AppOf[d]}
        PROVE  LockInv'
    <3>1. e \in Deployments /\ AppOf[e] = AppOf[d]
      BY <2>3 DEF Fresh, DeploymentsOf
    <3>2. \A x \in Deployments : pc'[x] \in HeldPcs => x = e \/ pc[x] \in HeldPcs
      BY <2>1, <2>3 DEF TypeOK
    <3>3. holder' = holder BY <1>8 DEF RunHook
    <3> QED BY <2>3, <3>1, <3>2, <3>3, DeployAssumption, ZenonT(30)
            DEF LockInv, OnePipeline, DeploymentsOf
  <2> QED BY <1>8, <2>2, <2>3 DEF RunHook
<1> QED BY <1>1, <1>2, <1>3, <1>4, <1>5, <1>6, <1>7, <1>8 DEF Job

LEMMA HolderFacts ==
  /\ "free" \notin HolderLocks /\ "publish" \notin HolderLocks
  /\ "hook" \notin HolderLocks /\ "hooklock" \notin HolderLocks
  /\ "held" \in HolderLocks /\ "deleting" \in HolderLocks
  /\ "removed" \in HolderLocks /\ "deleted" \in HolderLocks
  /\ "failed" \in HolderLocks
BY DEF HolderLocks

LEMMA DeleteLocks ==
  ASSUME TypeOK, LockInv, NEW a \in Apps, Delete(a) PROVE LockInv'
<1> USE HeldNames, HolderFacts, DeployAssumption DEF TypeOK, LockInv, OnePipeline
<1>1. CASE DeleteLock(a) BY <1>1 DEF DeleteLock, DeploymentsOf
<1>2. CASE DeleteResources(a)
  <2>1. \E h \in {"removed", "failed"} : holder' = [holder EXCEPT ![a] = h]
    BY <1>2 DEF DeleteResources
  <2> QED BY <1>2, <2>1 DEF DeleteResources, DeploymentsOf
<1>3. CASE DeleteRows(a)
  <2>1. \E h \in {"deleted", "failed"} : holder' = [holder EXCEPT ![a] = h]
    BY <1>3 DEF DeleteRows
  <2> QED BY <1>3, <2>1 DEF DeleteRows, DeploymentsOf
<1>4. CASE DeleteUnlock(a)
  BY <1>4 DEF DeleteUnlock, DeploymentsOf
<1>5. CASE DeleteHook(a)
  <2>1. \E h \in {"free", "hooklock"} : holder' = [holder EXCEPT ![a] = h]
    BY <1>5 DEF DeleteHook
  <2>2. CASE UNCHANGED <<pc, busy>>
    BY <2>1, <2>2 DEF DeploymentsOf
  <2>3. ASSUME NEW e \in Fresh(a), a \notin busy, Goto(e, "locked"),
               busy' = busy \cup {a}
        PROVE  LockInv'
    BY <2>1, <2>3 DEF Fresh, DeploymentsOf, Goto
  <2> QED BY <1>5, <2>2, <2>3 DEF DeleteHook
<1> QED BY <1>1, <1>2, <1>3, <1>4, <1>5 DEF Delete

LEMMA NextLock == ASSUME TypeOK, LockInv, PubInv, Next PROVE LockInv'
<1> USE HeldNames, HolderFacts, DeployAssumption
<1>1. ASSUME NEW a \in Apps, HookQueued(a) PROVE LockInv'
  BY <1>1, LockSame DEF HookQueued
<1>2. ASSUME NEW a \in Apps, HoldApp(a) \/ ReleaseApp(a) PROVE LockInv'
  <2>1. CASE HoldApp(a)
    BY <2>1 DEF HoldApp, TypeOK, LockInv, OnePipeline, DeploymentsOf
  <2>2. CASE ReleaseApp(a)
    BY <2>2 DEF ReleaseApp, TypeOK, LockInv, OnePipeline, DeploymentsOf
  <2> QED BY <1>2, <2>1, <2>2
<1>3. CASE Publish
  <2>1. ASSUME PubDone, pub.step # "free", UNCHANGED busy PROVE LockInv'
    <3>1. pc' = pc \/ \E d \in Deployments : pc[d] = "publish" /\ Goto(d, "drain")
      BY <2>1 DEF PubDone, PubInv, Goto
    <3>2. holder' = holder \/ \E a \in Apps : holder' = [holder EXCEPT ![a] = "free"]
      BY <2>1 DEF PubDone
    <3>3. \A x \in Deployments : pc'[x] \in HeldPcs => pc[x] \in HeldPcs
      BY <3>1 DEF Goto, TypeOK
    <3>4. \A a \in Apps : holder'[a] \in HolderLocks => holder[a] \in HolderLocks
      BY <3>2 DEF TypeOK
    <3> QED BY <2>1, <3>3, <3>4, LockShrinks
  <2> QED BY <1>3, <2>1, LockSame
          DEF Publish, PubRead, PubRecord, PubDeliver, PubError
<1>4. CASE Restart
  <2>1. \A d \in Deployments : pc'[d] \notin HeldPcs BY <1>4 DEF Restart
  <2>2. \A a \in Apps : holder'[a] \notin HolderLocks BY <1>4 DEF Restart
  <2> QED BY <2>1, <2>2 DEF LockInv, OnePipeline, DeploymentsOf
<1> QED BY <1>1, <1>2, <1>3, <1>4, RequestLock, JobLock, DeleteLocks DEF Next

-----------------------------------------------------------------------------
(* The running deployment keeps its containers.                             *)

RestInv == PubInv /\ LoopInv /\ SwitchInv /\ RunningServes

\* A step that moves no deployment and touches no container.
LEMMA StillStep ==
  ASSUME RestInv, NoNewRunning, UNCHANGED <<pc, cont, started, todo, pub>>,
         purged \subseteq purged'
  PROVE  RestInv'
<1>1. PubInv' BY DEF RestInv, PubInv
<1>2. LoopInv' BY DEF RestInv, LoopInv, LoopAt, Current
<1>3. SwitchInv' BY DEF RestInv, SwitchInv, NoNewRunning, DeploymentsOf
<1>4. RunningServes'
  BY DEF RestInv, RunningServes, NoNewRunning, Serves, DeploymentsOf
<1> QED BY <1>1, <1>2, <1>3, <1>4 DEF RestInv

\* A step of d outside the loop of deploy_targets and outside the switch.
LEMMA LightStep ==
  ASSUME TypeOK, RestInv, NEW d \in Deployments, NEW w, Goto(d, w), NoNewRunning,
         UNCHANGED <<cont, started, todo, purged, pub>>,
         pc[d] # "publish",
         pc[d] \in AfterFinish => w \in AfterFinish,
         w \notin {"publish", "drain", "launch", "probe", "finish", "stopold"},
         w \in BeforeLoop => pc[d] \in BeforeLoop
  PROVE  RestInv'
<1>p. pc \in [Deployments -> Pcs] BY DEF TypeOK
<1>1. PubInv' BY <1>p DEF RestInv, PubInv, Goto
<1>2. LoopInv'
  <2>1. \A x \in Deployments : pc'[x] = IF x = d THEN w ELSE pc[x]
    BY <1>p DEF Goto
  <2> QED BY <2>1 DEF RestInv, LoopInv, LoopAt, Current
<1>3. SwitchInv'
  <2>1. \A x \in Deployments : pc'[x] = IF x = d THEN w ELSE pc[x]
    BY <1>p DEF Goto
  <2> QED BY <2>1 DEF RestInv, SwitchInv, NoNewRunning, DeploymentsOf
<1>4. RunningServes'
  BY DEF RestInv, RunningServes, NoNewRunning, Serves, DeploymentsOf
<1> QED BY <1>1, <1>2, <1>3, <1>4 DEF RestInv

LEMMA RequestRest ==
  ASSUME TypeOK, RestInv, NEW d \in Deployments, Request(d) PROVE RestInv'
<1> USE RequestRunning DEF AfterFinish, BeforeLoop
<1>1. CASE DeployRequest(d) BY <1>1, LightStep DEF DeployRequest, LockFor
<1>2. CASE InsertRow(d) BY <1>2, LightStep DEF InsertRow, Unlock
<1>3. CASE SpawnJob(d) BY <1>3, LightStep DEF SpawnJob, Unlock
<1>4. CASE PendUnlock(d) BY <1>4, LightStep DEF PendUnlock, Unlock
<1>5. CASE InsertPending(d) BY <1>5, LightStep DEF InsertPending
<1>6. CASE ApproveLock(d) BY <1>6, LightStep DEF ApproveLock, LockFor
<1>7. CASE ApproveUpdate(d) BY <1>7, LightStep DEF ApproveUpdate, Unlock
<1>8. CASE Reject(d) BY <1>8, StillStep DEF Reject
<1>9. ASSUME NEW s \in Deployments, RollbackRequest(d, s) PROVE RestInv'
  BY <1>9, LightStep DEF RollbackRequest, LockFor
<1> QED BY <1>1, <1>2, <1>3, <1>4, <1>5, <1>6, <1>7, <1>8, <1>9 DEF Request

\* SetContainers(S, t, s) changes the containers of S and no other.
LEMMA ContOthers ==
  ASSUME TypeOK, NEW S, NEW t \in Targets, NEW s, SetContainers(S, t, s),
         NEW e \in Deployments, e \notin S
  PROVE  cont'[e] = cont[e]
BY DEF TypeOK, SetContainers

LEMMA ContRunning ==
  ASSUME TypeOK, NEW S, NEW t \in Targets, SetContainers(S, t, "running"),
         NEW e \in Deployments, NEW u \in Targets, cont[e][u] = "running"
  PROVE  cont'[e][u] = "running"
BY DEF TypeOK, SetContainers

\* The parts of the invariant that a step of d disturbs little.
LEMMA PubStep ==
  ASSUME TypeOK, PubInv, NEW d \in Deployments, NEW w, Goto(d, w),
         pc[d] # "publish", UNCHANGED pub
  PROVE  PubInv'
BY DEF TypeOK, PubInv, Goto

LEMMA SwitchStep ==
  ASSUME TypeOK, SwitchInv, NoNewRunning, NEW d \in Deployments, NEW w, Goto(d, w),
         pc[d] \in AfterFinish => w \in AfterFinish, w \notin {"publish", "drain"}
  PROVE  SwitchInv'
<1>1. \A x \in Deployments : pc'[x] = IF x = d THEN w ELSE pc[x]
  BY DEF TypeOK, Goto
<1> QED BY <1>1 DEF SwitchInv, NoNewRunning, DeploymentsOf

LEMMA ServesStep ==
  ASSUME RunningServes, NoNewRunning, purged \subseteq purged',
         \A e \in Deployments : \A u \in Targets :
           /\ status[e] = "running" /\ AppOf[e] \notin purged'
           /\ DeploymentsOf(AppOf[e]) \cap HostPort = {}
           /\ cont[e][u] = "running"
           => cont'[e][u] = "running"
  PROVE  RunningServes'
<1> SUFFICES ASSUME NEW e \in Deployments, status'[e] = "running",
                    AppOf[e] \notin purged',
                    DeploymentsOf(AppOf[e]) \cap HostPort = {},
                    NEW u \in TargetsOf[e]
             PROVE  cont'[e][u] = "running"
  BY DEF RunningServes, Serves, DeploymentsOf
<1>1. status[e] = "running" BY DEF NoNewRunning
<1>2. cont[e][u] = "running" BY <1>1 DEF RunningServes, Serves
<1> QED BY <1>1, <1>2, DeployAssumption

LEMMA LoopStep ==
  ASSUME TypeOK, LoopInv, NEW d \in Deployments, LoopAt(d)',
         \A x \in Deployments \ {d} :
           /\ pc'[x] = pc[x] /\ todo'[x] = todo[x] /\ started'[x] = started[x]
           /\ pc[x] \in {"launch", "probe", "finish"} =>
                \A u \in Targets : cont[x][u] = "running" => cont'[x][u] = "running"
  PROVE  LoopInv'
<1> SUFFICES ASSUME NEW x \in Deployments, x # d PROVE LoopAt(x)'
  BY DEF LoopInv
<1>1. LoopAt(x) BY DEF LoopInv
<1>2. started[x] \subseteq Targets BY DEF TypeOK
<1> QED BY <1>1, <1>2 DEF LoopAt, Current

LEMMA LightJobRest ==
  ASSUME TypeOK, RestInv, NEW d \in Deployments,
         \/ Start(d) \/ AcquirePermit(d) \/ Built(d) \/ Pulled(d) \/ Fail(d)
         \/ RemoveToken(d) \/ UnlockJob(d) \/ PendHook(d) \/ Drained(d) \/ RunHook(d)
  PROVE  RestInv'
<1> USE DEF AfterFinish, BeforeLoop
<1>0. Finish(d) => pc[d] = "finish" BY DEF Finish
<1>1. CASE Start(d)
  BY <1>0, <1>1, JobRunning, LightStep DEF Start, Job
<1>2. CASE AcquirePermit(d)
  BY <1>2, SameStatus, LightStep DEF AcquirePermit
<1>3. CASE Built(d)
  BY <1>0, <1>3, JobRunning, LightStep DEF Built, Job
<1>4. CASE Pulled(d)
  BY <1>4, SameStatus, LightStep DEF Pulled
<1>5. CASE Fail(d)
  BY <1>0, <1>5, JobRunning, LightStep DEF Fail, Job
<1>6. CASE RemoveToken(d) \/ UnlockJob(d)
  BY <1>6, SameStatus, LightStep DEF RemoveToken, UnlockJob, Unlock
<1>7. CASE PendHook(d) \/ Drained(d)
  BY <1>7, SameStatus, LightStep DEF PendHook, Drained, Dequeue
<1>8. CASE RunHook(d)
  <2> DEFINE next == IF pc[d] = "hook" THEN "done" ELSE "pend"
  <2>0. pc[d] \in {"hook", "pendlock"} BY <1>8 DEF RunHook
  <2>1. CASE Goto(d, next)
    BY <1>8, <2>0, <2>1, SameStatus, LightStep DEF RunHook
  <2>2. ASSUME NEW e \in Fresh(AppOf[d]),
               pc' = [pc EXCEPT ![d] = next, ![e] = "locked"]
        PROVE  RestInv'
    <3>1. e \in Deployments /\ pc[e] = "idle" BY <2>2 DEF Fresh, DeploymentsOf
    <3>2. \A x \in Deployments :
            pc'[x] = IF x = e THEN "locked" ELSE IF x = d THEN next ELSE pc[x]
      BY <2>0, <2>2, <3>1 DEF TypeOK
    <3>3. UNCHANGED <<status, cont, started, todo, purged, pub>>
      BY <1>8 DEF RunHook
    <3>4. PubInv' BY <2>0, <3>1, <3>2, <3>3 DEF RestInv, PubInv
    <3>5. LoopInv'
      BY <2>0, <3>1, <3>2, <3>3 DEF RestInv, LoopInv, LoopAt, Current
    <3>6. SwitchInv'
      BY <2>0, <3>1, <3>2, <3>3 DEF RestInv, SwitchInv, DeploymentsOf
    <3>7. RunningServes'
      BY <3>3 DEF RestInv, RunningServes, Serves, DeploymentsOf
    <3> QED BY <3>4, <3>5, <3>6, <3>7 DEF RestInv
  <2> QED BY <1>8, <2>1, <2>2 DEF RunHook
<1> QED BY <1>1, <1>2, <1>3, <1>4, <1>5, <1>6, <1>7, <1>8

\* While d has the app, no other deployment of the app is in its loop.
LEMMA Alone ==
  ASSUME LockInv, NEW d \in Deployments, pc[d] \in HeldPcs,
         NEW e \in Deployments, e # d, AppOf[e] = AppOf[d]
  PROVE  pc[e] \notin HeldPcs
BY DEF LockInv, OnePipeline, DeploymentsOf

\* The steps of d inside the loop change containers of d, stop those of an app
\* with a host port, or remove those that d superseded.
LEMMA LoopJobRest ==
  ASSUME TypeOK, LockInv, RestInv, NEW d \in Deployments,
         \/ Record(d) \/ Undo(d) \/ RestartStopped(d) \/ RemoveOld(d)
         \/ \E t \in Targets :
              StopOld(d, t) \/ Launch(d, t) \/ ProbeOk(d, t) \/ ProbeFail(d, t)
  PROVE  RestInv'
<1> USE DeployAssumption
<1>i. PubInv /\ LoopInv /\ SwitchInv /\ RunningServes BY DEF RestInv
<1>p. pc \in [Deployments -> Pcs] BY DEF TypeOK
<1>t. /\ todo \in [Deployments -> SUBSET Targets]
      /\ started \in [Deployments -> SUBSET Targets] BY DEF TypeOK
<1>l. LoopAt(d) BY <1>i DEF LoopInv
<1>h. pc[d] \notin AfterFinish => status[d] # "running" BY <1>i DEF SwitchInv
<1>1. CASE Record(d)
  <2>1. pc[d] = "prepared" BY <1>1 DEF Record
  <2>2. started[d] = {} BY <1>l, <2>1 DEF LoopAt, BeforeLoop
  <2>3. /\ NoNewRunning /\ UNCHANGED <<cont, started, purged, pub>>
        /\ todo' = [todo EXCEPT ![d] = TargetsOf[d]]
    BY <1>1, SameStatus DEF Record
  <2>4. PICK w \in {"stopold", "launch", "fail"} :
          Goto(d, w) /\ (w = "stopold" => d \in HostPort)
    BY <1>1 DEF Record
  <2>5. PubInv' BY <1>i, <2>1, <2>3, <2>4, PubStep
  <2>6. SwitchInv' BY <1>i, <2>1, <2>3, <2>4, SwitchStep DEF AfterFinish
  <2>7. RunningServes' BY <1>i, <2>3, ServesStep
  <2>8. LoopAt(d)'
    BY <1>p, <1>t, <2>2, <2>3, <2>4 DEF LoopAt, Goto, Current, BeforeLoop
  <2>9. LoopInv' BY <1>i, <1>p, <1>t, <2>3, <2>4, <2>8, LoopStep DEF Goto
  <2> QED BY <2>5, <2>6, <2>7, <2>9 DEF RestInv
<1>2. ASSUME NEW t \in Targets, StopOld(d, t) PROVE RestInv'
  <2>1. pc[d] = "stopold" /\ d \in HostPort /\ started[d] = {}
    BY <1>2, <1>l DEF StopOld, LoopAt, BeforeLoop
  <2>2. NoNewRunning /\ UNCHANGED <<started, purged, pub>>
    BY <1>2, SameStatus DEF StopOld
  <2>3. \/ todo' = [todo EXCEPT ![d] = TargetsOf[d]] /\ Goto(d, "launch")
        \/ todo' = [todo EXCEPT ![d] = @ \ {t}] /\ Goto(d, "stopold")
    BY <1>2, <1>p, <2>1 DEF StopOld, Goto
  <2>4. \A e \in Deployments : \A u \in Targets :
          AppOf[e] # AppOf[d] => cont'[e][u] = cont[e][u]
    <3>1. \/ cont' = cont
          \/ \E S \in SUBSET DeploymentsOf(AppOf[d]) : SetContainers(S, t, "stopped")
      BY <1>2 DEF StopOld, RunningOn
    <3> QED BY <3>1, ContOthers DEF DeploymentsOf
  <2>5. PubInv' BY <1>i, <2>1, <2>2, <2>3, PubStep
  <2>6. SwitchInv' BY <1>i, <2>1, <2>2, <2>3, SwitchStep DEF AfterFinish
  <2>7. RunningServes'
    BY <1>i, <2>1, <2>2, <2>4, ServesStep DEF DeploymentsOf
  <2>8. LoopAt(d)'
    BY <1>p, <1>t, <2>1, <2>2, <2>3 DEF LoopAt, Goto, Current, BeforeLoop
  <2>9. \A x \in Deployments \ {d} : pc[x] \in {"launch", "probe", "finish"} =>
          AppOf[x] # AppOf[d]
    BY <2>1, Alone, HeldNames
  <2>10. LoopInv'
    BY <1>i, <1>p, <1>t, <2>2, <2>3, <2>4, <2>8, <2>9, LoopStep DEF Goto
  <2> QED BY <2>5, <2>6, <2>7, <2>10 DEF RestInv
<1>3. ASSUME NEW t \in Targets, Launch(d, t) PROVE RestInv'
  <2>1. pc[d] = "launch" /\ status[d] # "running" /\ t \in todo[d]
    BY <1>3, <1>h DEF Launch, AfterFinish
  <2>2. /\ NoNewRunning /\ UNCHANGED <<started, purged, pub>>
        /\ todo' = [todo EXCEPT ![d] = @ \ {t}]
    BY <1>3, SameStatus DEF Launch
  <2>3. PICK w \in {"probe", "restart", "undo"} : Goto(d, w)
    BY <1>3 DEF Launch
  <2>4. \A e \in Deployments \ {d} : \A u \in Targets : cont'[e][u] = cont[e][u]
    <3>1. cont' = cont \/ \E s : SetContainers({d}, t, s)
      BY <1>3 DEF Launch
    <3> QED BY <3>1, ContOthers
  <2>5. PubInv' BY <1>i, <2>1, <2>2, <2>3, PubStep
  <2>6. SwitchInv' BY <1>i, <2>1, <2>2, <2>3, SwitchStep DEF AfterFinish
  <2>7. RunningServes' BY <1>i, <2>1, <2>2, <2>4, ServesStep
  <2>8. w = "probe" => \A u \in started[d] : cont'[d][u] = "running"
    <3>1. \A u \in started[d] : cont[d][u] = "running"
      BY <1>l, <2>1 DEF LoopAt
    <3>2. w = "probe" => SetContainers({d}, t, "running")
      BY <1>3, <1>p, <2>3 DEF Launch, Goto
    <3> QED BY <1>t, <3>1, <3>2, ContRunning
  <2>9. LoopAt(d)'
    <3>1. TargetsOf[d] \subseteq todo[d] \cup started[d]
      BY <1>l, <2>1 DEF LoopAt
    <3>2. pc'[d] = w BY <1>p, <2>3 DEF Goto
    <3>3. todo'[d] = todo[d] \ {t} /\ started'[d] = started[d] BY <1>t, <2>2
    <3> QED BY <2>3, <2>8, <3>1, <3>2, <3>3 DEF LoopAt, Current, BeforeLoop
  <2>10. LoopInv' BY <1>i, <1>p, <1>t, <2>2, <2>3, <2>4, <2>9, LoopStep DEF Goto
  <2> QED BY <2>5, <2>6, <2>7, <2>10 DEF RestInv
<1>4. ASSUME NEW t \in Targets, ProbeOk(d, t) PROVE RestInv'
  <2>1. pc[d] = "probe" /\ t \in Current(d) /\ cont[d][t] = "running"
    BY <1>4 DEF ProbeOk
  <2>2. /\ NoNewRunning /\ UNCHANGED <<cont, todo, purged, pub>>
        /\ started' = [started EXCEPT ![d] = @ \cup {t}]
    BY <1>4, SameStatus DEF ProbeOk
  <2>3. PICK w \in {"finish", "launch"} :
          Goto(d, w) /\ (w = "finish" => todo[d] = {})
    BY <1>4 DEF ProbeOk
  <2>4. PubInv' BY <1>i, <2>1, <2>2, <2>3, PubStep
  <2>5. SwitchInv' BY <1>i, <2>1, <2>2, <2>3, SwitchStep DEF AfterFinish
  <2>6. RunningServes' BY <1>i, <2>2, ServesStep
  <2>7. LoopAt(d)'
    <3>1. Current(d) = {t} BY <1>l, <2>1 DEF LoopAt
    <3>2. TargetsOf[d] \subseteq todo[d] \cup started[d] \cup {t}
      BY <3>1 DEF Current
    <3>3. pc'[d] = w BY <1>p, <2>3 DEF Goto
    <3>4. started'[d] = started[d] \cup {t} /\ todo'[d] = todo[d] BY <1>t, <2>2
    <3>5. \A u \in started'[d] : cont'[d][u] = "running"
      BY <1>l, <2>1, <2>2, <3>4 DEF LoopAt
    <3> QED BY <2>3, <3>2, <3>3, <3>4, <3>5 DEF LoopAt, BeforeLoop
  <2>8. LoopInv' BY <1>i, <1>p, <1>t, <2>2, <2>3, <2>7, LoopStep DEF Goto
  <2> QED BY <2>4, <2>5, <2>6, <2>8 DEF RestInv
<1>5. ASSUME NEW t \in Targets, ProbeFail(d, t) PROVE RestInv'
  <2>1. pc[d] = "probe" /\ status[d] # "running"
    BY <1>5, <1>h DEF ProbeFail, AfterFinish
  <2>2. NoNewRunning /\ UNCHANGED <<todo, started, purged, pub>> /\ Goto(d, "undo")
    BY <1>5, SameStatus DEF ProbeFail
  <2>3. \A e \in Deployments \ {d} : \A u \in Targets : cont'[e][u] = cont[e][u]
    <3>1. cont' = cont \/ \E s : SetContainers({d}, t, s)
      BY <1>5 DEF ProbeFail
    <3> QED BY <3>1, ContOthers
  <2>4. PubInv' BY <1>i, <2>1, <2>2, PubStep
  <2>5. SwitchInv' BY <1>i, <2>1, <2>2, SwitchStep DEF AfterFinish
  <2>6. RunningServes' BY <1>i, <2>1, <2>2, <2>3, ServesStep
  <2>7. LoopAt(d)' BY <1>p, <2>2 DEF LoopAt, Goto, BeforeLoop
  <2>8. LoopInv' BY <1>i, <1>p, <2>2, <2>3, <2>7, LoopStep DEF Goto
  <2> QED BY <2>4, <2>5, <2>6, <2>8 DEF RestInv
<1>6. CASE Undo(d)
  <2>1. pc[d] = "undo" /\ status[d] # "running"
    BY <1>6, <1>h DEF Undo, AfterFinish
  <2>2. NoNewRunning /\ UNCHANGED <<todo, purged, pub>>
    BY <1>6, SameStatus DEF Undo
  <2>3. PICK w \in {"undo", "restart"} : Goto(d, w)
    BY <1>6, <1>p, <2>1 DEF Undo, Goto
  <2>4. \A e \in Deployments \ {d} : \A u \in Targets : cont'[e][u] = cont[e][u]
    <3>1. cont' = cont \/ \E t \in Targets : SetContainers({d}, t, "absent")
      BY <1>6, <1>t DEF Undo
    <3> QED BY <3>1, ContOthers
  <2>5. \A e \in Deployments \ {d} : started'[e] = started[e]
    BY <1>6, <1>t DEF Undo
  <2>6. PubInv' BY <1>i, <2>1, <2>2, <2>3, PubStep
  <2>7. SwitchInv' BY <1>i, <2>1, <2>2, <2>3, SwitchStep DEF AfterFinish
  <2>8. RunningServes' BY <1>i, <2>1, <2>2, <2>4, ServesStep
  <2>9. LoopAt(d)' BY <1>p, <2>3 DEF LoopAt, Goto, BeforeLoop
  <2>10. LoopInv' BY <1>i, <1>p, <2>2, <2>3, <2>4, <2>5, <2>9, LoopStep DEF Goto
  <2> QED BY <2>6, <2>7, <2>8, <2>10 DEF RestInv
<1>7. CASE RestartStopped(d)
  <2>1. pc[d] = "restart" BY <1>7 DEF RestartStopped
  <2>2. NoNewRunning /\ UNCHANGED <<todo, started, purged, pub>>
    BY <1>7, SameStatus DEF RestartStopped
  <2>3. PICK w \in {"restart", "fail"} : Goto(d, w)
    BY <1>7, <1>p, <2>1 DEF RestartStopped, Goto
  <2>4. \A e \in Deployments : \A u \in Targets :
          cont[e][u] = "running" => cont'[e][u] = "running"
    <3>1. \A old \in stopped[d] : old[2] \in Targets BY DEF TypeOK, Servers
    <3>2. \/ cont' = cont
          \/ \E old \in stopped[d] : SetContainers({old[1]}, old[2], "running")
      BY <1>7 DEF RestartStopped
    <3> QED BY <3>1, <3>2, ContRunning
  <2>5. PubInv' BY <1>i, <2>1, <2>2, <2>3, PubStep
  <2>6. SwitchInv' BY <1>i, <2>1, <2>2, <2>3, SwitchStep DEF AfterFinish
  <2>7. RunningServes' BY <1>i, <2>2, <2>4, ServesStep
  <2>8. LoopAt(d)' BY <1>p, <2>3 DEF LoopAt, Goto, BeforeLoop
  <2>9. LoopInv' BY <1>i, <1>p, <2>2, <2>3, <2>4, <2>8, LoopStep DEF Goto
  <2> QED BY <2>5, <2>6, <2>7, <2>9 DEF RestInv
<1>8. CASE RemoveOld(d)
  <2>1. pc[d] = "drain" BY <1>8 DEF RemoveOld
  <2>2. NoNewRunning /\ UNCHANGED <<status, started, purged, pub>>
    BY <1>8, SameStatus DEF RemoveOld
  <2>3. pc' = pc \/ Goto(d, "end") BY <1>8 DEF RemoveOld
  <2>4. \A e \in Deployments : \A u \in Targets :
          e = d \/ AppOf[e] # AppOf[d] => cont'[e][u] = cont[e][u]
    <3>1. \/ cont' = cont
          \/ \E t \in Targets : \E S \in SUBSET OldContainers(d) :
               SetContainers(S, t, "absent")
      BY <1>8, <1>t DEF RemoveOld
    <3> QED BY <3>1, ContOthers DEF OldContainers, DeploymentsOf
  <2>5. \A e \in Deployments \ {d} : todo'[e] = todo[e]
    BY <1>8, <1>t DEF RemoveOld
  <2>6. PubInv' BY <1>i, <2>1, <2>2, <2>3, PubStep DEF PubInv
  <2>7. SwitchInv'
    <3>1. CASE Goto(d, "end") BY <1>i, <2>1, <2>2, <3>1, SwitchStep DEF AfterFinish
    <3>2. CASE pc' = pc BY <1>i, <2>2, <3>2 DEF SwitchInv, DeploymentsOf
    <3> QED BY <2>3, <3>1, <3>2
  <2>8. RunningServes'
    <3>1. \A e \in Deployments : status[e] = "running" =>
            e = d \/ AppOf[e] # AppOf[d]
      BY <1>i, <2>1 DEF SwitchInv, DeploymentsOf
    <3> QED BY <1>i, <2>2, <2>4, <3>1, ServesStep
  <2>9. LoopAt(d)' BY <1>p, <2>1, <2>3 DEF LoopAt, Goto, BeforeLoop
  <2>10. \A x \in Deployments \ {d} : pc[x] \in {"launch", "probe", "finish"} =>
           AppOf[x] # AppOf[d]
    BY <2>1, Alone, HeldNames
  <2>11. LoopInv'
    BY <1>i, <1>p, <2>2, <2>3, <2>4, <2>5, <2>9, <2>10, LoopStep DEF Goto
  <2> QED BY <2>6, <2>7, <2>8, <2>11 DEF RestInv
<1> QED BY <1>1, <1>2, <1>3, <1>4, <1>5, <1>6, <1>7, <1>8

\* The switch: every target of d is started, and nobody else is past Finish.
LEMMA FinishRest ==
  ASSUME TypeOK, LockInv, RestInv, NEW d \in Deployments, Finish(d)
  PROVE  RestInv'
<1> USE DeployAssumption
<1>i. PubInv /\ LoopInv /\ SwitchInv /\ RunningServes BY DEF RestInv
<1>p. pc \in [Deployments -> Pcs] BY DEF TypeOK
<1>1. pc[d] = "finish" /\ UNCHANGED <<cont, started, pub>> BY DEF Finish
<1>2. CASE Goto(d, "fail") /\ UNCHANGED <<status, todo, purged>>
  BY <1>1, <1>2, SameStatus, LightStep DEF AfterFinish, BeforeLoop
<1>3. ASSUME Goto(d, "publish"), purged' = purged \ {AppOf[d]},
             todo' = [todo EXCEPT ![d] = TargetsOf[d]],
             status' = [e \in Deployments |->
               IF e = d THEN (IF status[d] = "none" THEN "none" ELSE "running")
               ELSE IF AppOf[e] = AppOf[d] /\ status[e] = "running"
               THEN "superseded" ELSE status[e]]
      PROVE  RestInv'
  <2>1. PubInv' BY <1>i, <1>1, <1>3, PubStep
  <2>2. Serves(d)'
    <3>1. TargetsOf[d] \subseteq started[d]
          /\ \A t \in started[d] : cont[d][t] = "running"
      BY <1>i, <1>1 DEF LoopInv, LoopAt
    <3> QED BY <1>1, <3>1 DEF Serves
  <2>3. \A e \in Deployments \ {d} : status'[e] = "running" =>
          status[e] = "running" /\ AppOf[e] # AppOf[d]
    BY <1>3
  <2>4. RunningServes'
    BY <1>i, <1>1, <1>3, <2>2, <2>3 DEF RunningServes, Serves, DeploymentsOf
  <2>5. \A x \in Deployments : pc'[x] = IF x = d THEN "publish" ELSE pc[x]
    BY <1>3, <1>p DEF Goto
  <2>6. SwitchInv'
    <3>1. \A e \in Deployments \ {d} :
            AppOf[e] = AppOf[d] => pc[e] \notin {"publish", "drain"}
      BY <1>1, Alone, HeldNames
    <3>2. ASSUME NEW e \in Deployments, status'[e] = "running",
                 NEW x \in DeploymentsOf(AppOf[e]) \ {e}
          PROVE  pc'[e] \in AfterFinish /\ pc'[x] \notin {"publish", "drain"}
      BY <1>i, <2>3, <2>5, <3>1, <3>2 DEF SwitchInv, AfterFinish, DeploymentsOf
    <3>3. ASSUME NEW e \in Deployments, status'[e] = "running"
          PROVE  pc'[e] \in AfterFinish
      BY <1>i, <2>3, <2>5, <3>3 DEF SwitchInv, AfterFinish
    <3> QED BY <3>2, <3>3 DEF SwitchInv, DeploymentsOf
  <2>7. LoopAt(d)' BY <2>5 DEF LoopAt, BeforeLoop
  <2>8. \A x \in Deployments \ {d} : todo'[x] = todo[x] BY <1>3 DEF TypeOK
  <2>9. LoopInv' BY <1>i, <1>1, <2>5, <2>7, <2>8, LoopStep
  <2> QED BY <2>1, <2>4, <2>6, <2>9 DEF RestInv
<1> QED BY <1>2, <1>3 DEF Finish

LEMMA PublishRest == ASSUME TypeOK, RestInv, Publish PROVE RestInv'
<1> USE DeployAssumption
<1>i. PubInv /\ LoopInv /\ SwitchInv /\ RunningServes BY DEF RestInv
<1>p. pc \in [Deployments -> Pcs] BY DEF TypeOK
<1>1. UNCHANGED <<status, cont, todo, started, purged>>
  BY DEF Publish, PubRead, PubRecord, PubDeliver, PubError
<1>2. RunningServes' BY <1>i, <1>1, SameStatus, ServesStep
<1>3. CASE pc' = pc
  <2>1. LoopInv' BY <1>i, <1>1, <1>3 DEF LoopInv, LoopAt, Current
  <2>2. SwitchInv' BY <1>i, <1>1, <1>3 DEF SwitchInv, DeploymentsOf
  <2>3. PubInv'
    <3>1. CASE pub' = PubFree BY <3>1 DEF PubInv, PubFree
    <3>2. ASSUME NEW p \in Publishers, PubRead(p) PROVE PubInv'
      BY <3>2 DEF PubRead, Wants, PubInv
    <3>3. CASE pub' = [pub EXCEPT !.step = "recorded"] /\ pub.step = "read"
      <4>1. pub'.owner = pub.owner /\ pub.step # "free" BY <3>3 DEF TypeOK
      <4> QED BY <1>i, <1>3, <4>1 DEF PubInv
    <3> QED BY <3>1, <3>2, <3>3
            DEF Publish, PubRecord, PubDeliver, PubError, PubDone
  <2> QED BY <1>2, <2>1, <2>2, <2>3 DEF RestInv
<1>4. CASE pc' # pc
  <2>1. pub.owner \in Deployments /\ pub.step # "free" /\ pub' = PubFree
        /\ Goto(pub.owner, "drain")
    BY <1>4 DEF Publish, PubRead, PubRecord, PubDeliver, PubError, PubDone, Goto
  <2> DEFINE d == pub.owner
  <2>2. pc[d] = "publish" BY <1>i, <2>1 DEF PubInv
  <2>3. \A x \in Deployments : pc'[x] = IF x = d THEN "drain" ELSE pc[x]
    BY <1>p, <2>1 DEF Goto
  <2> HIDE DEF d
  <2>4. LoopInv'
    BY <1>i, <1>1, <2>2, <2>3 DEF LoopInv, LoopAt, Current, BeforeLoop
  <2>5. SwitchInv'
    BY <1>i, <1>1, <2>2, <2>3 DEF SwitchInv, AfterFinish, DeploymentsOf
  <2>6. PubInv' BY <2>1 DEF PubInv, PubFree
  <2> QED BY <1>2, <2>4, <2>5, <2>6 DEF RestInv
<1> QED BY <1>3, <1>4

LEMMA DeleteRest ==
  ASSUME TypeOK, LockInv, RestInv, NEW a \in Apps, Delete(a) PROVE RestInv'
<1> USE DeployAssumption
<1>i. PubInv /\ LoopInv /\ SwitchInv /\ RunningServes BY DEF RestInv
<1>0. NoNewRunning BY OthersRunning
<1>1. CASE DeleteLock(a) \/ DeleteRows(a) \/ DeleteUnlock(a)
  BY <1>0, <1>1, StillStep DEF DeleteLock, DeleteRows, DeleteUnlock
<1>2. CASE DeleteHook(a)
  <2>1. CASE UNCHANGED pc BY <1>0, <1>2, <2>1, StillStep DEF DeleteHook
  <2>2. ASSUME NEW e \in Fresh(a), Goto(e, "locked") PROVE RestInv'
    BY <1>0, <1>2, <2>2, LightStep
       DEF DeleteHook, Fresh, DeploymentsOf, AfterFinish, BeforeLoop
  <2> QED BY <1>2, <2>1, <2>2 DEF DeleteHook
<1>3. CASE DeleteResources(a)
  <2>1. /\ holder[a] \in HolderLocks /\ purged' = purged \cup {a}
        /\ UNCHANGED <<status, pc, todo, started, pub>>
    BY <1>3 DEF DeleteResources, HolderLocks
  <2>2. \A e \in Deployments : \A u \in Targets :
          AppOf[e] # a => cont'[e][u] = cont[e][u]
    BY <1>3 DEF DeleteResources, TypeOK
  <2>3. \A e \in Deployments : AppOf[e] = a => pc[e] \notin HeldPcs
    BY <2>1 DEF LockInv, OnePipeline
  <2>4. RunningServes' BY <1>0, <1>i, <2>1, <2>2, ServesStep
  <2>5. PubInv' BY <1>i, <2>1 DEF PubInv
  <2>6. SwitchInv' BY <1>i, <2>1 DEF SwitchInv, DeploymentsOf
  <2>7. LoopInv'
    <3> SUFFICES ASSUME NEW e \in Deployments PROVE LoopAt(e)'
      BY DEF LoopInv
    <3>1. LoopAt(e) /\ started[e] \subseteq Targets BY <1>i DEF LoopInv, TypeOK
    <3> QED BY <2>1, <2>2, <2>3, <3>1, HeldNames DEF LoopAt, Current
  <2> QED BY <2>4, <2>5, <2>6, <2>7 DEF RestInv
<1> QED BY <1>1, <1>2, <1>3 DEF Delete

LEMMA RestartRest == ASSUME TypeOK, RestInv, Restart PROVE RestInv'
<1>i. RunningServes BY DEF RestInv
<1>0. NoNewRunning BY OthersRunning
<1>1. UNCHANGED <<cont, purged>> BY DEF Restart
<1>2. RunningServes' BY <1>0, <1>1, <1>i, ServesStep
<1>3. PubInv' BY DEF Restart, PubInv, PubFree
<1>4. \A d \in Deployments : pc'[d] \in {"idle", "parked", "done"}
                           /\ started'[d] = {}
  BY DEF Restart
<1>5. LoopInv' BY <1>4 DEF LoopInv, LoopAt
<1>6. ASSUME NEW d \in Deployments, status'[d] = "running"
      PROVE  pc'[d] \in AfterFinish
  <2>1. status[d] = "running" BY <1>0, <1>6 DEF NoNewRunning
  <2>2. pc[d] \in AfterFinish BY <2>1 DEF RestInv, SwitchInv
  <2>3. pc'[d] = "done" BY <2>1, <2>2 DEF Restart, AfterFinish
  <2> QED BY <2>3 DEF AfterFinish
<1>7. SwitchInv' BY <1>4, <1>6 DEF SwitchInv, DeploymentsOf
<1> QED BY <1>2, <1>3, <1>5, <1>7 DEF RestInv

LEMMA ServeInductive == Spec => [](TypeOK /\ ServeInv)
<1>1. Init => TypeOK /\ ServeInv
  <2> SUFFICES ASSUME Init PROVE ServeInv BY InitType
  <2>1. LockInv BY HeldNames, HolderFacts DEF Init, LockInv, OnePipeline
  <2>2. PubInv BY DEF Init, PubInv, PubFree
  <2>3. LoopInv BY DEF Init, LoopInv, LoopAt
  <2>4. SwitchInv /\ RunningServes BY DEF Init, SwitchInv, RunningServes
  <2> QED BY <2>1, <2>2, <2>3, <2>4 DEF ServeInv
<1>2. TypeOK /\ ServeInv /\ [Next]_vars => (TypeOK /\ ServeInv)'
  <2> SUFFICES ASSUME TypeOK, LockInv, RestInv, [Next]_vars
               PROVE  TypeOK' /\ LockInv' /\ RestInv'
    BY DEF ServeInv, RestInv
  <2>1. CASE Next
    <3>1. TypeOK' BY <2>1, NextType
    <3>2. LockInv' BY <2>1, NextLock DEF RestInv
    <3>3. ASSUME NEW a \in Apps, HookQueued(a) \/ HoldApp(a) \/ ReleaseApp(a)
          PROVE  RestInv'
      BY <3>3, SameStatus, StillStep DEF HookQueued, HoldApp, ReleaseApp
    <3>4. ASSUME NEW d \in Deployments, Job(d) PROVE RestInv'
      BY <3>4, LightJobRest, LoopJobRest, FinishRest DEF Job
    <3> QED BY <2>1, <3>1, <3>2, <3>3, <3>4, RequestRest, PublishRest, DeleteRest,
               RestartRest DEF Next
  <2>2. CASE UNCHANGED vars
    <3>1. TypeOK' BY <2>2 DEF vars, TypeOK
    <3>2. LockInv' BY <2>2, LockSame DEF vars
    <3>3. RestInv' BY <2>2, SameStatus, StillStep DEF vars
    <3> QED BY <3>1, <3>2, <3>3
  <2> QED BY <2>1, <2>2
<1> QED BY <1>1, <1>2, PTL DEF Spec

\* Without cancel requests, `busy` gives an app to one pipeline, deletion, backup
\* or restore at a time, whatever fails and whenever the server restarts.
THEOREM PipelineExclusion == Spec => []OnePipeline
<1>1. ServeInv => OnePipeline BY DEF ServeInv, LockInv
<1> QED BY <1>1, ServeInductive, PTL

\* Without cancel requests, the deployment that the store calls `running` keeps
\* its containers on every target until the next one has replaced it.
THEOREM BlueGreen == Spec => []RunningServes
<1>1. ServeInv => RunningServes BY DEF ServeInv
<1> QED BY <1>1, ServeInductive, PTL

=============================================================================
