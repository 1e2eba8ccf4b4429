-------------------------- MODULE SupervisorProofs --------------------------
(***************************************************************************)
(* One worker at a time, for any number of restarts, crashes, hangs and    *)
(* configuration changes, and for every capacity of the queues.            *)
(*                                                                         *)
(* OneWorker is not inductive: a start in a loop that still has a worker   *)
(* would break it.  SpawnInv says that the loop starts a worker only after *)
(* it has dropped the one before, and Bound that the one before is not     *)
(* alive, because restart_dead_worker only drops a process that has ended. *)
(***************************************************************************)
EXTENDS Supervisor, FiniteSetTheorems, TLAPS

Places ==
  /\ worker \in 0..MaxWorkers
  /\ started \in 0..MaxWorkers
  /\ proc \in [Workers -> ProcStates]

SpawnInv == pc = "spawn" => worker = 0

Bound == \A k \in Workers : proc[k] \in Alive => k = worker

IInv == Places /\ SpawnInv /\ Bound

\* The loop starts without a worker.
LEMMA InitInv == Init => IInv
BY SupervisorAssumption
  DEF Init, IInv, Places, SpawnInv, Bound, Workers, ProcStates, Alive

\* Every branch of the loop, and every step of a worker, keeps the invariant.
LEMMA StepInv == IInv /\ [Next]_vars => IInv'
<1> SUFFICES ASSUME IInv, [Next]_vars PROVE IInv'
  OBVIOUS
<1> USE SupervisorAssumption DEF IInv, Places, SpawnInv, Bound, Workers, ProcStates,
                                 Alive
<1>1. CASE StartWorker
  BY <1>1 DEF StartWorker
<1>2. CASE StartFails
  BY <1>2 DEF StartFails
<1>3. CASE Refresh
  BY <1>3 DEF Refresh
<1>4. CASE SendConfig
  BY <1>4 DEF SendConfig, Loop
<1>5. CASE Forward
  BY <1>5 DEF Forward
<1>6. CASE Tick
  BY <1>6 DEF Tick, Loop
<1>7. CASE SendIpc
  BY <1>7 DEF SendIpc, Loop
<1>8. CASE TakeEvent
  BY <1>8 DEF TakeEvent, Loop
<1>9. CASE Stop
  BY <1>9 DEF Stop
<1>10. ASSUME NEW k \in Workers, Announce(k) \/ Answer(k) \/ Crash(k) \/ Hang(k)
       PROVE  IInv'
  <2>1. CASE Announce(k)
    BY <2>1 DEF Announce
  <2>2. CASE Answer(k)
    BY <2>2 DEF Answer
  <2>3. CASE Crash(k)
    BY <2>3 DEF Crash
  <2>4. CASE Hang(k)
    BY <2>4 DEF Hang
  <2> QED
    BY <1>10, <2>1, <2>2, <2>3, <2>4
<1>11. CASE WriterEnds
  BY <1>11 DEF WriterEnds
<1>12. CASE Configure
  BY <1>12 DEF Configure
<1>13. CASE UNCHANGED vars
  BY <1>13 DEF vars
<1> QED
  BY <1>1, <1>2, <1>3, <1>4, <1>5, <1>6, <1>7, <1>8, <1>9, <1>10, <1>11, <1>12,
     <1>13 DEF Next

\* The processes that are alive are at most the worker of the loop.
LEMMA InvOneWorker == IInv => OneWorker
<1> SUFFICES ASSUME IInv PROVE OneWorker
  OBVIOUS
<1> DEFINE Live == {k \in Workers : proc[k] \in Alive}
<1>1. Live \subseteq {worker}
  BY DEF IInv, Bound
<1>2. IsFiniteSet({worker}) /\ Cardinality({worker}) = 1
  BY FS_Singleton
<1>3. IsFiniteSet(Live) /\ Cardinality(Live) <= 1
  BY <1>1, <1>2, FS_Subset
<1> QED
  BY <1>3 DEF IInv, Bound, OneWorker

\* The master never runs two workers at a time: spawn_worker starts one only after
\* the process before it has ended, whatever crashes, hangs or answers late.
THEOREM OneWorkerAtATime == Spec => []OneWorker
<1>1. Init => IInv
  BY InitInv
<1>2. IInv /\ [Next]_vars => IInv'
  BY StepInv
<1>3. IInv => OneWorker
  BY InvOneWorker
<1> QED
  BY <1>1, <1>2, <1>3, PTL DEF Spec
=============================================================================
