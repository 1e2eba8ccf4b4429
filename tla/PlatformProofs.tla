-------------------------- MODULE PlatformProofs ----------------------------
(***************************************************************************)
(* Proofs about four parts of the platform beside the pipelines: the       *)
(* scheduled commands, the deployments of a Compose app, the previews of   *)
(* pull requests and the files of the backups, each for every value of its *)
(* constants.                                                              *)
(***************************************************************************)
EXTENDS ScheduledCommands, ComposeDeploy, Previews, BackupFiles, FiniteSetTheorems,
        SequenceTheorems, WellFoundedInduction, TLAPS

-----------------------------------------------------------------------------
(* ScheduledCommands.  Whether a command runs twice in a slot depends on what was *)
(* read before it: TimesInOrder, DueStill, Recorded and Counted relate the row, the *)
(* slot and the runs on their way.                                         *)

\* The rows of the runs.
RunRows == [pc : RunPcs, byLoop : BOOLEAN, at : Slots]

\* A run that executes its command, or has it to record.
Executing(r) == run[r].pc \in {"exec", "record"}

\* No time is ahead of the schedule, and a run that executes is not older than the row.
TimesInOrder ==
  /\ lastRun <= slot
  /\ loop.pc = "due" => loop.saw < slot
  /\ \A r \in RunIds : Executing(r) => lastRun <= run[r].at /\ run[r].at <= slot

\* A run of the loop that has not executed yet is for a slot that is not in the row.
DueStill == ~excused =>
  \A r \in RunIds : run[r].pc = "read" /\ run[r].byLoop => lastRun < slot

\* What the loop has executed is in the row, or the run that will record it still runs.
Recorded == ~excused /\ command # "deleted" =>
  \A s \in Slots : ranIn[s] > 0 =>
    s <= lastRun \/ \E r \in RunIds : Executing(r) /\ s <= run[r].at

\* A run that executes was started, and so was one that has yet to execute.
Counted == \A s \in Slots :
  /\ ranIn[s] <= started
  /\ \A r \in RunIds : run[r].pc = "read" => ranIn[s] < started

\* A run waits for its process only while it executes it.
Waited == \A r \in RunIds : process[r] = "runs" => run[r].pc = "exec"

\* The parts of NeverTwice that the others are about.
CommandCore == CommandTypeOK /\ OneInstance /\ OncePerSlot

\* The inductive invariant.
CommandInv == CommandCore /\ Waited /\ TimesInOrder /\ DueStill /\ Recorded /\ Counted

\* No run at the start.
LEMMA CommandInitInv == CommandInit => CommandInv
<1> SUFFICES ASSUME CommandInit PROVE CommandInv
  OBVIOUS
<1>1. CommandTypeOK
  <2>1. slot \in Slots /\ 0 \in Slots /\ 0 \in 0..MaxRuns /\ 0 \in 0..MaxKills
    BY CommandAssumption DEF CommandInit, Slots
  <2>2. run \in [RunIds -> [pc : RunPcs, byLoop : BOOLEAN, at : Slots]]
    BY <2>1 DEF CommandInit, NotRun, RunPcs
  <2> QED
    BY <2>1, <2>2 DEF CommandInit, CommandTypeOK, Asleep
<1>2. \A r \in RunIds : run[r].pc = "none"
  BY DEF CommandInit, NotRun
<1>3. NoRun \notin RunIds /\ \A s \in Slots : ranIn[s] = 0
  BY DEF NoRun, RunIds, CommandInit
<1> QED
  BY <1>1, <1>2, <1>3 DEF CommandInit, CommandInv, CommandCore, OneInstance, OncePerSlot,
    TimesInOrder, DueStill, Recorded, Counted, Executing, Asleep, Waited

\* The facts about types that the steps below need.
LEMMA CommandTypes ==
  ASSUME CommandTypeOK
  PROVE  /\ slot \in Nat /\ lastRun \in Nat /\ started \in Nat /\ loop.saw \in Nat
         /\ kills \in Nat
         /\ slot \in Slots /\ excused \in BOOLEAN /\ run \in [RunIds -> RunRows]
         /\ \A s \in Slots : s \in Nat /\ ranIn[s] \in Nat
         /\ \A r \in RunIds : /\ run[r].pc \in RunPcs /\ run[r].byLoop \in BOOLEAN
                              /\ run[r].at \in Nat /\ r # NoRun
<1>1. \A s \in Slots : s \in Nat
  BY DEF Slots
<1>2. run \in [RunIds -> RunRows] /\ loop \in [pc : {"sleep", "due"}, saw : Slots]
  BY DEF CommandTypeOK, RunRows
<1>3. \A r \in RunIds : run[r].pc \in RunPcs /\ run[r].byLoop \in BOOLEAN
        /\ run[r].at \in Slots
  BY <1>2 DEF RunRows
<1>4. \A s \in Slots : ranIn[s] \in Nat
  BY CommandAssumption DEF CommandTypeOK
<1>5. loop.saw \in Slots /\ started \in Nat /\ slot \in Slots /\ lastRun \in Slots
        /\ excused \in BOOLEAN /\ kills \in Nat
  BY <1>2, CommandAssumption DEF CommandTypeOK
<1>6. \A r \in RunIds : r # NoRun
  BY DEF RunIds, NoRun
<1> QED
  BY <1>1, <1>2, <1>3, <1>4, <1>5, <1>6

\* The run r goes to the row v, and no other run changes.
Becomes(r, v) ==
  /\ run' \in [RunIds -> RunRows]
  /\ run'[r] = v
  /\ \A q \in RunIds \ {r} : run'[q] = run[q]

\* A run takes the lock: none runs beside it, and for the loop the row is as it read it.
LEMMA StartStep ==
  ASSUME CommandInv, NEW b \in BOOLEAN, MayLock, StartRun(b),
         UNCHANGED <<slot, inTime, command, lastRun, deployed, process, ranIn, kills>>,
         loop' \in {loop, Asleep}, excused' \in BOOLEAN,
         excused => excused', b => excused' \/ lastRun < slot
  PROVE  CommandInv'
<1> DEFINE r == started + 1
<1>1. CommandTypeOK
  BY DEF CommandInv, CommandCore
<1>2. r \in RunIds /\ r \in 0..MaxRuns
  BY <1>1, CommandTypes, CommandAssumption DEF MayLock, RunIds
<1>3. Becomes(r, [NotRun EXCEPT !.pc = "read", !.byLoop = b])
  <2>0. 0 \in Slots
    BY CommandAssumption DEF Slots
  <2>1. [NotRun EXCEPT !.pc = "read", !.byLoop = b] \in RunRows
    BY <2>0 DEF NotRun, RunRows, RunPcs
  <2> HIDE DEF r
  <2> QED
    BY <1>1, <1>2, <2>1, CommandTypes DEF StartRun, Becomes, r
<1>4. run'[r].pc = "read" /\ run'[r].byLoop = b
  BY <1>3 DEF Becomes, NotRun
<1>5. \A q \in RunIds : run[q].pc = "none"
  BY <1>1, CommandTypes DEF CommandInv, CommandCore, OneInstance, MayLock
<1>6. runLock' = r /\ started' = started + 1 /\ run' \in [RunIds -> RunRows]
      /\ \A q \in RunIds \ {r} : run'[q].pc = "none"
  BY <1>3, <1>5 DEF StartRun, Becomes
<1> HIDE DEF r
<1>7. CommandTypeOK'
  <2>1. loop' \in [pc : {"sleep", "due"}, saw : Slots]
    BY <1>1, CommandAssumption DEF CommandTypeOK, Asleep, Slots
  <2> QED
    BY <1>1, <1>2, <1>6, <2>1 DEF CommandTypeOK, RunRows, r
<1> USE <1>1, CommandTypes, <1>2, <1>4, <1>5, <1>6 DEF CommandInv, CommandCore
<1>8. OneInstance'
  BY DEF OneInstance
<1>9. OncePerSlot'
  BY DEF OncePerSlot
<1>10. TimesInOrder'
  BY DEF TimesInOrder, Executing, Asleep
<1>11. DueStill'
  BY DEF DueStill
<1>12. Recorded'
  BY DEF Recorded, Executing
<1>13. Counted' /\ Waited'
  BY DEF Counted, Waited
<1> QED
  BY <1>7, <1>8, <1>9, <1>10, <1>11, <1>12, <1>13

\* A run that is over leaves the lock.  What it has executed is in the row by then, or
\* the history notes that it is not.
LEMMA EndStep ==
  ASSUME CommandInv, NEW r \in RunIds, run[r].pc # "none", EndRun(r),
         UNCHANGED <<slot, inTime, command, deployed, loop, started, process, ranIn, kills>>,
         process[r] # "runs",
         excused' \in BOOLEAN, excused => excused',
         \/ lastRun' = run[r].at /\ run[r].pc = "record" /\ command # "deleted"
         \/ lastRun' = lastRun /\ (excused' \/ command = "deleted" \/ run[r].pc = "read")
  PROVE  CommandInv'
<1>1. CommandTypeOK
  BY DEF CommandInv, CommandCore
<1>2. /\ run' \in [RunIds -> RunRows] /\ run'[r].pc = "none"
      /\ \A q \in RunIds \ {r} : run'[q] = run[q]
  <2>1. NotRun \in RunRows
    BY CommandAssumption DEF NotRun, RunRows, RunPcs, Slots
  <2> QED
    BY <1>1, <2>1, CommandTypes DEF EndRun, NotRun
<1>3. runLock = r /\ \A q \in RunIds \ {r} : run[q].pc = "none"
  BY <1>1, CommandTypes DEF CommandInv, CommandCore, OneInstance
<1>4. \A q \in RunIds : run'[q].pc = "none"
  BY <1>2, <1>3
<1>5. runLock' = NoRun /\ lastRun' \in Slots /\ lastRun' <= slot /\ lastRun <= lastRun'
  BY <1>1, CommandTypes DEF EndRun, CommandInv, TimesInOrder, Executing, CommandTypeOK
<1>6. CommandTypeOK'
  BY <1>1, <1>2, <1>5 DEF CommandTypeOK, RunRows
<1> USE <1>1, CommandTypes, <1>2, <1>3, <1>4, <1>5 DEF CommandInv, CommandCore
<1>7. OneInstance'
  BY DEF OneInstance
<1>8. OncePerSlot'
  BY DEF OncePerSlot
<1>9. TimesInOrder'
  BY DEF TimesInOrder, Executing
<1>10. DueStill' /\ Counted' /\ Waited'
  BY DEF DueStill, Counted, Waited
<1>11. Recorded'
  <2> SUFFICES ASSUME ~excused', command # "deleted", NEW s \in Slots, ranIn[s] > 0
               PROVE  s <= lastRun'
    BY DEF Recorded
  <2>1. s <= lastRun \/ (Executing(r) /\ s <= run[r].at)
    BY DEF Recorded, Executing
  <2> QED
    BY <2>1 DEF Executing
<1> QED
  BY <1>6, <1>7, <1>8, <1>9, <1>10, <1>11

\* The loop executes only what is not in the row, and then no other run executes.
LEMMA ExecuteStep ==
  ASSUME CommandInv, NEW r \in RunIds, Execute(r)
  PROVE  CommandInv'
<1>1. CommandTypeOK
  BY DEF CommandInv, CommandCore
<1>2. /\ run' \in [RunIds -> RunRows]
      /\ run'[r].pc = "exec" /\ run'[r].at = slot /\ run'[r].byLoop = run[r].byLoop
      /\ \A q \in RunIds \ {r} : run'[q] = run[q]
  BY <1>1, CommandTypes DEF Execute, RunRows, RunPcs
<1>3. runLock = r /\ \A q \in RunIds \ {r} : run[q].pc = "none"
  BY <1>1, CommandTypes DEF CommandInv, CommandCore, OneInstance, Execute
<1>4. \A s \in Slots : IF s = slot
        /\ run[r].byLoop THEN ranIn'[s] = ranIn[s] + 1 ELSE ranIn'[s] = ranIn[s]
  BY <1>1, CommandTypes DEF Execute, CommandTypeOK
<1>5. CommandTypeOK'
  <2>1. \A s \in Slots : ranIn'[s] \in 0..MaxRuns
    BY <1>1, <1>4, CommandTypes, CommandAssumption
       DEF CommandInv, Counted, Execute, CommandTypeOK
  <2>2. ranIn' \in [Slots -> 0..MaxRuns]
    BY <1>1, <2>1 DEF Execute, CommandTypeOK
  <2> QED
    BY <1>1, <1>2, <2>2 DEF CommandTypeOK, RunRows, Execute
<1> USE <1>1, CommandTypes, <1>2, <1>3, <1>4 DEF CommandInv, CommandCore, Execute
<1>6. OneInstance'
  BY DEF OneInstance
<1>7. OncePerSlot'
  <2> SUFFICES ASSUME ~excused, run[r].byLoop PROVE ranIn[slot] = 0
    BY DEF OncePerSlot
  <2>1. lastRun < slot
    BY DEF DueStill
  <2> QED
    BY <2>1 DEF Recorded, Executing
<1>8. TimesInOrder'
  BY DEF TimesInOrder, Executing
<1>9. DueStill' /\ Counted' /\ Waited'
  BY DEF DueStill, Counted, Waited, CommandTypeOK
<1>10. Recorded'
  <2> SUFFICES ASSUME ~excused, NEW s \in Slots, ranIn'[s] > 0
               PROVE  s <= lastRun \/ s <= slot
    BY DEF Recorded, Executing
  <2>1. ranIn[s] > 0 \/ s = slot
    OBVIOUS
  <2> QED
    BY <2>1 DEF Recorded, Executing
<1> QED
  BY <1>5, <1>6, <1>7, <1>8, <1>9, <1>10

\* Every step of the scheduler and of the runs keeps the invariant.
LEMMA CommandStepInv == CommandInv /\ [CommandNext]_commandVars => CommandInv'
<1> SUFFICES ASSUME CommandInv, [CommandNext]_commandVars PROVE CommandInv'
  OBVIOUS
<1>0. CommandTypeOK
  BY DEF CommandInv, CommandCore
<1>1. CASE ListDue
  <2>1. loop'.pc = "due" /\ loop'.saw = lastRun
          /\ loop' \in [pc : {"sleep", "due"}, saw : Slots]
    BY <1>0, <1>1 DEF ListDue, CommandTypeOK
  <2> QED
    BY <1>0, <1>1, <2>1 DEF ListDue, CommandInv, CommandCore, CommandTypeOK, OneInstance,
       OncePerSlot,
      TimesInOrder, DueStill, Recorded, Counted, Executing, Waited
<1>2. CASE LockDue
  <2>1. excused' = (excused \/ loop.saw # lastRun) /\ excused \in BOOLEAN
    BY <1>0, <1>2 DEF LockDue, CommandTypeOK
  <2>2. loop.saw < slot
    BY <1>2 DEF LockDue, CommandInv, TimesInOrder
  <2> QED
    BY <1>2, <2>1, <2>2, StartStep DEF LockDue
<1>3. CASE SkipDue
  <2>1. loop'.pc = "sleep" /\ loop' \in [pc : {"sleep", "due"}, saw : Slots]
    BY <1>3, CommandAssumption DEF SkipDue, Asleep, Slots
  <2> QED
    BY <1>0, <1>3, <2>1 DEF SkipDue, CommandInv, CommandCore, CommandTypeOK, OneInstance,
       OncePerSlot,
      TimesInOrder, DueStill, Recorded, Counted, Executing, Waited
<1>4. CASE RunNow
  <2>1. excused \in BOOLEAN
    BY <1>0 DEF CommandTypeOK
  <2> QED
    BY <1>4, <2>1, StartStep DEF RunNow
<1>5. ASSUME NEW r \in RunIds, CannotExecute(r) \/ RecordRun(r) \/ RecordFails(r)
      PROVE  CommandInv'
  <2>1. excused \in BOOLEAN
    BY <1>0 DEF CommandTypeOK
  <2>a. process[r] # "runs"
    BY <1>5 DEF CannotExecute, RecordRun, RecordFails, CommandInv, Waited
  <2>2. CASE CannotExecute(r)
    BY <2>1, <2>2, <2>a, EndStep DEF CannotExecute
  <2>3. CASE RecordRun(r)
    BY <2>1, <2>3, <2>a, EndStep DEF RecordRun
  <2>4. CASE RecordFails(r)
    BY <2>4, <2>a, EndStep DEF RecordFails
  <2> QED
    BY <1>5, <2>2, <2>3, <2>4
<1>6. ASSUME NEW r \in RunIds, CommandEnds(r) \/ LeaveProcess(r) PROVE CommandInv'
  <2>0. PICK v \in {"none", "left"} :
          /\ run[r].pc = "exec" /\ run' = [run EXCEPT ![r].pc = "record"]
          /\ process' = [process EXCEPT ![r] = v]
          /\ UNCHANGED <<slot, inTime, command, lastRun, deployed, loop, runLock, started,
                         ranIn, kills, excused>>
    BY <1>6 DEF CommandEnds, LeaveProcess
  <2>1. /\ run' \in [RunIds -> RunRows]
        /\ run'[r].pc = "record" /\ run'[r].at = run[r].at
        /\ \A q \in RunIds \ {r} : run'[q] = run[q]
    BY <1>0, <2>0, CommandTypes DEF RunRows, RunPcs
  <2>2. CommandTypeOK'
    BY <1>0, <2>0, <2>1 DEF CommandTypeOK, RunRows
  <2>3. OneInstance' /\ OncePerSlot' /\ TimesInOrder' /\ DueStill' /\ Counted'
    BY <2>0, <2>1 DEF CommandInv, CommandCore, OneInstance, OncePerSlot,
      TimesInOrder, DueStill, Counted, Executing
  <2>a. Waited'
    BY <1>0, <2>0, <2>1 DEF CommandTypeOK, CommandInv, Waited
  <2>4. Recorded'
    <3>1. \A q \in RunIds : (Executing(q) => Executing(q)') /\ run'[q].at = run[q].at
      BY <2>0, <2>1 DEF Executing
    <3> QED
      BY <2>0, <3>1 DEF CommandInv, Recorded
  <2> QED
    BY <2>2, <2>3, <2>4, <2>a DEF CommandInv, CommandCore
<1>7. CASE SlotPasses
  <2>1. slot' \in Slots /\ slot' > slot
    BY <1>0, <1>7, CommandTypes, CommandAssumption DEF SlotPasses, Slots
  <2>2. CommandTypeOK'
    BY <1>0, <1>7, <2>1 DEF SlotPasses, CommandTypeOK
  <2>3. TimesInOrder' /\ DueStill'
    BY <1>0, <1>7, <2>1, CommandTypes
       DEF SlotPasses, CommandInv, TimesInOrder, DueStill, Executing, Slots
  <2> QED
    BY <1>0, <1>7, <2>2, <2>3 DEF SlotPasses, CommandInv, CommandCore, OneInstance,
       OncePerSlot, Recorded, Counted, Executing, Waited
<1>8. CASE UpdateCommand \/ DeleteCommand \/ AppChanges \/ TimeIsUp
  BY <1>0, <1>8 DEF UpdateCommand, DeleteCommand, AppChanges, TimeIsUp, CommandInv, CommandCore,
     CommandTypeOK, OneInstance, OncePerSlot,
      TimesInOrder, DueStill, Recorded, Counted, Executing, Waited
<1>9. CASE Killed
  <2>1. /\ run' \in [RunIds -> RunRows] /\ \A q \in RunIds : run'[q].pc = "none"
    BY <1>9, CommandAssumption DEF Killed, NotRun, RunRows, RunPcs, Slots
  <2>2. loop'.pc = "sleep" /\ loop' \in [pc : {"sleep", "due"}, saw : Slots]
    BY <1>9, CommandAssumption DEF Killed, Asleep, Slots
  <2>3. excused' \in BOOLEAN /\ (~excused' => ~excused /\ \A r \in RunIds : ~Executing(r))
    BY <1>0, <1>9 DEF Killed, Executing, CommandTypeOK
  <2>4. kills' \in 0..MaxKills
    BY <1>0, <1>9, CommandAssumption, CommandTypes DEF Killed
  <2>5. CommandTypeOK'
    BY <1>0, <1>9, <2>1, <2>2, <2>3, <2>4 DEF Killed, CommandTypeOK, RunRows
  <2> USE <1>0, <1>9, <2>1, <2>2, <2>3, CommandTypes DEF Killed, CommandInv, CommandCore
  <2>6. OneInstance' /\ OncePerSlot' /\ TimesInOrder' /\ DueStill' /\ Counted'
    BY DEF OneInstance, OncePerSlot, TimesInOrder, DueStill, Counted, Executing
  <2>7. Recorded'
    BY DEF Recorded
  <2>8. Waited'
    BY DEF Waited, CommandTypeOK
  <2> QED
    BY <2>5, <2>6, <2>7, <2>8
<1>11. ASSUME NEW r \in RunIds, ProcessEnds(r) PROVE CommandInv'
  <2>1. /\ process' \in [RunIds -> {"none", "runs", "left"}]
        /\ \A q \in RunIds : process'[q] = "runs" => process[q] = "runs"
    BY <1>0, <1>11 DEF ProcessEnds, CommandTypeOK
  <2> QED
    BY <1>0, <1>11, <2>1 DEF ProcessEnds, CommandInv, CommandCore, CommandTypeOK, OneInstance,
       OncePerSlot, TimesInOrder, DueStill, Recorded, Counted, Executing, Waited
<1>10. CASE UNCHANGED commandVars
  BY <1>10 DEF commandVars, CommandInv, CommandCore, CommandTypeOK, OneInstance, OncePerSlot,
      TimesInOrder, DueStill, Recorded, Counted, Executing, Waited
<1> QED
  BY <1>1, <1>2, <1>3, <1>4, <1>5, <1>6, <1>7, <1>8, <1>9, <1>10, <1>11,
    ExecuteStep
  DEF CommandNext, LoopRound, RunStep

\* For any number of slots, runs and crashes: one run of a command is on its way at a time
\* and has the lock, a process beside its own was given up by an earlier run, and the loop
\* executes the command at most once in a slot, unless a run was not recorded or ended after
\* the loop had read the row (scheduler.rs).
THEOREM CommandNeverTwice == CommandSpec => []NeverTwice
<1>1. CommandInit => CommandInv
  BY CommandInitInv
<1>2. CommandInv /\ [CommandNext]_commandVars => CommandInv'
  BY CommandStepInv
<1>3. CommandInv => NeverTwice
  BY DEF CommandInv, CommandCore, NeverTwice, OneInstance, OneProcess, Waited
<1> QED
  BY <1>1, <1>2, <1>3, PTL DEF CommandSpec

-----------------------------------------------------------------------------
(* ComposeDeploy.  `up` replaces the containers of the running deployment in *)
(* place, so that it is whole only between jobs.  PipeOK says which deployment a *)
(* job would go back to, JobReached how far it is on its way and back, JobFiles *)
(* and UnitKinds what is on the targets; RunsPresent and RunsRouted are the *)
(* promises at every step where nothing is replaced (Steady).              *)

\* Where a job is before and after the step that makes it the running deployment.
BeforeFinish == {"image", "prepare", "up", "wait", "undo", "routes", "tidy", "finish"}
AfterFinish  == {"publish", "remove", "retain"}

\* The job and the running deployment: the one to return to, if it was found, is the
\* running one until the job has finished, and the job is the newest deployment.
PipeOK ==
  /\ pipe.pc = "idle" => ~pipe.started
  /\ pipe.pc # "idle" => pipe.d = deployments /\ pipe.d # None
  /\ pipe.pc \in BeforeFinish =>
       /\ runs # pipe.d
       /\ pipe.prev = None \/ (pipe.prev = runs /\ IsCompose(runs))
  /\ pipe.pc \in AfterFinish => runs = pipe.d
  /\ pipe.pc = "image" => source[pipe.d] = "image"
  /\ pipe.pc \in {"prepare", "up", "wait", "undo", "routes", "tidy"} =>
       source[pipe.d] # "image"
  /\ pipe.pc \in {"image", "finish"} /\ source[pipe.d] = "image" => ~pipe.started
  /\ pipe.pc = "wait" => pipe.started
  /\ pipe.pc \in {"prepare", "up", "wait", "remove", "retain"} =>
       pipe.i \in 1..Len(targets[pipe.d])
  /\ pipe.pc = "undo" => pipe.i \in 1..Len(targets[pipe.prev])

\* A job that may still finish has its checkout.
JobFiles ==
  pipe.pc \in {"up", "wait", "finish"} \union AfterFinish /\ source[pipe.d] # "image" =>
    pipe.d \in checkouts

\* A project runs Compose deployments.
UnitKinds == \A p \in Places : unit[p] # None => source[unit[p]] # "image"

\* The targets that a job has reached, on its way and back.
JobReached ==
  /\ pipe.pc \in {"prepare", "up"} => \A j \in 1..(pipe.i - 1) :
       unit[targets[pipe.d][j]] = pipe.d
  /\ pipe.pc = "wait" => \A j \in 1..pipe.i : unit[targets[pipe.d][j]] = pipe.d
  /\ pipe.pc = "finish" => \A p \in TargetSet(pipe.d) : Present(pipe.d, p)
  /\ pipe.pc = "undo" /\ ~touched =>
       \A j \in 1..(pipe.i - 1) : unit[targets[pipe.prev][j]] = pipe.prev

\* No target of the running deployment is replaced now.
Steady == pipe.pc # "undo" /\ (~pipe.started \/ pipe.pc \in {"routes",
  "tidy"} \union AfterFinish)

\* The containers of the running deployment are there unless a job replaces them.
RunsPresent ==
  ~touched /\ runs # None /\ (source[runs] = "image" \/ Steady) =>
    \A p \in TargetSet(runs) : Present(runs, p)

\* And its routes lead to them.
RunsRouted ==
  ~touched /\ ~unread /\ runs # None /\ pipe.pc # "publish"
    /\ (source[runs] = "image" \/ (Steady /\ pipe.pc # "routes")) =>
    \A p \in TargetSet(runs) : routed[p] = runs

\* The inductive invariant.
ComposeInv ==
  /\ ComposeTypeOK /\ PipeOK /\ CheckoutStays /\ JobFiles /\ UnitKinds /\ JobReached
  /\ RunsPresent /\ RunsRouted

-----------------------------------------------------------------------------
\* The rows of the job, with deployments up to m.
PipeRows(m) == [pc : PipePcs, d : 0..m, i : Nat \ {0}, started : BOOLEAN, prev : 0..m,
                drop : BOOLEAN]

\* The type invariant, with the rows of the job as a set.
LEMMA ComposeTypes ==
  ComposeTypeOK <=>
    /\ deployments \in 0..MaxDeployments /\ source \in [Deployments -> Sources]
    /\ targets \in [Deployments -> TargetLists] /\ runs \in 0..deployments
    /\ unit \in [Places -> 0..deployments] /\ images \in [Places -> SUBSET Deployments]
    /\ checkouts \subseteq 1..deployments /\ routed \in [Places -> 0..deployments]
    /\ pipe \in PipeRows(deployments)
    /\ (pipe.pc = "undo") => (pipe.prev # None)
    /\ breaks \in 0..MaxBreaks /\ touched \in BOOLEAN /\ unread \in BOOLEAN
BY DEF ComposeTypeOK, PipeRows

\* The fields of a job.
LEMMA PipeFields ==
  ASSUME NEW m \in Nat, NEW v \in PipeRows(m)
  PROVE  /\ v.pc \in PipePcs /\ v.d \in 0..m /\ v.i \in Nat \ {0} /\ v.started \in BOOLEAN
         /\ v.prev \in 0..m /\ v.drop \in BOOLEAN
BY DEF PipeRows

\* A job that goes back is a job.
LEMMA UndoRow ==
  ASSUME NEW m \in Nat, NEW v \in PipeRows(m), NEW b \in BOOLEAN
  PROVE  [v EXCEPT !.pc = "undo", !.i = 1, !.drop = b] \in PipeRows(m)
<1> DEFINE k == 1
<1>1. "undo" \in PipePcs /\ k \in Nat \ {0}
  BY DEF PipePcs
<1> HIDE DEF k
<1>2. [v EXCEPT !.pc = "undo", !.i = k, !.drop = b] \in PipeRows(m)
  BY <1>1 DEF PipeRows
<1> QED
  BY <1>2 DEF k

\* No job.
LEMMA NoPipeFields ==
  /\ NoPipe.pc = "idle" /\ NoPipe.d = None /\ NoPipe.i = 1 /\ NoPipe.started = FALSE
  /\ NoPipe.prev = None /\ NoPipe.drop = FALSE
  /\ \A m \in Nat : NoPipe \in PipeRows(m)
BY DEF NoPipe, PipeRows, PipePcs, None

\* The targets of a deployment are places, and there is one.
LEMMA TargetFacts ==
  ASSUME targets \in [Deployments -> TargetLists], NEW n \in Deployments
  PROVE  /\ Len(targets[n]) \in Nat \ {0}
         /\ \A j \in 1..Len(targets[n]) : targets[n][j] \in TargetSet(n)
         /\ \A p \in TargetSet(n) : \E j \in 1..Len(targets[n]) : p = targets[n][j]
         /\ TargetSet(n) \subseteq Places
<1>1. targets[n] \in Seq(Places) /\ targets[n] # <<>>
  BY ComposeAssumption
<1>2. Len(targets[n]) \in Nat \ {0} /\ DOMAIN targets[n] = 1..Len(targets[n])
  BY <1>1, EmptySeq
<1> QED
  BY <1>1, <1>2 DEF TargetSet

\* The running deployment and the job are deployments.
LEMMA ComposeFields ==
  ASSUME ComposeInv
  PROVE  /\ deployments \in Nat /\ 0..deployments \subseteq 0..MaxDeployments
         /\ pipe \in PipeRows(deployments)
         /\ pipe.pc \in PipePcs /\ pipe.d \in 0..deployments /\ pipe.i \in Nat \ {0}
         /\ pipe.started \in BOOLEAN /\ pipe.prev \in 0..deployments
         /\ pipe.drop \in BOOLEAN
         /\ runs # None => runs \in Deployments
         /\ pipe.pc # "idle" => pipe.d \in Deployments
         /\ pipe.prev # None => pipe.prev \in Deployments
         /\ \A n \in 1..deployments : n \in Deployments
<1>1. ComposeTypeOK /\ PipeOK
  BY DEF ComposeInv
<1>2. deployments \in 0..MaxDeployments /\ runs \in 0..deployments
      /\ pipe \in PipeRows(deployments)
  BY <1>1, ComposeTypes
<1>3. deployments \in Nat /\ 0..deployments \subseteq 0..MaxDeployments
      /\ \A n \in 0..deployments : n # 0 => n \in Deployments
  BY <1>2, ComposeAssumption DEF Deployments
<1>4. /\ pipe.pc \in PipePcs /\ pipe.d \in 0..deployments /\ pipe.i \in Nat \ {0}
      /\ pipe.started \in BOOLEAN /\ pipe.prev \in 0..deployments
      /\ pipe.drop \in BOOLEAN
  BY <1>2, <1>3, PipeFields
<1> QED
  BY <1>1, <1>2, <1>3, <1>4 DEF PipeOK, None

\* A publish that reads a running deployment which is there routes to it.
LEMMA RoutesLead ==
  ASSUME ComposeInv, NEW p \in TargetSet(runs), runs # None, Present(runs, p)
  PROVE  Routes[p] = runs
<1>1. p \in Places
  BY ComposeFields, TargetFacts DEF ComposeInv, ComposeTypeOK
<1> QED
  BY <1>1 DEF Routes

\* A publish routes to deployments.
LEMMA RoutesType ==
  ASSUME ComposeInv
  PROVE  Routes \in [Places -> 0..deployments]
<1>1. None \in 0..deployments /\ runs \in 0..deployments
  BY ComposeFields DEF None, ComposeInv, ComposeTypeOK
<1> QED
  BY <1>1 DEF Routes

\* No deployment at the start.
LEMMA ComposeInitial ==
  ASSUME ComposeInit
  PROVE  ComposeInv
<1>1. pipe = NoPipe /\ pipe.pc = "idle" /\ ~pipe.started /\ runs = None /\ deployments = 0
      /\ source = [n \in Deployments |-> "image"]
      /\ targets = [n \in Deployments |-> CHOOSE ts \in TargetLists : TRUE]
      /\ unit = [p \in Places |-> None] /\ images = [p \in Places |-> {}]
      /\ checkouts = {} /\ routed = [p \in Places |-> None]
      /\ breaks = 0 /\ touched = FALSE /\ unread = FALSE
  BY NoPipeFields DEF ComposeInit
<1>2. ComposeTypeOK
  <2>1. (CHOOSE ts \in TargetLists : TRUE) \in TargetLists
    BY ComposeAssumption
  <2>2. targets \in [Deployments -> TargetLists]
    BY <1>1, <2>1
  <2>3. pipe \in PipeRows(0)
    BY <1>1, NoPipeFields
  <2>4. unit \in [Places -> 0..deployments] /\ routed \in [Places -> 0..deployments]
        /\ images \in [Places -> SUBSET Deployments] /\ source \in [Deployments -> Sources]
    BY <1>1 DEF None, Sources
  <2>5. touched \in BOOLEAN /\ unread \in BOOLEAN
    BY <1>1, Zenon
  <2> QED
    BY <1>1, <2>2, <2>3, <2>4, <2>5, ComposeTypes, ComposeAssumption DEF None
<1>3. UnitKinds
  BY <1>1 DEF UnitKinds
<1> QED
  BY <1>1, <1>2, <1>3 DEF ComposeInv, PipeOK, CheckoutStays, JobFiles, JobReached,
       RunsPresent, RunsRouted, IsCompose, BeforeFinish, AfterFinish

\* The invariant is the property of the run, and more.
LEMMA ComposeInvImplies ==
  ASSUME ComposeInv
  PROVE  ComposeKept
<1>1. ComposeServes /\ RoutesReach
  BY DEF ComposeInv, PipeOK, RunsPresent, RunsRouted, Steady, ComposeServes, RoutesReach,
         AfterFinish
<1> QED
  BY <1>1 DEF ComposeInv, ComposeKept

-----------------------------------------------------------------------------
\* A job begins.
LEMMA BeginStep ==
  ASSUME ComposeInv, BeginJob
  PROVE  ComposeInv'
<1> DEFINE m == deployments + 1
<1>0. ComposeTypeOK /\ pipe.pc = "idle" /\ deployments < MaxDeployments /\ deployments' = m
      /\ UNCHANGED <<runs, unit, images, checkouts, routed, breaks, touched, unread>>
  BY DEF ComposeInv, BeginJob
<1>1. m \in Deployments /\ m # None /\ m \in Nat /\ deployments \in Nat /\ deployments # m
      /\ 0..deployments \subseteq 0..m /\ 1..deployments \subseteq 1..m
      /\ \A n \in 0..deployments : n # m
  BY <1>0, ComposeFields, ComposeAssumption DEF Deployments, None
<1>2. PICK s \in Sources, ts \in TargetLists, prev \in {runs, None} :
        /\ source' = [source EXCEPT ![m] = s] /\ targets' = [targets EXCEPT ![m] = ts]
        /\ pipe' = [NoPipe EXCEPT !.pc = IF s = "image" THEN "image" ELSE "prepare", !.d = m,
                                  !.prev = IF IsCompose(prev) THEN prev ELSE None]
  BY DEF BeginJob
<1>3. /\ source' \in [Deployments -> Sources] /\ targets' \in [Deployments -> TargetLists]
      /\ source'[m] = s /\ targets'[m] = ts
      /\ \A n \in Deployments \ {m} : source'[n] = source[n] /\ targets'[n] = targets[n]
  BY <1>0, <1>1, <1>2 DEF ComposeTypeOK
<1> DEFINE pc == IF s = "image" THEN "image" ELSE "prepare"
           b == IF IsCompose(prev) THEN prev ELSE None
<1>4. b \in 0..m /\ pc \in PipePcs /\ m \in 0..m
  BY <1>0, <1>1 DEF ComposeTypeOK, PipePcs, None
<1>5. /\ pipe' \in PipeRows(m) /\ pipe'.pc = pc /\ pipe'.d = m /\ pipe'.i = 1
      /\ pipe'.started = FALSE /\ pipe'.prev = b
  <2> HIDE DEF pc, b, m
  <2>1. pipe' = [NoPipe EXCEPT !.pc = pc, !.d = m, !.prev = b]
    BY <1>2 DEF pc, b
  <2> QED
    BY <1>1, <1>4, <2>1, NoPipeFields DEF PipeRows
<1>6. runs \in 0..deployments /\ (runs # None => runs \in Deployments \ {m})
  BY <1>0, <1>1, ComposeFields DEF ComposeTypeOK
<1>7. TargetSet(runs)' = TargetSet(runs) \/ runs = None
  BY <1>0, <1>3, <1>6 DEF TargetSet
<1>8. IsCompose(runs)' = IsCompose(runs)
  BY <1>0, <1>3, <1>6 DEF IsCompose
<1> HIDE DEF m
<1>9. \A p \in Places : (Present(runs, p) <=> Present(runs, p)') \/ runs = None
  BY <1>0, <1>3, <1>6 DEF Present, IsCompose
<1>10. ComposeTypeOK'
  <2>1. unit' \in [Places -> 0..m] /\ routed' \in [Places -> 0..m] /\ runs' \in 0..m
        /\ checkouts' \subseteq 1..m
    BY <1>0, <1>1 DEF ComposeTypeOK
  <2>2. m \in 0..MaxDeployments
    BY <1>1 DEF Deployments
  <2>3. images' \in [Places -> SUBSET Deployments] /\ breaks' \in 0..MaxBreaks
        /\ touched' \in BOOLEAN /\ unread' \in BOOLEAN
    BY <1>0 DEF ComposeTypeOK
  <2> QED
    BY <1>0, <1>3, <1>5, <2>1, <2>2, <2>3 DEF ComposeTypeOK, PipeRows
<1>11. PipeOK'
  <2>1. runs' # pipe'.d /\ (pipe'.prev = None \/ (pipe'.prev = runs' /\ IsCompose(runs)'))
    <3>1. b = None \/ (b = runs /\ IsCompose(runs))
      BY DEF IsCompose
    <3> QED
      BY <1>0, <1>1, <1>5, <1>6, <1>8, <3>1
  <2>2. source'[pipe'.d] = s /\ targets'[pipe'.d] = ts /\ pipe'.d = deployments'
    BY <1>0, <1>3, <1>5
  <2>3. pipe'.i \in 1..Len(targets'[pipe'.d])
    <3>1. Len(ts) \in Nat \ {0}
      BY ComposeAssumption, EmptySeq
    <3> QED
      BY <1>5, <2>2, <3>1
  <2> QED
    BY <1>1, <1>5, <2>1, <2>2, <2>3 DEF PipeOK, BeforeFinish, AfterFinish
<1>12. CheckoutStays' /\ JobFiles'
  BY <1>0, <1>5, <1>8 DEF ComposeInv, CheckoutStays, JobFiles, AfterFinish
<1>13. UnitKinds'
  <2>1. \A p \in Places : unit[p] # None => unit[p] \in Deployments \ {m}
    BY <1>0, <1>1, ComposeFields DEF ComposeTypeOK, None
  <2> QED
    BY <1>0, <1>3, <2>1 DEF ComposeInv, UnitKinds
<1>14. JobReached'
  BY <1>5 DEF JobReached
<1>15. RunsPresent' /\ RunsRouted'
  <2>1. Steady /\ pipe.pc # "publish" /\ pipe.pc # "routes"
    BY <1>0 DEF ComposeInv, PipeOK, Steady
  <2>2. TargetSet(runs) \subseteq Places \/ runs = None
    BY <1>0, <1>6, TargetFacts DEF ComposeTypeOK
  <2> QED
    BY <1>0, <1>7, <1>9, <2>1, <2>2 DEF ComposeInv, RunsPresent, RunsRouted
<1> QED
  BY <1>10, <1>11, <1>12, <1>13, <1>14, <1>15 DEF ComposeInv

\* What stays when the deployments do.
LEMMA SameDeployments ==
  ASSUME ComposeInv, UNCHANGED <<deployments, source, targets>>
  PROVE  /\ \A n : TargetSet(n)' = TargetSet(n) /\ IsCompose(n)' = IsCompose(n)
         /\ UNCHANGED <<unit, images>> => \A n, p : Present(n, p)' = Present(n, p)
BY DEF TargetSet, IsCompose, Present

\* The checkout of a job comes, or its preparation fails before a target was started, or
\* it is removed at the end.
LEMMA PrepareSteps ==
  ASSUME ComposeInv, Prepare \/ Tidy
  PROVE  ComposeInv'
<1>0. ComposeTypeOK /\ PipeOK /\ pipe.pc \in {"prepare", "tidy"}
      /\ UNCHANGED <<deployments, source, targets, runs, unit, images, routed, breaks,
                     touched, unread>>
  BY DEF ComposeInv, Prepare, Tidy
<1>1. pipe \in PipeRows(deployments) /\ deployments \in Nat /\ pipe.d \in 1..deployments
  BY <1>0, ComposeFields DEF PipeOK, None
<1>2. \A n : TargetSet(n)' = TargetSet(n) /\ IsCompose(n)' = IsCompose(n)
  BY <1>0, SameDeployments
<1>2a. \A n, p : Present(n, p)' = Present(n, p)
  BY <1>0, SameDeployments
<1>3. CASE Prepare
  <2>1. pipe.pc = "prepare" /\ checkouts' = checkouts \union {pipe.d}
        /\ pipe' = [pipe EXCEPT !.pc = "up"]
    BY <1>3 DEF Prepare, Continue
  <2>2. /\ pipe' \in PipeRows(deployments) /\ pipe'.pc = "up" /\ pipe'.d = pipe.d
        /\ pipe'.i = pipe.i /\ pipe'.started = pipe.started /\ pipe'.prev = pipe.prev
    BY <1>1, <2>1 DEF PipeRows, PipePcs
  <2>3. ComposeTypeOK'
    BY <1>0, <1>1, <2>1, <2>2, ComposeTypes DEF ComposeTypeOK, PipeRows
  <2>4. PipeOK'
    BY <1>0, <1>2, <2>1, <2>2 DEF PipeOK, BeforeFinish, AfterFinish
  <2>5. CheckoutStays' /\ JobFiles' /\ UnitKinds'
    BY <1>0, <1>2, <2>1, <2>2 DEF ComposeInv, CheckoutStays, JobFiles, UnitKinds
  <2>6. JobReached'
    BY <1>0, <2>1, <2>2 DEF ComposeInv, JobReached
  <2>7. Steady' <=> Steady
    BY <2>1, <2>2 DEF Steady, AfterFinish
  <2>8. RunsPresent' /\ RunsRouted'
    BY <1>0, <1>2, <1>2a, <2>1, <2>2, <2>7 DEF ComposeInv, RunsPresent, RunsRouted
  <2> QED
    BY <2>3, <2>4, <2>5, <2>6, <2>8 DEF ComposeInv
<1>4. CASE Tidy
  <2>1. pipe.pc = "tidy" /\ checkouts' = checkouts \ {pipe.d} /\ pipe' = NoPipe
    BY <1>4 DEF Tidy
  <2>2. pipe' \in PipeRows(deployments) /\ pipe'.pc = "idle" /\ ~pipe'.started
    BY <1>1, <2>1, NoPipeFields
  <2>3. ComposeTypeOK'
    BY <1>0, <1>1, <2>1, <2>2 DEF ComposeTypeOK, PipeRows
  <2>4. PipeOK'
    BY <2>2 DEF PipeOK, BeforeFinish, AfterFinish
  <2>5. CheckoutStays' /\ JobFiles' /\ UnitKinds'
    <3>1. runs # pipe.d
      BY <1>0, <2>1 DEF PipeOK, BeforeFinish
    <3> QED
      BY <1>0, <1>2, <2>1, <2>2, <3>1
         DEF ComposeInv, CheckoutStays, JobFiles, UnitKinds, AfterFinish
  <2>6. JobReached'
    BY <2>2 DEF JobReached
  <2>7. Steady
    BY <2>1 DEF Steady
  <2>8. RunsPresent' /\ RunsRouted'
    BY <1>0, <1>2, <1>2a, <2>1, <2>2, <2>7 DEF ComposeInv, RunsPresent, RunsRouted
  <2> QED
    BY <2>3, <2>4, <2>5, <2>6, <2>8 DEF ComposeInv
<1> QED
  BY <1>3, <1>4

\* A job fails: back to the previous deployment if a target was started.
LEMMA BackStep ==
  ASSUME ComposeInv, pipe.pc \in {"prepare", "up", "wait"}, NEW tidy \in BOOLEAN, GoBack(tidy),
         UNCHANGED <<deployments, source, targets, runs, images, breaks, unread>>,
         checkouts \ {pipe.d} \subseteq checkouts', checkouts' \subseteq checkouts,
         unit' \in [Places -> 0..deployments], routed' \in [Places -> 0..deployments],
         UnitKinds', touched' \in BOOLEAN, ~touched' => ~touched /\ ~Lost,
         ~touched' /\ ~pipe.started => UNCHANGED <<unit, routed>>,
         \A p \in Places : routed[p] = runs /\ runs # None /\ source[runs] = "image" =>
           routed'[p] = runs
  PROVE  ComposeInv'
<1>0. ComposeTypeOK /\ PipeOK /\ runs # pipe.d
      /\ (pipe.prev = None \/ (pipe.prev = runs /\ IsCompose(runs)))
  BY DEF ComposeInv, PipeOK, BeforeFinish
<1>1. pipe \in PipeRows(deployments) /\ deployments \in Nat
      /\ (pipe.prev # None => pipe.prev \in Deployments)
      /\ (runs # None => runs \in Deployments)
  BY ComposeFields
<1>2. \A n : TargetSet(n)' = TargetSet(n) /\ IsCompose(n)' = IsCompose(n)
  BY SameDeployments
<1>3. \/ /\ pipe.started /\ pipe.prev # None /\ pipe' \in PipeRows(deployments)
         /\ pipe'.pc = "undo" /\ pipe'.i = 1 /\ pipe'.d = pipe.d /\ pipe'.prev = pipe.prev
         /\ pipe'.started = pipe.started
      \/ /\ ~pipe.started \/ pipe.prev = None
         /\ pipe' \in PipeRows(deployments) /\ pipe'.pc = "tidy"
         /\ pipe'.d = pipe.d /\ pipe'.prev = pipe.prev /\ pipe'.started = pipe.started
      \/ /\ ~pipe.started \/ pipe.prev = None
         /\ pipe' \in PipeRows(deployments) /\ pipe'.pc = "idle" /\ ~pipe'.started
         /\ pipe'.prev = None
  <2>1. CASE pipe.started /\ pipe.prev # None
    <3>1. pipe' = [pipe EXCEPT !.pc = "undo", !.i = 1, !.drop = tidy]
      BY <2>1 DEF GoBack
    <3>2. pipe' \in PipeRows(deployments)
      BY <1>1, <3>1, UndoRow
    <3>3. /\ pipe'.pc = "undo" /\ pipe'.i = 1 /\ pipe'.d = pipe.d /\ pipe'.prev = pipe.prev
          /\ pipe'.started = pipe.started
      BY <1>1, <3>1 DEF PipeRows
    <3> QED
      BY <2>1, <3>2, <3>3
  <2>2. CASE ~(pipe.started /\ pipe.prev # None) /\ tidy
    <3>1. pipe' = [pipe EXCEPT !.pc = "tidy"]
      BY <2>2 DEF GoBack
    <3> QED
      BY <1>1, <2>2, <3>1 DEF PipeRows, PipePcs
  <2>3. CASE ~(pipe.started /\ pipe.prev # None) /\ ~tidy
    <3>1. pipe' = NoPipe
      BY <2>3 DEF GoBack
    <3> QED
      BY <1>1, <2>3, <3>1, NoPipeFields
  <2> QED
    BY <2>1, <2>2, <2>3
<1>4. ComposeTypeOK'
  BY <1>0, <1>3 DEF ComposeTypeOK, PipeRows
<1>5. PipeOK'
  <2>1. pipe.prev # None => Len(targets[pipe.prev]) \in Nat \ {0}
    BY <1>0, <1>1, TargetFacts DEF ComposeTypeOK
  <2>2. pipe'.pc = "undo" => pipe'.i \in 1..Len(targets'[pipe'.prev])
    BY <1>3, <2>1
  <2>3. pipe.pc \in BeforeFinish /\ source[pipe.d] # "image" /\ pipe.d = deployments
        /\ pipe.d # None
    BY <1>0 DEF PipeOK, BeforeFinish
  <2> QED
    BY <1>0, <1>2, <1>3, <2>2, <2>3 DEF PipeOK, BeforeFinish, AfterFinish
<1>6. CheckoutStays' /\ JobFiles'
  BY <1>0, <1>2, <1>3 DEF ComposeInv, CheckoutStays, JobFiles, AfterFinish
<1>7. JobReached'
  BY <1>3 DEF JobReached
<1>8. RunsPresent' /\ RunsRouted'
  <2> SUFFICES ASSUME ~touched', runs # None
               PROVE  /\ (source[runs] = "image" \/ Steady') =>
                           \A p \in TargetSet(runs) : Present(runs, p)'
                      /\ (source[runs] = "image" \/ Steady') /\ ~unread =>
                           \A p \in TargetSet(runs) : routed'[p] = runs
    BY <1>2 DEF RunsPresent, RunsRouted
  <2>1. CASE source[runs] = "image"
    <3>1. \A p : Present(runs, p)' = Present(runs, p)
      BY <1>2, <2>1 DEF Present, IsCompose
    <3>2. TargetSet(runs) \subseteq Places
      BY <1>0, <1>1, TargetFacts DEF ComposeTypeOK
    <3>3. \A p \in TargetSet(runs) : Present(runs, p) /\ (~unread => routed[p] = runs)
      BY <2>1 DEF ComposeInv, RunsPresent, RunsRouted
    <3> QED
      BY <2>1, <3>1, <3>2, <3>3
  <2>2. CASE source[runs] # "image" /\ ~pipe.started
    <3>1. \A p : Present(runs, p)' = Present(runs, p)
      BY <2>2, SameDeployments
    <3>2. Steady /\ pipe.pc # "publish" /\ pipe.pc # "routes"
      BY <2>2 DEF Steady
    <3> QED
      BY <2>2, <3>1, <3>2 DEF ComposeInv, RunsPresent, RunsRouted
  <2>3. CASE source[runs] # "image" /\ pipe.started
    <3>1. pipe.prev # None /\ ~Steady'
      BY <1>0, <1>3, <2>3 DEF IsCompose, Steady, Lost
    <3> QED
      BY <2>3, <3>1
  <2> QED
    BY <2>1, <2>2, <2>3
<1> QED
  BY <1>4, <1>5, <1>6, <1>7, <1>8 DEF ComposeInv

\* `docker compose up` at one target.
LEMMA UpFacts ==
  ASSUME ComposeInv, NEW n \in 0..deployments, NEW p \in Places, ComposeUp(n, p)
  PROVE  /\ unit' \in [Places -> 0..deployments] /\ unit'[p] = n
         /\ routed' \in [Places -> 0..deployments]
         /\ \A o \in Places \ {p} : unit'[o] = unit[o] /\ routed'[o] = routed[o]
         /\ unit[p] = n => unit' = unit /\ routed' = routed
         /\ routed'[p] = routed[p] \/ routed[p] = unit[p]
<1>1. unit \in [Places -> 0..deployments] /\ routed \in [Places -> 0..deployments]
      /\ None \in 0..deployments
  BY ComposeFields DEF ComposeInv, ComposeTypeOK, None
<1>2. unit[p] = n => unit' = unit /\ routed' = routed
  BY <1>1 DEF ComposeUp
<1> QED
  BY <1>1, <1>2 DEF ComposeUp

\* The routes to an image deployment are not those of the project.
LEMMA ImageRoutes ==
  ASSUME ComposeInv, NEW p \in Places, runs # None, source[runs] = "image", routed[p] = runs
  PROVE  routed[p] # unit[p]
BY DEF ComposeInv, UnitKinds

\* The place of a job or of a return.
LEMMA PlaceFacts ==
  ASSUME ComposeInv
  PROVE  /\ pipe.pc \in {"prepare", "up", "wait", "remove", "retain"} =>
              Place \in Places /\ Place \in TargetSet(pipe.d)
         /\ pipe.pc = "undo" => UndoPlace \in Places /\ UndoPlace \in TargetSet(pipe.prev)
              /\ pipe.prev \in Deployments
<1>1. targets \in [Deployments -> TargetLists] /\ (pipe.pc = "undo" => pipe.prev # None)
  BY DEF ComposeInv, ComposeTypeOK
<1>2. ASSUME pipe.pc \in {"prepare", "up", "wait", "remove", "retain"}
      PROVE  Place \in Places /\ Place \in TargetSet(pipe.d)
  <2>1. pipe.d \in Deployments /\ pipe.i \in 1..Len(targets[pipe.d])
    BY <1>2, ComposeFields DEF ComposeInv, PipeOK
  <2> QED
    BY <1>1, <2>1, TargetFacts DEF Place
<1>3. ASSUME pipe.pc = "undo"
      PROVE  UndoPlace \in Places /\ UndoPlace \in TargetSet(pipe.prev)
             /\ pipe.prev \in Deployments
  <2>1. pipe.prev \in Deployments /\ pipe.i \in 1..Len(targets[pipe.prev])
    BY <1>1, <1>3, ComposeFields DEF ComposeInv, PipeOK
  <2> QED
    BY <1>1, <2>1, TargetFacts DEF UndoPlace
<1> QED
  BY <1>2, <1>3

\* The failures before and at a target.
LEMMA FailSteps ==
  ASSUME ComposeInv, PrepareFails \/ UpFails \/ Unhealthy
  PROVE  ComposeInv'
<1>0. unit \in [Places -> 0..deployments] /\ routed \in [Places -> 0..deployments]
      /\ UnitKinds /\ touched \in BOOLEAN
  BY DEF ComposeInv, ComposeTypeOK
<1>1. CASE PrepareFails
  <2>1. UnitKinds' /\ GoBack(FALSE) /\ pipe.pc = "prepare" /\ checkouts' = checkouts \ {pipe.d}
        /\ UNCHANGED <<deployments, source, targets, runs, unit, images, routed, breaks,
                       unread>>
        /\ touched' \in BOOLEAN /\ (~touched' => ~touched /\ ~Lost)
    BY <1>0, <1>1 DEF PrepareFails, UnitKinds
  <2> QED
    BY <1>0, <2>1, BackStep
<1>2. CASE Unhealthy
  <2>1. UnitKinds' /\ GoBack(TRUE) /\ pipe.pc = "wait"
        /\ UNCHANGED <<deployments, source, targets, runs, unit, images, checkouts, routed,
                       breaks, unread>>
        /\ touched' \in BOOLEAN /\ (~touched' => ~touched /\ ~Lost)
    BY <1>0, <1>2 DEF Unhealthy, UnitKinds
  <2> QED
    BY <1>0, <2>1, BackStep
<1>3. CASE UpFails
  <2>1. pipe.pc = "up" /\ GoBack(FALSE)
        /\ UNCHANGED <<deployments, source, targets, runs, images, checkouts, breaks, unread>>
    BY <1>3 DEF UpFails
  <2>2. PICK n \in {unit[Place], None, pipe.d} :
          ComposeUp(n, Place)
            /\ touched' = (touched \/ Lost \/ (n # unit[Place] /\ ~pipe.started))
    BY <1>3 DEF UpFails
  <2>3. Place \in Places /\ n \in 0..deployments
    BY <1>0, <2>1, PlaceFacts, ComposeFields DEF None
  <2> DEFINE p == Place
  <2>4. /\ unit' \in [Places -> 0..deployments] /\ unit'[p] = n
        /\ routed' \in [Places -> 0..deployments]
        /\ \A o \in Places \ {p} : unit'[o] = unit[o] /\ routed'[o] = routed[o]
        /\ unit[p] = n => unit' = unit /\ routed' = routed
        /\ routed'[p] = routed[p] \/ routed[p] = unit[p]
    BY <2>2, <2>3, UpFacts
  <2>5. n # None => source[n] # "image"
    <3>1. source[pipe.d] # "image"
      BY <2>1 DEF ComposeInv, PipeOK
    <3> QED
      BY <1>0, <2>3, <3>1 DEF UnitKinds
  <2>6. p \in Places
    BY <2>3
  <2> HIDE DEF p
  <2>7. UnitKinds'
    BY <1>0, <2>1, <2>4, <2>5, <2>6 DEF UnitKinds
  <2>8. \A o \in Places : routed[o] = runs /\ runs # None /\ source[runs] = "image" =>
          routed'[o] = runs
    BY <2>4, <2>6, ImageRoutes
  <2>9. (~touched' => ~touched /\ ~Lost) /\ touched' \in BOOLEAN
        /\ (~touched' /\ ~pipe.started => UNCHANGED <<unit, routed>>)
    BY <2>2, <2>4 DEF p
  <2> QED
    BY <2>1, <2>4, <2>7, <2>8, <2>9, BackStep
<1> QED
  BY <1>1, <1>2, <1>3

-----------------------------------------------------------------------------
\* `up` of the next target.
LEMMA UpStep ==
  ASSUME ComposeInv, Up
  PROVE  ComposeInv'
<1> DEFINE p == Place
<1>0. ComposeTypeOK /\ PipeOK /\ pipe.pc = "up" /\ ComposeUp(pipe.d, p)
      /\ pipe' = [pipe EXCEPT !.pc = "wait", !.started = TRUE]
      /\ UNCHANGED <<deployments, source, targets, runs, images, checkouts, breaks, touched, unread>>
  BY DEF ComposeInv, Up
<1>1. pipe \in PipeRows(deployments) /\ deployments \in Nat /\ pipe.d \in 0..deployments
      /\ pipe.d \in Deployments /\ (runs # None => runs \in Deployments)
           /\ pipe.i \in Nat \ {0}
  BY <1>0, ComposeFields
<1>2. /\ pipe' \in PipeRows(deployments) /\ pipe'.pc = "wait" /\ pipe'.started = TRUE
      /\ pipe'.d = pipe.d /\ pipe'.i = pipe.i /\ pipe'.prev = pipe.prev
  BY <1>0, <1>1 DEF PipeRows, PipePcs
<1>3. p \in Places
  BY <1>0, PlaceFacts
<1>4. p = targets[pipe.d][pipe.i] /\ pipe.i \in 1..Len(targets[pipe.d])
  BY <1>0 DEF Place, PipeOK
<1> HIDE DEF p
<1>5. /\ unit' \in [Places -> 0..deployments] /\ unit'[p] = pipe.d
      /\ routed' \in [Places -> 0..deployments]
      /\ \A o \in Places \ {p} : unit'[o] = unit[o] /\ routed'[o] = routed[o]
      /\ routed'[p] = routed[p] \/ routed[p] = unit[p]
  BY <1>0, <1>1, <1>3, UpFacts
<1>6. \A n : TargetSet(n)' = TargetSet(n) /\ IsCompose(n)' = IsCompose(n)
  BY <1>0, SameDeployments
<1>7. ComposeTypeOK'
  BY <1>0, <1>2, <1>5 DEF ComposeTypeOK, PipeRows
<1>8. PipeOK'
  BY <1>0, <1>2, <1>6 DEF PipeOK, BeforeFinish, AfterFinish
<1>9. CheckoutStays' /\ JobFiles'
  BY <1>0, <1>2, <1>6 DEF ComposeInv, CheckoutStays, JobFiles, AfterFinish
<1>10. UnitKinds'
  BY <1>0, <1>3, <1>5 DEF ComposeInv, UnitKinds, PipeOK
<1>11. JobReached'
  <2> SUFFICES ASSUME NEW j \in 1..pipe.i PROVE unit'[targets[pipe.d][j]] = pipe.d
    BY <1>0, <1>2 DEF JobReached
  <2>1. targets[pipe.d][j] \in Places
    <3>1. j \in 1..Len(targets[pipe.d])
      BY <1>0, <1>1, <1>4, TargetFacts DEF ComposeTypeOK
    <3> QED
      BY <1>0, <1>1, <3>1, TargetFacts DEF ComposeTypeOK
  <2>2. CASE j = pipe.i
    BY <1>4, <1>5, <2>2
  <2>3. CASE j # pipe.i
    <3>1. j \in 1..(pipe.i - 1)
      BY <1>1, <2>3
    <3> QED
      BY <1>0, <1>5, <2>1, <3>1 DEF ComposeInv, JobReached
  <2> QED
    BY <2>2, <2>3
<1>12. RunsPresent' /\ RunsRouted'
  <2>1. ~Steady'
    BY <1>2 DEF Steady, AfterFinish
  <2> SUFFICES ASSUME ~touched, runs # None, source[runs] = "image",
                      NEW o \in TargetSet(runs)
               PROVE  Present(runs, o)' /\ (~unread => routed'[o] = runs)
    BY <1>0, <1>6, <2>1 DEF RunsPresent, RunsRouted
  <2>2. Present(runs, o) /\ (~unread => routed[o] = runs)
    BY <1>0 DEF ComposeInv, RunsPresent, RunsRouted
  <2>3. o \in Places
    BY <1>0, <1>1, TargetFacts DEF ComposeTypeOK
  <2>4. ~unread => routed'[o] = runs
    BY <1>3, <1>5, <2>2, <2>3, ImageRoutes
  <2> QED
    BY <1>0, <2>2, <2>4 DEF Present, IsCompose
<1> QED
  BY <1>7, <1>8, <1>9, <1>10, <1>11, <1>12 DEF ComposeInv

\* A target is healthy: the next one, or the end.
LEMMA HealthyStep ==
  ASSUME ComposeInv, Healthy
  PROVE  ComposeInv'
<1>0. ComposeTypeOK /\ PipeOK /\ pipe.pc = "wait"
      /\ UNCHANGED <<deployments, source, targets, runs, unit, images, checkouts, routed,
                     breaks, touched, unread>>
  BY DEF ComposeInv, Healthy
<1>1. pipe \in PipeRows(deployments) /\ deployments \in Nat /\ pipe.d \in Deployments
      /\ pipe.i \in Nat \ {0}
  BY <1>0, ComposeFields
<1>2. \A n : TargetSet(n)' = TargetSet(n) /\ IsCompose(n)' = IsCompose(n)
  BY <1>0, SameDeployments
<1>2a. \A n, p : Present(n, p)' = Present(n, p)
  BY <1>0, SameDeployments
<1>3. \/ /\ LastPlace /\ pipe' \in PipeRows(deployments) /\ pipe'.pc = "finish"
         /\ pipe'.i = pipe.i /\ pipe'.d = pipe.d /\ pipe'.prev = pipe.prev
         /\ pipe'.started = pipe.started
      \/ /\ ~LastPlace /\ pipe' \in PipeRows(deployments) /\ pipe'.pc = "prepare"
         /\ pipe'.i = pipe.i + 1 /\ pipe'.d = pipe.d /\ pipe'.prev = pipe.prev
         /\ pipe'.started = pipe.started
  <2>1. CASE LastPlace
    <3>1. pipe' = [pipe EXCEPT !.pc = "finish"]
      BY <2>1 DEF Healthy
    <3> QED
      BY <1>1, <2>1, <3>1 DEF PipeRows, PipePcs
  <2>2. CASE ~LastPlace
    <3> DEFINE k == pipe.i + 1
    <3>1. pipe' = [pipe EXCEPT !.pc = "prepare", !.i = k]
      BY <2>2 DEF Healthy
    <3>2. k \in Nat \ {0}
      BY <1>1
    <3> HIDE DEF k
    <3> QED
      BY <1>1, <2>2, <3>1, <3>2 DEF PipeRows, PipePcs, k
  <2> QED
    BY <2>1, <2>2
<1>4. Len(targets[pipe.d]) \in Nat /\ pipe.i \in 1..Len(targets[pipe.d]) /\ pipe.started
      /\ (LastPlace <=> pipe.i = Len(targets[pipe.d]))
  BY <1>0, <1>1, TargetFacts DEF PipeOK, LastPlace, ComposeTypeOK
<1>5. ComposeTypeOK'
  BY <1>0, <1>3 DEF ComposeTypeOK, PipeRows
<1>6. PipeOK'
  <2>1. pipe'.pc = "prepare" => pipe'.i \in 1..Len(targets[pipe.d])
    BY <1>1, <1>3, <1>4
  <2> QED
    BY <1>0, <1>2, <1>3, <2>1 DEF PipeOK, BeforeFinish, AfterFinish
<1>7. CheckoutStays' /\ JobFiles' /\ UnitKinds'
  BY <1>0, <1>2, <1>3 DEF ComposeInv, CheckoutStays, JobFiles, UnitKinds, AfterFinish
<1>8. JobReached'
  <2>1. \A j \in 1..pipe.i : unit[targets[pipe.d][j]] = pipe.d
    BY <1>0 DEF ComposeInv, JobReached
  <2>2. CASE pipe'.pc = "prepare" /\ pipe'.i = pipe.i + 1 /\ pipe'.d = pipe.d
    <3>1. pipe'.i - 1 = pipe.i
      BY <1>1, <2>2
    <3> QED
      BY <1>0, <2>1, <2>2, <3>1 DEF JobReached
  <2>3. CASE LastPlace /\ pipe'.pc = "finish" /\ pipe'.d = pipe.d
    <3>1. \A p \in TargetSet(pipe.d) : unit[p] = pipe.d
      <4>1. targets \in [Deployments -> TargetLists]
        BY <1>0 DEF ComposeTypeOK
      <4>2. \A p \in TargetSet(pipe.d) : \E j \in 1..Len(targets[pipe.d]) :
              p = targets[pipe.d][j]
        BY <1>1, <4>1, TargetFacts
      <4> QED
        BY <1>4, <2>1, <2>3, <4>2
    <3>2. IsCompose(pipe.d)
      BY <1>0 DEF PipeOK, IsCompose
    <3> QED
      BY <1>2, <1>2a, <2>3, <3>1, <3>2 DEF JobReached, Present
  <2> QED
    BY <1>3, <2>2, <2>3
<1>9. ~Steady' /\ pipe'.pc # "publish" /\ pipe'.pc # "routes" /\ pipe.pc # "publish"
  BY <1>0, <1>3, <1>4 DEF Steady, AfterFinish
<1>10. RunsPresent' /\ RunsRouted'
  BY <1>0, <1>2, <1>2a, <1>9 DEF ComposeInv, RunsPresent, RunsRouted
<1> QED
  BY <1>5, <1>6, <1>7, <1>8, <1>10 DEF ComposeInv

\* The return to the previous deployment, one target after the other.
LEMMA RollbackSteps ==
  ASSUME ComposeInv, Rollback \/ RollbackFails
  PROVE  ComposeInv'
<1> DEFINE p == UndoPlace
           r == pipe.prev
<1>0. ComposeTypeOK /\ PipeOK /\ pipe.pc = "undo" /\ UndoNext /\ pipe.prev # None
      /\ UNCHANGED <<deployments, source, targets, runs, images, checkouts, breaks, unread>>
  BY DEF ComposeInv, Rollback, RollbackFails, ComposeTypeOK
<1>1. pipe \in PipeRows(deployments) /\ deployments \in Nat /\ pipe.i \in Nat \ {0}
      /\ r \in Deployments /\ r \in 0..deployments
  BY <1>0, ComposeFields
<1>2. r = runs /\ IsCompose(r) /\ source[r] # "image" /\ r # None
      /\ pipe.i \in 1..Len(targets[r])
  BY <1>0 DEF PipeOK, BeforeFinish, IsCompose
<1>3. p \in Places /\ p = targets[r][pipe.i] /\ Len(targets[r]) \in Nat
  BY <1>0, <1>1, PlaceFacts, TargetFacts DEF UndoPlace, ComposeTypeOK
<1>4. \/ /\ pipe.i = Len(targets[r]) /\ pipe' \in PipeRows(deployments)
         /\ pipe'.pc = "routes" /\ pipe'.d = pipe.d /\ pipe'.prev = r
         /\ pipe'.started = pipe.started
      \/ /\ pipe.i # Len(targets[r]) /\ pipe' \in PipeRows(deployments) /\ pipe'.pc = "undo"
         /\ pipe'.i = pipe.i + 1 /\ pipe'.d = pipe.d /\ pipe'.prev = r
         /\ pipe'.started = pipe.started
  <2>1. CASE pipe.i = Len(targets[r])
    <3>1. pipe' = [pipe EXCEPT !.pc = "routes"]
      BY <1>0, <2>1 DEF UndoNext
    <3> QED
      BY <1>1, <2>1, <3>1 DEF PipeRows, PipePcs
  <2>2. CASE pipe.i # Len(targets[r])
    <3> DEFINE k == pipe.i + 1
    <3>1. pipe' = [pipe EXCEPT !.i = k]
      BY <1>0, <2>2 DEF UndoNext
    <3>2. k \in Nat \ {0}
      BY <1>1
    <3> HIDE DEF k
    <3> QED
      BY <1>0, <1>1, <2>2, <3>1, <3>2 DEF PipeRows, k
  <2> QED
    BY <2>1, <2>2
<1> HIDE DEF p, r
<1>5. /\ unit' \in [Places -> 0..deployments] /\ routed' \in [Places -> 0..deployments]
      /\ touched' \in BOOLEAN
      /\ ~touched' => ~touched /\ unit'[p] = r /\ \A o \in Places \ {p} : unit'[o] = unit[o]
      /\ \A o \in Places : unit'[o] = unit[o] \/ unit'[o] = r
  <2>1. CASE Rollback
    <3>1. ComposeUp(r, p) /\ touched' = touched
      BY <2>1 DEF Rollback, p, r
    <3> QED
      BY <1>0, <1>1, <1>3, <3>1, UpFacts DEF ComposeTypeOK
  <2>2. CASE RollbackFails
    BY <1>0, <2>2 DEF RollbackFails, ComposeTypeOK
  <2> QED
    BY <2>1, <2>2
<1>6. \A n : TargetSet(n)' = TargetSet(n) /\ IsCompose(n)' = IsCompose(n)
  BY <1>0, SameDeployments
<1>7. ComposeTypeOK'
  BY <1>0, <1>2, <1>4, <1>5 DEF ComposeTypeOK, PipeRows
<1>8. PipeOK'
  <2>1. pipe'.pc = "undo" => pipe'.i \in 1..Len(targets[r])
    BY <1>1, <1>2, <1>3, <1>4
  <2>2. source[pipe.d] # "image" /\ runs # pipe.d /\ pipe.d = deployments /\ pipe.d # None
    BY <1>0 DEF PipeOK, BeforeFinish
  <2> QED
    BY <1>0, <1>2, <1>4, <1>6, <2>1, <2>2 DEF PipeOK, BeforeFinish, AfterFinish
<1>9. CheckoutStays' /\ JobFiles'
  BY <1>0, <1>4, <1>6 DEF ComposeInv, CheckoutStays, JobFiles, AfterFinish
<1>10. UnitKinds'
  BY <1>0, <1>2, <1>5 DEF ComposeInv, UnitKinds
<1>11. ASSUME ~touched' PROVE \A j \in 1..pipe.i : unit'[targets[r][j]] = r
  <2> TAKE j \in 1..pipe.i
  <2>1. targets[r][j] \in Places
    <3>1. j \in 1..Len(targets[r])
      BY <1>1, <1>2, <1>3
    <3> QED
      BY <1>0, <1>1, <3>1, TargetFacts DEF ComposeTypeOK
  <2>2. CASE j = pipe.i
    BY <1>3, <1>5, <1>11, <2>2
  <2>3. CASE j # pipe.i
    <3>1. j \in 1..(pipe.i - 1)
      BY <1>1, <2>3
    <3>2. unit[targets[r][j]] = r
      BY <1>0, <1>5, <1>11, <3>1 DEF ComposeInv, JobReached, r
    <3> QED
      BY <1>3, <1>5, <1>11, <2>1, <3>2
  <2> QED
    BY <2>2, <2>3
<1>12. JobReached'
  <2>1. pipe'.pc = "undo" => pipe'.i - 1 = pipe.i
    BY <1>1, <1>4
  <2> QED
    BY <1>0, <1>4, <1>11, <2>1 DEF JobReached
<1>13. RunsPresent'
  <2> SUFFICES ASSUME ~touched', pipe'.pc # "undo", NEW o \in TargetSet(r)
               PROVE  unit'[o] = r
    BY <1>0, <1>2, <1>6 DEF RunsPresent, Steady, Present
  <2>1. \E j \in 1..Len(targets[r]) : o = targets[r][j]
    BY <1>0, <1>1, TargetFacts DEF ComposeTypeOK
  <2> QED
    BY <1>4, <1>11, <2>1
<1>14. RunsRouted'
  BY <1>0, <1>2, <1>4 DEF RunsRouted, Steady
<1> QED
  BY <1>7, <1>8, <1>9, <1>10, <1>12, <1>13, <1>14 DEF ComposeInv

-----------------------------------------------------------------------------
\* The job is over.
LEMMA JobOver ==
  ASSUME ComposeInv, pipe' = NoPipe
  PROVE  /\ pipe'.pc = "idle" /\ pipe'.started = FALSE /\ pipe' \in PipeRows(deployments)
         /\ PipeOK' /\ JobFiles' /\ JobReached' /\ Steady'
<1>1. pipe'.pc = "idle" /\ pipe'.started = FALSE /\ pipe' \in PipeRows(deployments)
  BY NoPipeFields, ComposeFields
<1> QED
  BY <1>1 DEF PipeOK, JobFiles, JobReached, BeforeFinish, AfterFinish, Steady

\* A publish routes to the running deployment where nothing replaces it.
LEMMA PublishFacts ==
  ASSUME ComposeInv, Publish
  PROVE  /\ routed' \in [Places -> 0..deployments] /\ unread' \in BOOLEAN
         /\ ~touched /\ ~unread' /\ runs # None /\ (source[runs] = "image" \/ Steady) =>
              \A p \in TargetSet(runs) : routed'[p] = runs
<1>1. routed' \in [Places -> 0..deployments] /\ unread' \in BOOLEAN
  <2>1. CASE routed' = Routes /\ unread' = FALSE
    BY <2>1, RoutesType
  <2>2. CASE UNCHANGED routed /\ unread' = TRUE
    BY <2>2 DEF ComposeInv, ComposeTypeOK
  <2>3. CASE unread' = TRUE /\ ~(UNCHANGED routed)
    <3>1. PICK R \in [Places -> {runs, None}] :
            routed' = [p \in Places |->
              IF runs # None /\ p \in TargetSet(runs) THEN R[p] ELSE None]
      BY <2>3 DEF Publish
    <3>2. None \in 0..deployments /\ runs \in 0..deployments
      BY ComposeFields DEF None, ComposeInv, ComposeTypeOK
    <3> QED
      BY <2>3, <3>1, <3>2
  <2> QED
    BY <2>1, <2>2, <2>3 DEF Publish
<1>2. ASSUME ~touched, ~unread', runs # None, source[runs] = "image" \/ Steady,
             NEW p \in TargetSet(runs)
      PROVE  routed'[p] = runs
  <2>1. Present(runs, p)
    BY <1>2 DEF ComposeInv, RunsPresent
  <2>2. routed' = Routes
    BY <1>2 DEF Publish
  <2> QED
    BY <1>2, <2>1, <2>2, RoutesLead
<1> QED
  BY <1>1, <1>2

\* The publishes: after a return, in switch, and of another app.
LEMMA PublishSteps ==
  ASSUME ComposeInv, RollbackRoutes \/ PublishJob \/ OtherPublish
  PROVE  ComposeInv'
<1>0. ComposeTypeOK /\ PipeOK /\ Publish
      /\ UNCHANGED <<deployments, source, targets, runs, unit, images, checkouts, breaks,
                     touched>>
  BY DEF ComposeInv, RollbackRoutes, PublishJob, OtherPublish
<1>1. pipe \in PipeRows(deployments) /\ deployments \in Nat
      /\ (pipe.pc # "idle" => pipe.d \in Deployments)
  BY ComposeFields
<1>2. \A n : TargetSet(n)' = TargetSet(n) /\ IsCompose(n)' = IsCompose(n)
  BY <1>0, SameDeployments
<1>2a. \A n, p : Present(n, p)' = Present(n, p)
  BY <1>0, SameDeployments
<1>3. /\ routed' \in [Places -> 0..deployments] /\ unread' \in BOOLEAN
      /\ ~touched /\ ~unread' /\ runs # None /\ (source[runs] = "image" \/ Steady) =>
           \A p \in TargetSet(runs) : routed'[p] = runs
  BY <1>0, PublishFacts
<1>4. CheckoutStays' /\ UnitKinds'
  BY <1>0, <1>2 DEF ComposeInv, CheckoutStays, UnitKinds
<1>5. /\ pipe' \in PipeRows(deployments) /\ PipeOK' /\ JobFiles' /\ JobReached'
      /\ (pipe'.pc = "undo" => pipe'.prev # None)
      /\ (Steady' => Steady)
  <2>1. CASE OtherPublish
    <3>1. pipe' = pipe
      BY <2>1 DEF OtherPublish
    <3>2. PipeOK' /\ JobFiles'
      BY <1>0, <1>2, <3>1 DEF ComposeInv, PipeOK, JobFiles
    <3>3. JobReached'
      BY <1>0, <1>2, <1>2a, <3>1 DEF ComposeInv, JobReached
    <3> QED
      BY <1>0, <1>1, <3>1, <3>2, <3>3 DEF ComposeTypeOK, Steady
  <2>2. CASE PublishJob
    <3> DEFINE k == 1
    <3>1. pipe.pc = "publish" /\ pipe' = [pipe EXCEPT !.pc = "remove", !.i = k]
      BY <2>2 DEF PublishJob
    <3>2. Len(targets[pipe.d]) \in Nat \ {0}
      BY <1>0, <1>1, <3>1, TargetFacts DEF ComposeTypeOK
    <3>3. k \in 1..Len(targets[pipe.d]) /\ k \in Nat \ {0}
      BY <3>2
    <3> HIDE DEF k
    <3>4. pipe' \in PipeRows(deployments) /\ pipe'.pc = "remove" /\ pipe'.i = k
          /\ pipe'.d = pipe.d
      BY <1>1, <3>1, <3>3 DEF PipeRows, PipePcs
    <3>5. PipeOK' /\ JobFiles' /\ JobReached'
      BY <1>0, <3>1, <3>3, <3>4
         DEF ComposeInv, PipeOK, JobFiles, JobReached, BeforeFinish, AfterFinish
    <3> QED
      BY <3>1, <3>4, <3>5 DEF Steady, AfterFinish
  <2>3. CASE RollbackRoutes /\ pipe.drop
    <3>1. pipe.pc = "routes" /\ pipe' = [pipe EXCEPT !.pc = "tidy"]
      BY <2>3 DEF RollbackRoutes
    <3>2. pipe' \in PipeRows(deployments) /\ pipe'.pc = "tidy" /\ pipe'.d = pipe.d
          /\ pipe'.prev = pipe.prev /\ pipe'.started = pipe.started
      BY <1>1, <3>1 DEF PipeRows, PipePcs
    <3>3. PipeOK'
      BY <1>0, <1>2, <3>1, <3>2 DEF PipeOK, BeforeFinish, AfterFinish
    <3>4. JobFiles' /\ JobReached'
      BY <3>2 DEF JobFiles, JobReached, AfterFinish
    <3> QED
      BY <3>1, <3>2, <3>3, <3>4 DEF Steady
  <2>4. CASE RollbackRoutes /\ ~pipe.drop
    <3>1. pipe.pc = "routes" /\ pipe' = NoPipe
      BY <2>4 DEF RollbackRoutes
    <3> QED
      BY <3>1, JobOver DEF Steady
  <2> QED
    BY <2>1, <2>2, <2>3, <2>4
<1>6. ComposeTypeOK'
  BY <1>0, <1>3, <1>5 DEF ComposeTypeOK, PipeRows
<1>7. RunsPresent'
  BY <1>0, <1>2, <1>2a, <1>5 DEF ComposeInv, RunsPresent
<1>8. RunsRouted'
  BY <1>0, <1>2, <1>3, <1>5 DEF RunsRouted
<1> QED
  BY <1>4, <1>5, <1>6, <1>7, <1>8 DEF ComposeInv

\* The containers of an image deployment start.
LEMMA ImageStep ==
  ASSUME ComposeInv, ImageStarts
  PROVE  ComposeInv'
<1>0. ComposeTypeOK /\ PipeOK /\ pipe.pc = "image" /\ pipe' = [pipe EXCEPT !.pc = "finish"]
      /\ images' = [p \in Places |-> IF p \in TargetSet(pipe.d) THEN images[p] \union {pipe.d}
                                     ELSE images[p]]
      /\ UNCHANGED <<deployments, source, targets, runs, unit, checkouts, routed, breaks,
                     touched, unread>>
  BY DEF ComposeInv, ImageStarts, Continue
<1>1. pipe \in PipeRows(deployments) /\ deployments \in Nat /\ pipe.d \in Deployments
      /\ (runs # None => runs \in Deployments)
  BY <1>0, ComposeFields
<1>2. \A n : TargetSet(n)' = TargetSet(n) /\ IsCompose(n)' = IsCompose(n)
  BY <1>0, SameDeployments
<1>3. /\ pipe' \in PipeRows(deployments) /\ pipe'.pc = "finish" /\ pipe'.d = pipe.d
      /\ pipe'.prev = pipe.prev /\ pipe'.started = pipe.started
  BY <1>0, <1>1 DEF PipeRows, PipePcs
<1>4. source[pipe.d] = "image" /\ ~pipe.started /\ ~IsCompose(pipe.d)
  BY <1>0 DEF PipeOK, IsCompose
<1>5. images' \in [Places -> SUBSET Deployments]
      /\ (\A p \in Places : images[p] \subseteq images'[p])
      /\ \A p \in TargetSet(pipe.d) : pipe.d \in images'[p]
  <2>1. images \in [Places -> SUBSET Deployments] /\ TargetSet(pipe.d) \subseteq Places
    BY <1>0, <1>1, TargetFacts DEF ComposeTypeOK
  <2> QED
    BY <1>0, <1>1, <2>1
<1>6. ComposeTypeOK'
  BY <1>0, <1>3, <1>5 DEF ComposeTypeOK, PipeRows
<1>7. PipeOK'
  BY <1>0, <1>2, <1>3 DEF PipeOK, BeforeFinish, AfterFinish
<1>8. CheckoutStays' /\ JobFiles' /\ UnitKinds'
  BY <1>0, <1>2, <1>3, <1>4 DEF ComposeInv, CheckoutStays, JobFiles, UnitKinds
<1>9. JobReached'
  BY <1>2, <1>3, <1>4, <1>5 DEF JobReached, Present
<1>10. RunsPresent' /\ RunsRouted'
  <2>1. Steady
    BY <1>0, <1>4 DEF Steady
  <2> SUFFICES ASSUME ~touched, runs # None, NEW o \in TargetSet(runs)
               PROVE  Present(runs, o)' /\ (~unread => routed'[o] = runs)
    BY <1>0, <1>2 DEF RunsPresent, RunsRouted
  <2>2. Present(runs, o) /\ (~unread => routed[o] = runs)
    BY <1>0, <2>1 DEF ComposeInv, RunsPresent, RunsRouted
  <2>3. o \in Places
    BY <1>0, <1>1, TargetFacts DEF ComposeTypeOK
  <2> QED
    BY <1>0, <1>2, <1>5, <2>2, <2>3 DEF Present
<1> QED
  BY <1>6, <1>7, <1>8, <1>9, <1>10 DEF ComposeInv

\* The job gives up where nothing of the running deployment was replaced, or where the
\* replacement stays.
LEMMA GiveUpSteps ==
  ASSUME ComposeInv, ImageFails \/ FinishFails
  PROVE  ComposeInv'
<1>0. ComposeTypeOK /\ PipeOK /\ pipe.pc \in {"image", "finish"} /\ pipe' = NoPipe
      /\ (~touched' => ~touched /\ source[pipe.d] = "image") /\ touched' \in BOOLEAN
      /\ UNCHANGED <<deployments, source, targets, runs, unit, images, checkouts, routed,
                     breaks, unread>>
  BY DEF ComposeInv, ComposeTypeOK, PipeOK, ImageFails, FinishFails
<1>1. \A n : TargetSet(n)' = TargetSet(n) /\ IsCompose(n)' = IsCompose(n)
  BY <1>0, SameDeployments
<1>2. \A n, p : Present(n, p)' = Present(n, p)
  BY <1>0, SameDeployments
<1>3. /\ pipe'.pc = "idle" /\ pipe' \in PipeRows(deployments)
      /\ PipeOK' /\ JobFiles' /\ JobReached'
  BY <1>0, JobOver
<1>4. ~touched' => Steady
  BY <1>0 DEF PipeOK, Steady
<1>5. ComposeTypeOK'
  BY <1>0, <1>3 DEF ComposeTypeOK, PipeRows
<1>6. CheckoutStays' /\ UnitKinds'
  BY <1>0, <1>1 DEF ComposeInv, CheckoutStays, UnitKinds
<1>7. RunsPresent' /\ RunsRouted'
  BY <1>0, <1>1, <1>2, <1>3, <1>4 DEF ComposeInv, RunsPresent, RunsRouted
<1> QED
  BY <1>3, <1>5, <1>6, <1>7 DEF ComposeInv

\* The row of the job becomes the running one.
LEMMA FinishStep ==
  ASSUME ComposeInv, FinishJob
  PROVE  ComposeInv'
<1>0. ComposeTypeOK /\ PipeOK /\ pipe.pc = "finish" /\ pipe' = [pipe EXCEPT !.pc = "publish"]
      /\ runs' = pipe.d /\ touched' = FALSE
      /\ UNCHANGED <<deployments, source, targets, unit, images, checkouts, routed, breaks, unread>>
  BY DEF ComposeInv, FinishJob, Continue
<1>1. pipe \in PipeRows(deployments) /\ deployments \in Nat /\ pipe.d \in Deployments
      /\ pipe.d \in 0..deployments
  BY <1>0, ComposeFields
<1>2. \A n : TargetSet(n)' = TargetSet(n) /\ IsCompose(n)' = IsCompose(n)
  BY <1>0, SameDeployments
<1>3. \A n, p : Present(n, p)' = Present(n, p)
  BY <1>0, SameDeployments
<1>4. pipe' \in PipeRows(deployments) /\ pipe'.pc = "publish" /\ pipe'.d = pipe.d
  BY <1>0, <1>1 DEF PipeRows, PipePcs
<1>5. ComposeTypeOK'
  <2>1. touched' \in BOOLEAN
    BY <1>0, Zenon
  <2> QED
    BY <1>0, <1>1, <1>4, <2>1 DEF ComposeTypeOK, PipeRows
<1>6. PipeOK'
  BY <1>0, <1>4 DEF PipeOK, BeforeFinish, AfterFinish
<1>7. CheckoutStays' /\ JobFiles' /\ UnitKinds'
  BY <1>0, <1>2, <1>4
     DEF ComposeInv, CheckoutStays, JobFiles, UnitKinds, IsCompose, AfterFinish
<1>8. JobReached'
  BY <1>4 DEF JobReached
<1>9. RunsPresent' /\ RunsRouted'
  <2>1. \A p \in TargetSet(pipe.d) : Present(pipe.d, p)
    BY <1>0 DEF ComposeInv, JobReached
  <2>2. \A p \in TargetSet(pipe.d) : Present(pipe.d, p)'
    <3>1. \A n : (n = pipe.d => \A p \in TargetSet(n) : Present(n, p)')
      BY <1>3, <2>1
    <3> QED
      BY <1>0, <1>2, <1>3, <2>1 DEF Present, IsCompose
  <2> QED
    BY <1>0, <1>2, <1>4, <2>2 DEF RunsPresent, RunsRouted, Present, IsCompose
<1> QED
  BY <1>5, <1>6, <1>7, <1>8, <1>9 DEF ComposeInv

-----------------------------------------------------------------------------
\* What follows the publish touches the other deployments only.
LEMMA OthersGo ==
  ASSUME ComposeInv, pipe.pc \in {"remove", "retain"},
         UNCHANGED <<deployments, source, targets, runs, routed, breaks, touched, unread>>,
         Continue("retain") \/ SwitchNext,
         unit' \in [Places -> 0..deployments], images' \in [Places -> SUBSET Deployments],
         checkouts' \subseteq checkouts,
         \A p \in Places : unit'[p] = unit[p] \/ (unit'[p] = None /\ unit[p] # pipe.d),
         \A p \in Places : pipe.d \in images[p] => pipe.d \in images'[p],
         IsCompose(pipe.d) /\ pipe.d \in checkouts => pipe.d \in checkouts'
  PROVE  ComposeInv'
<1>0. ComposeTypeOK /\ PipeOK /\ runs = pipe.d /\ pipe.d # None
  BY DEF ComposeInv, PipeOK, AfterFinish
<1>1. pipe \in PipeRows(deployments) /\ deployments \in Nat /\ pipe.d \in Deployments
      /\ pipe.i \in Nat \ {0}
  BY ComposeFields
<1>2. \A n : TargetSet(n)' = TargetSet(n) /\ IsCompose(n)' = IsCompose(n)
  BY SameDeployments
<1>3. IsCompose(pipe.d) <=> source[pipe.d] # "image"
  BY <1>0 DEF IsCompose
<1>4. CheckoutStays' /\ UnitKinds'
  BY <1>0, <1>2 DEF ComposeInv, CheckoutStays, UnitKinds
<1>5. pipe' \in PipeRows(deployments) /\ PipeOK' /\ JobFiles' /\ JobReached' /\ Steady'
      /\ pipe'.pc # "undo" /\ pipe'.pc # "routes"
  <2>1. CASE pipe' = NoPipe
    BY <2>1, JobOver
  <2>2. CASE pipe' # NoPipe
    <3> DEFINE k == pipe.i + 1
    <3>1. \/ pipe' = [pipe EXCEPT !.pc = "retain"]
          \/ ~LastPlace /\ pipe' = [pipe EXCEPT !.pc = "remove", !.i = k]
      BY <2>2 DEF Continue, SwitchNext
    <3>2. pipe.i \in 1..Len(targets[pipe.d]) /\ Len(targets[pipe.d]) \in Nat
      BY <1>0, <1>1, TargetFacts DEF PipeOK, ComposeTypeOK
    <3>3. k \in Nat \ {0} /\ (~LastPlace => k \in 1..Len(targets[pipe.d]))
      BY <1>1, <3>2 DEF LastPlace
    <3> HIDE DEF k
    <3>4. /\ pipe' \in PipeRows(deployments) /\ pipe'.pc \in {"remove", "retain"}
          /\ pipe'.d = pipe.d /\ pipe'.i \in 1..Len(targets[pipe.d])
      <4>1. CASE pipe' = [pipe EXCEPT !.pc = "retain"]
        BY <1>1, <3>2, <4>1 DEF PipeRows, PipePcs
      <4>2. CASE ~LastPlace /\ pipe' = [pipe EXCEPT !.pc = "remove", !.i = k]
        BY <1>1, <3>3, <4>2 DEF PipeRows, PipePcs
      <4> QED
        BY <3>1, <4>1, <4>2
    <3>5. PipeOK'
      BY <1>0, <3>4 DEF PipeOK, BeforeFinish, AfterFinish
    <3>6. JobFiles'
      BY <1>3, <3>4 DEF ComposeInv, JobFiles, AfterFinish
    <3> QED
      BY <3>4, <3>5, <3>6 DEF JobReached, Steady, AfterFinish
  <2> QED
    BY <2>1, <2>2
<1>6. ComposeTypeOK'
  BY <1>0, <1>5 DEF ComposeTypeOK, PipeRows
<1>7. RunsPresent' /\ RunsRouted'
  <2>1. Steady /\ pipe.pc # "publish" /\ pipe.pc # "routes"
    BY DEF Steady, AfterFinish
  <2> SUFFICES ASSUME ~touched, NEW o \in TargetSet(runs)
               PROVE  Present(runs, o)' /\ (~unread => routed'[o] = runs)
    BY <1>0, <1>2 DEF RunsPresent, RunsRouted
  <2>2. Present(runs, o) /\ (~unread => routed[o] = runs)
    BY <1>0, <2>1 DEF ComposeInv, RunsPresent, RunsRouted
  <2>3. o \in Places
    BY <1>0, <1>1, TargetFacts DEF ComposeTypeOK
  <2> QED
    BY <1>0, <1>2, <2>2, <2>3 DEF Present
<1> QED
  BY <1>4, <1>5, <1>6, <1>7 DEF ComposeInv

\* The old containers and checkouts go, or stay.
LEMMA OthersSteps ==
  ASSUME ComposeInv, RemoveOld \/ RemoveOldFails \/ Retain
  PROVE  ComposeInv'
<1>0. ComposeTypeOK /\ pipe.pc \in {"remove", "retain"}
      /\ UNCHANGED <<deployments, source, targets, runs, routed, breaks, touched, unread>>
      /\ (Continue("retain") \/ SwitchNext)
  BY DEF ComposeInv, RemoveOld, RemoveOldFails, Retain
<1>1. checkouts' \subseteq checkouts
      /\ (IsCompose(pipe.d) /\ pipe.d \in checkouts => pipe.d \in checkouts')
  BY DEF RemoveOld, RemoveOldFails, Retain
<1>2. RemoveContainers \/ UNCHANGED <<unit, images>>
  BY DEF RemoveOld, RemoveOldFails, Retain
<1>3. /\ unit' \in [Places -> 0..deployments] /\ images' \in [Places -> SUBSET Deployments]
      /\ \A p \in Places : unit'[p] = unit[p] \/ (unit'[p] = None /\ unit[p] # pipe.d)
      /\ \A p \in Places : pipe.d \in images[p] => pipe.d \in images'[p]
  <2>1. CASE UNCHANGED <<unit, images>>
    BY <1>0, <2>1 DEF ComposeTypeOK
  <2>2. CASE RemoveContainers
    <3>1. Place \in Places /\ None \in 0..deployments
      BY <1>0, PlaceFacts, ComposeFields DEF None
    <3>2. /\ unit \in [Places -> 0..deployments] /\ images \in [Places -> SUBSET Deployments]
      BY <1>0 DEF ComposeTypeOK
    <3> DEFINE p == Place
    <3>3. /\ images' = [images EXCEPT ![p] = images[p] \intersect {pipe.d}]
          /\ unit' = [unit EXCEPT ![p] = IF unit[p] = pipe.d THEN unit[p] ELSE None]
      BY <2>2, <3>1, <3>2 DEF RemoveContainers
    <3>4. p \in Places
      BY <3>1
    <3> HIDE DEF p
    <3> QED
      BY <3>1, <3>2, <3>3, <3>4
  <2> QED
    BY <1>2, <2>1, <2>2
<1> QED
  BY <1>0, <1>1, <1>3, OthersGo

\* A job that is cancelled, or that the process leaves behind.
LEMMA BreakSteps ==
  ASSUME ComposeInv, CancelJob \/ CrashJob
  PROVE  ComposeInv'
<1>0. ComposeTypeOK /\ PipeOK /\ pipe' = NoPipe /\ touched' = TRUE
      /\ breaks < MaxBreaks /\ breaks' = breaks + 1
      /\ UNCHANGED <<deployments, source, targets, runs, checkouts>>
  BY DEF ComposeInv, CancelJob, CrashJob
<1>1. \A n : TargetSet(n)' = TargetSet(n) /\ IsCompose(n)' = IsCompose(n)
  BY <1>0, SameDeployments
<1>2. /\ pipe'.pc = "idle" /\ pipe' \in PipeRows(deployments)
      /\ PipeOK' /\ JobFiles' /\ JobReached'
  BY <1>0, JobOver
<1>3. /\ unit' \in [Places -> 0..deployments] /\ images' \in [Places -> SUBSET Deployments]
      /\ routed' \in [Places -> 0..deployments] /\ unread' \in BOOLEAN
      /\ \A p \in Places : unit'[p] = unit[p] \/ unit'[p] = None
  <2>1. CASE CrashJob
    <3>1. None \in 0..deployments
      BY ComposeFields DEF None
    <3>2. routed' \in [Places -> 0..deployments] /\ unread' \in BOOLEAN
      BY <2>1, <3>1, RoutesType DEF CrashJob
    <3> QED
      BY <1>0, <2>1, <3>2 DEF CrashJob, ComposeTypeOK
  <2>2. CASE CancelJob
    <3>1. None \in 0..deployments
      BY ComposeFields DEF None
    <3>2. /\ unit \in [Places -> 0..deployments] /\ images \in [Places -> SUBSET Deployments]
          /\ routed \in [Places -> 0..deployments] /\ unread' \in BOOLEAN
      BY <1>0, <2>2 DEF ComposeTypeOK, CancelJob
    <3> DEFINE Own == TargetSet(pipe.d)
    <3>3. /\ unit' = [p \in Places |-> IF p \in Own /\ unit[p] = pipe.d THEN None ELSE unit[p]]
          /\ images' = [p \in Places |-> IF p \in Own THEN images[p] \ {pipe.d} ELSE images[p]]
          /\ routed' = [p \in Places |-> IF p \in Own /\ routed[p] = pipe.d THEN None
                                         ELSE routed[p]]
      BY <2>2 DEF CancelJob
    <3> HIDE DEF Own
    <3> QED
      BY <3>1, <3>2, <3>3
  <2> QED
    BY <2>1, <2>2
<1>4. ComposeTypeOK'
  <2>1. touched' \in BOOLEAN
    BY <1>0, Zenon
  <2>2. breaks' \in 0..MaxBreaks
    BY <1>0, ComposeAssumption DEF ComposeTypeOK
  <2> QED
    BY <1>0, <1>2, <1>3, <2>1, <2>2 DEF ComposeTypeOK, PipeRows
<1>5. CheckoutStays' /\ UnitKinds'
  BY <1>0, <1>1, <1>3 DEF ComposeInv, CheckoutStays, UnitKinds
<1>6. RunsPresent' /\ RunsRouted'
  BY <1>0 DEF RunsPresent, RunsRouted
<1> QED
  BY <1>2, <1>4, <1>5, <1>6 DEF ComposeInv

\* And a step of nobody.
LEMMA ComposeStutter ==
  ASSUME ComposeInv, UNCHANGED composeVars
  PROVE  ComposeInv'
<1>0. UNCHANGED <<deployments, source, targets, runs, unit, images, checkouts, routed, pipe,
                  breaks, touched, unread>>
  BY DEF composeVars
<1>1. \A n : TargetSet(n)' = TargetSet(n) /\ IsCompose(n)' = IsCompose(n)
  BY <1>0, SameDeployments
<1>2. \A n, p : Present(n, p)' = Present(n, p)
  BY <1>0, SameDeployments
<1>3. ComposeTypeOK' /\ CheckoutStays' /\ UnitKinds' /\ JobFiles'
  BY <1>0, <1>1
     DEF ComposeInv, ComposeTypeOK, CheckoutStays, UnitKinds, JobFiles
<1>4. PipeOK'
  BY <1>0, <1>1 DEF ComposeInv, PipeOK
<1>5. JobReached'
  BY <1>0, <1>1, <1>2 DEF ComposeInv, JobReached
<1>6. RunsPresent' /\ RunsRouted'
  BY <1>0, <1>1, <1>2 DEF ComposeInv, RunsPresent, RunsRouted, Steady
<1> QED
  BY <1>3, <1>4, <1>5, <1>6 DEF ComposeInv

\* The running Compose deployment keeps its checkout, and through the failures that the
\* code undoes also its containers and, after a publish that reads them, its routes, for
\* every target list and any number of deployments, failures, cancellations and crashes.
THEOREM ComposeRunningKept == ComposeSpec => []ComposeKept
<1>1. ComposeInit => ComposeInv
  BY ComposeInitial
<1>2. ComposeInv /\ [ComposeNext]_composeVars => ComposeInv'
  BY BeginStep, PrepareSteps, FailSteps, UpStep, HealthyStep, RollbackSteps, PublishSteps,
     ImageStep, GiveUpSteps, FinishStep, OthersSteps, BreakSteps, ComposeStutter
     DEF ComposeNext
<1>3. ComposeInv => ComposeKept
  BY ComposeInvImplies
<1> QED
  BY <1>1, <1>2, <1>3, PTL DEF ComposeSpec

-----------------------------------------------------------------------------
(* Previews.  What a quiet state shows depends on everything that was on its way: *)
(* PreviewInv says in whose hands each push is (PushOnce, Pending), that with *)
(* deliveries in order the last one answered is always shown, queued or carried *)
(* (OnItsWay), and who holds the app and looks into its queue (TakenOnce). *)

\* A call that works on its own event; the others run a push that was queued.
Own(a) == IsCall(a) /\ actor[a].ref = a[1]

\* An actor that has a push in its hands that no pipeline runs yet.
Carries(a, c) ==
  /\ actor[a].ref = c
  /\ (IsCall(a) /\ actor[a].pc # "rest") \/ actor[a].pc \in {"read", "lock", "start"}

\* The pipeline of a push has begun, and may have ended, or its call has gone on to another.
Begun(c) ==
  \/ actor[<<c, "job">>].pc # "rest"
  \/ actor[<<c, "call">>].pc # "rest" /\ actor[<<c, "call">>].ref # c
  \/ \E x \in Previews : shows[x].commit = c

\* Who has taken an app, and who will look into its queue.
HasApp(a, x) == actor[a].id = x /\ actor[a].pc \in {"start", "run", "remove", "decide"}
Serves(a, x) ==
  actor[a].id = x /\ actor[a].pc \in {"start", "run", "remove", "decide", "take"}

\* There is one preview at a time, and what belongs to it was created for it.
OneOpen ==
  /\ \A x, y \in previews : x = y
  /\ \A x \in previews \union withEnv \union busy : x <= created
  /\ \A x \in Previews : x > created => hooks[x] = NoCommit /\ shows[x].commit = NoCommit

\* What an actor works on at each step.
ActorOK(a) ==
  /\ actor[a].id <= created
  /\ actor[a].pc \notin {"rest", "find", "create"} => actor[a].id \in Previews
  /\ actor[a].pc \in {"read", "lock", "start", "run"} => actor[a].ref # NoCommit
  /\ IsCall(a) /\ actor[a].pc # "rest" => a[1] \in accepted
  /\ actor[a].pc \in {"run", "insert", "pending", "decide"} =>
       ~IsCall(a) /\ actor[a].ref = a[1]
  /\ actor[a].pc \in {"run", "decide"} => actor[a].id \in previews
  /\ actor[a].pc = "take" =>
       actor[a].ref \in {a[1], NoCommit} /\ (Own(a) => a[1] \in undone)
  /\ actor[a].pc \in {"find", "create", "env", "update", "delete", "remove"} => Own(a)
  /\ actor[a].pc \in {"create", "env", "update", "read", "lock", "start"} =>
       events[actor[a].ref] = "push"
  /\ actor[a].pc \in {"delete", "remove"} => events[a[1]] = "close"
  /\ ~Own(a) \/ actor[a].pc = "start" => actor[a].ref <= newest
ActorsOK == \A a \in Actors : ActorOK(a)

\* What the history says.
HistoryOK ==
  /\ \A e \in accepted : e <= Len(events) /\ (e \in kept \/ e \in forgotten)
  /\ newest \in accepted \union {NoCommit} /\ answered \in accepted \union {0}
  /\ \A x \in Previews :
       hooks[x] <= newest /\ (hooks[x] # NoCommit => events[hooks[x]] = "push")
  /\ answered # 0 => (events[answered] = "push" => answered <= newest)

\* An app is taken by one actor at a time.
TakenOnce ==
  /\ \A a, b \in Actors : \A x \in Previews : HasApp(a, x) /\ HasApp(b, x) => a = b
  /\ \A a \in Actors : \A x \in Previews : HasApp(a, x) => x \in busy
  /\ \A x \in previews : x \in busy => \E a \in Actors : HasApp(a, x)

\* Deliveries in order: one call at a time, the newest of all, whose app is there.
CallsInOrder ==
  /\ \A a, b \in Actors :
       IsCall(a) /\ IsCall(b) /\ actor[a].pc # "rest" /\ actor[b].pc # "rest" => a = b
  /\ \A a \in Actors : IsCall(a) /\ actor[a].pc # "rest" =>
       (Own(a) => answered < a[1]) /\ \A f \in accepted : f <= a[1]
  /\ \A a \in Actors : Own(a) =>
       (actor[a].pc \in {"env", "update", "read", "lock", "start", "delete", "remove"} =>
          actor[a].id \in previews)

\* What is queued, deployed or shown was answered, and nothing of it is left after a close.
PushesAnswered ==
  /\ \A a \in Actors : ~Own(a) => actor[a].ref <= answered
  /\ \A x \in Previews : hooks[x] <= answered /\ shows[x].commit <= answered
  /\ answered # 0 => (events[answered] = "close" => \A x \in previews :
       /\ hooks[x] = NoCommit
       /\ \A a \in Actors : actor[a].id = x /\ ~Own(a) =>
            actor[a].pc \notin {"read", "lock", "start", "run", "insert", "pending",
                                "decide"})

\* A push is in one place until its pipeline begins.
PushOnce ==
  /\ \A a, b \in Actors : \A c \in Events : Carries(a, c) /\ Carries(b, c) => a = b
  /\ \A a \in Actors : \A x \in Previews : hooks[x] # NoCommit => ~Carries(a, hooks[x])
  /\ \A x, y \in Previews : hooks[x] # NoCommit /\ hooks[x] = hooks[y] => x = y
  /\ \A c \in Events : Begun(c) => /\ \A a \in Actors : ~Carries(a, c)
                                   /\ \A x \in Previews : hooks[x] # c

\* The last push that was answered is queued, was taken from the queue, or waits for
\* approval.
Pending(x) ==
  \/ hooks[x] = answered
  \/ \E b \in Actors : /\ actor[b].id = x /\ actor[b].ref = answered
                       /\ actor[b].pc \in {"read", "lock", "pending"}

\* Unless a push was overtaken, the preview has the last ones in their order.
InTurn ==
  /\ \A x \in previews : hooks[x] # NoCommit => hooks[x] = answered /\ hooks[x] = newest
  /\ \A a \in Actors : actor[a].id \in previews =>
       /\ actor[a].pc \in {"read", "lock"} /\ ~Own(a) => actor[a].fresh
       /\ actor[a].pc \in {"start", "run", "decide"} /\ ~Own(a) =>
            actor[a].ref = answered \/ Pending(actor[a].id)
       /\ actor[a].pc = "start" /\ Own(a) => hooks[actor[a].id] = NoCommit

\* The last push that was answered is shown by x or on its way there.
Reaches(x) ==
  \/ shows[x].commit = answered
  \/ hooks[x] = answered /\ \E a \in Actors : Serves(a, x)
  \/ \E a \in Actors : /\ actor[a].id = x /\ actor[a].ref = answered
                       /\ actor[a].pc \in {"read", "lock", "start", "run", "insert",
                                           "pending", "decide"}

\* Where the work of the last event that was answered is.
OnItsWay ==
  answered # 0 =>
    /\ events[answered] = "push" => answered \in undone \/ \E x \in previews : Reaches(x)
    /\ events[answered] = "close" =>
         \/ previews = {} \/ \E e \in undone : e > answered
         \/ \E a \in Actors : Own(a) /\ actor[a].pc # "rest" /\ a[1] > answered

\* Who works on a preview has found its variables, or copies them.
EnvCopied ==
  /\ \A x \in previews : x \in withEnv \/ \E a \in Actors : actor[a].pc = "env"
       /\ actor[a].id = x
  /\ \A a \in Actors :
       actor[a].pc \notin {"rest", "find", "create", "env"} /\ actor[a].id \in previews =>
         /\ actor[a].id \in withEnv
         /\ actor[a].pc \in {"run", "insert", "pending", "decide"} => actor[a].env
  /\ \A x \in previews : shows[x].commit # NoCommit => shows[x].env

PreviewBase  == PreviewTypeOK /\ OneOpen /\ ActorsOK /\ HistoryOK /\ TakenOnce
PreviewOrder == ~disordered => CallsInOrder /\ PushesAnswered /\ PushOnce
PreviewTurn  == ~disordered /\ ~overtaken => InTurn /\ OnItsWay
PreviewEnv   == ~disordered /\ undone = {} => EnvCopied

\* The inductive invariant.
PreviewInv == /\ PreviewBase /\ PreviewOrder /\ PreviewTurn /\ PreviewEnv
              /\ disordered \in BOOLEAN /\ overtaken \in BOOLEAN

\* The rows of the actors.
ActorRows == [pc : ActorPcs, id : 0..MaxPreviews, ref : Events \union {NoCommit},
              fresh : BOOLEAN, env : BOOLEAN]

\* The step gives a the row r, and no other actor moves.
Turns(a, r) ==
  /\ actor' \in [Actors -> ActorRows] /\ actor'[a] = r
  /\ \A b \in Actors : b # a => actor'[b] = actor[b]

\* An actor is the call of an event or its pipeline.
LEMMA ActorFacts ==
  /\ \A a \in Actors : /\ a[1] \in Events
                       /\ IsCall(a) => a = <<a[1], "call">>
                       /\ ~IsCall(a) => a = <<a[1], "job">>
  /\ \A e \in Events :
       /\ <<e, "call">> \in Actors /\ IsCall(<<e, "call">>) /\ <<e, "call">>[1] = e
       /\ <<e, "job">> \in Actors /\ ~IsCall(<<e, "job">>) /\ <<e, "job">>[1] = e
BY DEF Actors, IsCall

\* Events and previews are numbered from 1.
LEMMA PreviewNumbers ==
  /\ MaxEvents \in Nat /\ MaxPreviews \in Nat /\ MaxTroubles \in Nat
  /\ Events \subseteq Nat \ {0} /\ Previews \subseteq Nat \ {0}
  /\ \A n \in Nat : n \in Events <=> 1 <= n /\ n <= MaxEvents
  /\ \A n \in Nat : n \in Previews <=> 1 <= n /\ n <= MaxPreviews
BY PreviewAssumption DEF Events, Previews

\* An actor without work has nothing in its hands.
LEMMA RestActor == AtRest \in ActorRows /\ AtRest.pc = "rest" /\ AtRest.id = 0
                  /\ AtRest.ref = NoCommit /\ ~AtRest.fresh /\ ~AtRest.env
BY PreviewAssumption DEF AtRest, ActorRows, ActorPcs, NoCommit

\* Before the first event there is nothing.
LEMMA PreviewInitInv == PreviewInit => PreviewInv
<1> SUFFICES ASSUME PreviewInit PROVE PreviewInv
  OBVIOUS
<1>1. PreviewTypeOK
  BY PreviewAssumption, RestActor DEF PreviewInit, PreviewTypeOK, ActorRows, NotShown, NoCommit
<1>2. \A a \in Actors : actor[a] = AtRest
  BY DEF PreviewInit
<1>3. OneOpen /\ HistoryOK
  BY DEF PreviewInit, OneOpen, HistoryOK, NotShown, NoCommit
<1>4. ActorsOK
  BY <1>2, RestActor DEF PreviewInit, ActorsOK, ActorOK, Own, NoCommit
<1>5. TakenOnce
  BY <1>2, RestActor DEF PreviewInit, TakenOnce, HasApp
<1>6. CallsInOrder /\ PushesAnswered
  BY <1>2, RestActor DEF PreviewInit, CallsInOrder, PushesAnswered, Own, NoCommit, NotShown
<1>7. PushOnce
  BY <1>2, RestActor, ActorFacts
     DEF PreviewInit, PushOnce, Begun, Carries, NoCommit, NotShown, Events
<1>8. InTurn /\ OnItsWay /\ EnvCopied
  BY DEF PreviewInit, InTurn, OnItsWay, EnvCopied, NoCommit
<1> QED
  BY <1>1, <1>3, <1>4, <1>5, <1>6, <1>7, <1>8 DEF PreviewInv, PreviewBase, PreviewOrder,
     PreviewTurn, PreviewEnv, PreviewInit

\* The numbers of the state.
LEMMA PrevTypes ==
  ASSUME PreviewInv
  PROVE  /\ created \in Nat /\ newest \in Nat /\ answered \in Nat /\ troubles \in Nat
         /\ \A b \in Actors : /\ b[1] \in Nat /\ b[1] # 0 /\ actor[b].id \in Nat
                              /\ actor[b].ref \in Nat /\ actor[b].ref \in Events \union {0}
         /\ \A x \in Previews : /\ hooks[x] \in Nat /\ hooks[x] \in Events \union {0}
                                /\ shows[x].commit \in Nat
         /\ \A x \in Previews : x \in Nat /\ x # 0
         /\ \A e \in Events : e \in Nat /\ e # 0
         /\ actor \in [Actors -> ActorRows]
BY ActorFacts, PreviewNumbers DEF PreviewInv, PreviewBase, PreviewTypeOK, NoCommit, ActorRows

\* A push that was taken from the queue and is not overtaken is the last one.
LEMMA LastTaken ==
  ASSUME PreviewInv, ~disordered, ~overtaken, NEW a \in Actors, actor[a].pc = "lock",
         ~(actor[a].fresh /\ actor[a].ref < newest), ~Own(a), actor[a].id \in previews
  PROVE  actor[a].ref = answered /\ actor[a].ref = newest
<1>1. InTurn /\ PushesAnswered /\ actor[a].ref # 0
  BY DEF PreviewInv, PreviewTurn, PreviewOrder, ActorsOK, ActorOK, PreviewBase, NoCommit
<1>2. actor[a].fresh /\ actor[a].ref <= newest
  BY <1>1 DEF InTurn, ActorsOK, ActorOK, PreviewInv, PreviewBase
<1>3. actor[a].ref = newest
  BY <1>2, PrevTypes
<1>4. actor[a].ref <= answered /\ answered # 0
  BY <1>1, PrevTypes DEF PushesAnswered
<1>5. events[answered] # "close"
  BY <1>1, <1>4 DEF PushesAnswered
<1>6. events[answered] = "push"
  BY <1>4, <1>5 DEF PreviewInv, PreviewBase, PreviewTypeOK, HistoryOK
<1>7. answered <= newest
  BY <1>4, <1>6 DEF PreviewInv, PreviewBase, HistoryOK
<1> QED
  BY <1>3, <1>4, <1>7, PrevTypes

\* An actor reports an error and has no more to do.
LEMMA ErrStep ==
  ASSUME PreviewInv, NEW a \in Actors, Errs(a), UNCHANGED previewState,
         actor[a].pc \in {"create", "env", "update", "read", "delete", "insert"},
         actor[a].pc = "read" => actor[a].id \notin previews,
         troubles' \in 0..MaxTroubles
  PROVE  PreviewInv'
<1>1. /\ Turns(a, AtRest)
      /\ undone' = undone \union ({a[1], actor[a].ref} \ {0})
      /\ UNCHANGED <<events, kept, created, previews, withEnv, busy, hooks, shows, accepted,
                     forgotten, newest, answered, disordered, overtaken>>
  BY PrevTypes, RestActor DEF Errs, Ends, Undone, Turns, previewState, NoCommit
<1>2. /\ actor'[a].pc = "rest" /\ actor'[a].id = 0 /\ actor'[a].ref = 0
      /\ \A b \in Actors : b # a => actor'[b] = actor[b]
  BY <1>1, RestActor DEF Turns, NoCommit
<1>3. ~Own(a)' /\ \A b \in Actors : b # a => (Own(b)' <=> Own(b))
  BY <1>2, PrevTypes DEF Own
<1>4. PreviewTypeOK'
  <2>1. PreviewTypeOK /\ a[1] \in Events /\ actor[a].ref \in Events \union {0}
    BY ActorFacts, PrevTypes DEF PreviewInv, PreviewBase
  <2>2. undone' \subseteq Events
    BY <1>1, <2>1 DEF PreviewTypeOK
  <2>3. actor' \in [Actors -> ActorRows]
    BY <1>1, PrevTypes, RestActor DEF Turns
  <2> QED
    BY <1>1, <2>1, <2>2, <2>3 DEF PreviewTypeOK, ActorRows
<1>5. (OneOpen /\ HistoryOK)'
  BY <1>1 DEF OneOpen, HistoryOK, PreviewInv, PreviewBase
<1>6. ActorsOK'
  <2> SUFFICES ASSUME NEW b \in Actors PROVE ActorOK(b)'
    BY DEF ActorsOK
  <2>1. ActorOK(b)
    BY DEF ActorsOK, PreviewInv, PreviewBase
  <2>2. CASE b = a
    BY <2>1, <2>2, <1>1, <1>2, <1>3, PrevTypes DEF ActorOK, NoCommit
  <2>3. CASE b # a
    BY <2>1, <2>3, <1>1, <1>2, <1>3 DEF ActorOK
  <2> QED
    BY <2>2, <2>3
<1>7. TakenOnce'
  BY <1>1, <1>2 DEF TakenOnce, HasApp, PreviewInv, PreviewBase
<1>8. ~disordered' => CallsInOrder'
  BY <1>1, <1>2, <1>3, PrevTypes DEF CallsInOrder, PreviewInv, PreviewOrder
<1>9. ~disordered' => PushesAnswered'
  BY <1>1, <1>2, <1>3, PrevTypes DEF PushesAnswered, PreviewInv, PreviewOrder, NoCommit
<1>10. ~disordered' => PushOnce'
  <2>1. \A b \in Actors : \A c \in Events \union {0} : Carries(b, c)' => b # a /\ Carries(b, c)
    BY <1>2, <1>3, PrevTypes DEF Carries
  <2>2. \A c \in Events : Begun(c)' => Begun(c)
    BY <1>1, <1>2, <1>3, ActorFacts, PrevTypes DEF Begun
  <2>3. \A y \in Previews : hooks'[y] = hooks[y]
    BY <1>1
  <2> QED
    BY <1>1, <2>1, <2>2, <2>3, PrevTypes DEF PushOnce, PreviewInv, PreviewOrder, NoCommit
<1>11. ~disordered' /\ ~overtaken' => InTurn'
  BY <1>1, <1>2, <1>3, PrevTypes DEF InTurn, Pending, PreviewInv, PreviewTurn, NoCommit
<1>12. ~disordered' /\ ~overtaken' => OnItsWay'
  BY <1>1, <1>2, <1>3, PrevTypes
     DEF OnItsWay, Reaches, Serves, PreviewInv, PreviewTurn, PreviewOrder, CallsInOrder,
       NoCommit
<1>13. ~disordered' /\ undone' = {} => EnvCopied'
  BY <1>1, PrevTypes
<1> QED
  BY <1>1, <1>4, <1>5, <1>6, <1>7, <1>8, <1>9, <1>10, <1>11, <1>12, <1>13
     DEF PreviewInv, PreviewBase, PreviewOrder,
     PreviewTurn, PreviewEnv

\* A call goes on without a change of the previews.
LEMMA FindStep ==
  ASSUME PreviewInv, NEW a \in Actors, NEW p, NEW x \in 0..MaxPreviews,
         Turns(a, [actor[a] EXCEPT !.pc = p, !.id = x]),
         UNCHANGED <<events, kept, created, previews, withEnv, busy, hooks, shows, troubles,
                     previewHistory>>,
         \/ /\ actor[a].pc = "find" /\ x = actor[a].id /\ p = "create"
            /\ events[a[1]] = "push"
         \/ /\ actor[a].pc = "find" /\ x \in previews
            /\ \/ p = "update" /\ events[a[1]] = "push"
               \/ p = "delete" /\ events[a[1]] = "close"
         \/ /\ x = actor[a].id /\ x \in previews
            /\ \/ actor[a].pc = "update" /\ p = "read"
               \/ actor[a].pc = "read" /\ p = "lock"
  PROVE  PreviewInv'
<1>1. /\ UNCHANGED <<events, kept, created, previews, withEnv, busy, hooks, shows, troubles,
                     accepted, forgotten, newest, answered, undone, disordered, overtaken>>
      /\ actor' \in [Actors -> ActorRows]
  BY DEF previewHistory, Turns
<1>2. /\ actor'[a].pc = p /\ actor'[a].id = x /\ actor'[a].ref = actor[a].ref
      /\ actor'[a].fresh = actor[a].fresh /\ actor'[a].env = actor[a].env
      /\ \A b \in Actors : b # a => actor'[b] = actor[b]
  BY PrevTypes DEF Turns, ActorRows
<1>3. /\ \A b \in Actors : Own(b)' <=> Own(b)
      /\ actor[a].pc \in {"find", "update"} => Own(a) /\ IsCall(a)
      /\ x \in previews => x \in Previews /\ x <= created
  BY <1>2, PrevTypes DEF Own, ActorOK, ActorsOK, PreviewInv, PreviewBase, PreviewTypeOK,
     OneOpen
<1>4. PreviewTypeOK'
  BY <1>1, ActorFacts, PrevTypes, PreviewNumbers, SMTT(30)
     DEF PreviewTypeOK, ActorRows, Turns, PreviewInv, PreviewBase, NoCommit
<1>5. (OneOpen /\ HistoryOK)'
  BY <1>1 DEF OneOpen, HistoryOK, PreviewInv, PreviewBase
<1>6. ActorsOK'
  <2> SUFFICES ASSUME NEW b \in Actors PROVE ActorOK(b)'
    BY DEF ActorsOK
  <2>1. ActorOK(b)
    BY DEF ActorsOK, PreviewInv, PreviewBase
  <2>2. CASE b = a
    <3>1. /\ actor'[b].pc = p /\ actor'[b].id = x /\ actor'[b].ref = actor[b].ref
          /\ Own(b)' <=> Own(b)
      BY <1>2, <1>3, <2>2
    <3>2. CASE actor[a].pc = "find"
      BY <2>1, <2>2, <3>1, <3>2, <1>1, <1>3 DEF ActorOK, Own
    <3>3. CASE actor[a].pc = "update"
      BY <2>1, <2>2, <3>1, <3>3, <1>1, <1>3, PrevTypes DEF ActorOK, Own, NoCommit
    <3>4. CASE actor[a].pc = "read"
      BY <2>1, <2>2, <3>1, <3>4, <1>1, <1>3 DEF ActorOK
    <3> QED
      BY <3>2, <3>3, <3>4
  <2>3. CASE b # a
    BY <2>1, <2>3, <1>1, <1>2, <1>3 DEF ActorOK
  <2> QED
    BY <2>2, <2>3
<1>7. TakenOnce'
  BY <1>1, <1>2 DEF TakenOnce, HasApp, PreviewInv, PreviewBase
<1>8. ~disordered' => CallsInOrder'
  BY <1>1, <1>2, <1>3, PrevTypes DEF CallsInOrder, PreviewInv, PreviewOrder
<1>9. ~disordered' => PushesAnswered'
  BY <1>1, <1>2, <1>3, PrevTypes DEF PushesAnswered, PreviewInv, PreviewOrder, NoCommit
<1>10. ~disordered' => PushOnce'
  <2>1. \A b \in Actors : \A c \in Events \union {0} : Carries(b, c)' => Carries(b, c)
    BY <1>2, <1>3, PrevTypes DEF Carries
  <2>2. \A c \in Events : Begun(c)' => Begun(c)
    BY <1>1, <1>2, <1>3, ActorFacts, PrevTypes DEF Begun
  <2>3. \A y \in Previews : hooks'[y] = hooks[y]
    BY <1>1
  <2> QED
    BY <1>1, <2>1, <2>2, <2>3, PrevTypes DEF PushOnce, PreviewInv, PreviewOrder, NoCommit
<1>11. ~disordered' /\ ~overtaken' => InTurn'
  BY <1>1, <1>2, <1>3, PrevTypes DEF InTurn, Pending, PreviewInv, PreviewTurn, NoCommit
<1>12. ~disordered' /\ ~overtaken' => OnItsWay'
  BY <1>1, <1>2, <1>3, PrevTypes
     DEF OnItsWay, Reaches, Serves, PreviewInv, PreviewTurn, PreviewOrder, CallsInOrder,
       NoCommit
<1>13. ~disordered' /\ undone' = {} => EnvCopied'
  <2>1. ASSUME ~disordered, undone = {}, x \in previews PROVE x \in withEnv
    <3>1. EnvCopied /\ CallsInOrder
      BY <2>1 DEF PreviewInv, PreviewEnv, PreviewOrder
    <3>2. \A b \in Actors : actor[b].pc = "env" => IsCall(b)
      BY DEF ActorOK, ActorsOK, Own, PreviewInv, PreviewBase
    <3>3. CASE actor[a].pc = "find"
      BY <2>1, <3>1, <3>2, <3>3, <1>3 DEF EnvCopied, CallsInOrder
    <3>4. CASE actor[a].pc # "find"
      BY <2>1, <3>1, <3>4, <1>3 DEF EnvCopied
    <3> QED
      BY <3>3, <3>4
  <2> QED
    BY <1>1, <1>2, <2>1 DEF EnvCopied, PreviewInv, PreviewEnv
<1> QED
  BY <1>1, <1>4, <1>5, <1>6, <1>7, <1>8, <1>9, <1>10, <1>11, <1>12, <1>13
     DEF PreviewInv, PreviewBase, PreviewOrder,
     PreviewTurn, PreviewEnv

\* A close finds no preview.
LEMMA GoneStep ==
  ASSUME PreviewInv, NEW a \in Actors, actor[a].pc = "find", previews = {},
         events[a[1]] = "close", Turns(a, AtRest), answered' = a[1],
         UNCHANGED <<events, kept, previewState, troubles, accepted, forgotten, newest,
                     undone, disordered, overtaken>>
  PROVE  PreviewInv'
<1>1. /\ UNCHANGED <<events, kept, created, previews, withEnv, busy, hooks, shows, troubles,
                     accepted, forgotten, newest, undone, disordered, overtaken>>
      /\ actor' \in [Actors -> ActorRows]
  BY DEF previewState, Turns
<1>2. /\ actor'[a].pc = "rest" /\ actor'[a].id = 0 /\ actor'[a].ref = 0
      /\ \A b \in Actors : b # a => actor'[b] = actor[b]
  BY RestActor DEF Turns, NoCommit
<1>3. /\ ~Own(a)' /\ \A b \in Actors : b # a => (Own(b)' <=> Own(b))
      /\ Own(a) /\ IsCall(a) /\ a[1] \in accepted
  BY <1>2, PrevTypes DEF Own, ActorOK, ActorsOK, PreviewInv, PreviewBase
<1>4. PreviewTypeOK'
  BY <1>1, ActorFacts, PrevTypes, PreviewNumbers, SMTT(30)
     DEF PreviewTypeOK, ActorRows, Turns, PreviewInv, PreviewBase, NoCommit
<1>5. (OneOpen /\ HistoryOK)'
  BY <1>1, <1>3, PrevTypes DEF OneOpen, HistoryOK, PreviewInv, PreviewBase
<1>6. ActorsOK'
  <2> SUFFICES ASSUME NEW b \in Actors PROVE ActorOK(b)'
    BY DEF ActorsOK
  <2>1. ActorOK(b)
    BY DEF ActorsOK, PreviewInv, PreviewBase
  <2>2. CASE b = a
    BY <2>1, <2>2, <1>1, <1>2, <1>3, PrevTypes DEF ActorOK, NoCommit
  <2>3. CASE b # a
    BY <2>1, <2>3, <1>1, <1>2, <1>3 DEF ActorOK
  <2> QED
    BY <2>2, <2>3
<1>7. TakenOnce'
  BY <1>1, <1>2 DEF TakenOnce, HasApp, PreviewInv, PreviewBase
<1>8. ~disordered' => CallsInOrder'
  BY <1>1, <1>2, <1>3, PrevTypes DEF CallsInOrder, PreviewInv, PreviewOrder
<1>9. ~disordered' => PushesAnswered'
  BY <1>1, <1>2, <1>3, PrevTypes
     DEF PushesAnswered, PreviewInv, PreviewOrder, NoCommit, CallsInOrder
<1>10. ~disordered' => PushOnce'
  <2>1. \A b \in Actors : \A c \in Events \union {0} : Carries(b, c)' => b # a /\ Carries(b, c)
    BY <1>2, <1>3, PrevTypes DEF Carries
  <2>2. \A c \in Events : Begun(c)' => Begun(c)
    BY <1>1, <1>2, <1>3, ActorFacts, PrevTypes DEF Begun
  <2>3. \A y \in Previews : hooks'[y] = hooks[y]
    BY <1>1
  <2> QED
    BY <1>1, <2>1, <2>2, <2>3, PrevTypes DEF PushOnce, PreviewInv, PreviewOrder, NoCommit
<1>11. ~disordered' /\ ~overtaken' => InTurn'
  BY <1>1, <1>2, <1>3, PrevTypes DEF InTurn, Pending, PreviewInv, PreviewTurn, NoCommit
<1>12. ~disordered' /\ ~overtaken' => OnItsWay'
  BY <1>1, <1>2, <1>3, PrevTypes
     DEF OnItsWay, Reaches, Serves, PreviewInv, PreviewTurn, PreviewOrder, CallsInOrder,
       NoCommit
<1>13. ~disordered' /\ undone' = {} => EnvCopied'
  BY <1>1, <1>2, PrevTypes DEF EnvCopied, PreviewInv, PreviewEnv
<1> QED
  BY <1>1, <1>4, <1>5, <1>6, <1>7, <1>8, <1>9, <1>10, <1>11, <1>12, <1>13
     DEF PreviewInv, PreviewBase, PreviewOrder,
     PreviewTurn, PreviewEnv

\* add_app creates the preview.
LEMMA CreateStep ==
  ASSUME PreviewInv, NEW a \in Actors, actor[a].pc = "create", previews = {},
         created < MaxPreviews, created' = created + 1, previews' = {created + 1},
         Turns(a, [actor[a] EXCEPT !.pc = "env", !.id = created + 1]),
         UNCHANGED <<events, kept, withEnv, busy, hooks, shows, troubles, previewHistory>>
  PROVE  PreviewInv'
<1>1. /\ UNCHANGED <<events, kept, withEnv, busy, hooks, shows, troubles, accepted, forgotten,
                     newest, answered, undone, disordered, overtaken>>
      /\ actor' \in [Actors -> ActorRows] /\ created + 1 \in Previews
  BY PrevTypes, PreviewNumbers DEF previewHistory, Turns
<1>2. /\ actor'[a].pc = "env" /\ actor'[a].id = created + 1 /\ actor'[a].ref = actor[a].ref
      /\ \A b \in Actors : b # a => actor'[b] = actor[b]
  BY PrevTypes DEF Turns, ActorRows
<1>3. /\ \A b \in Actors : Own(b)' <=> Own(b)
      /\ Own(a) /\ IsCall(a) /\ \A b \in Actors : actor[b].id <= created
  BY <1>2, PrevTypes DEF Own, ActorOK, ActorsOK, PreviewInv, PreviewBase
<1>4. PreviewTypeOK'
  BY <1>1, ActorFacts, PrevTypes, PreviewNumbers
     DEF PreviewTypeOK, ActorRows, Turns, PreviewInv, PreviewBase, NoCommit
<1>5. (OneOpen /\ HistoryOK)'
  BY <1>1, PrevTypes DEF OneOpen, HistoryOK, PreviewInv, PreviewBase, PreviewTypeOK
<1>6. ActorsOK'
  <2> SUFFICES ASSUME NEW b \in Actors PROVE ActorOK(b)'
    BY DEF ActorsOK
  <2>1. ActorOK(b)
    BY DEF ActorsOK, PreviewInv, PreviewBase
  <2>2. CASE b = a
    BY <2>1, <2>2, <1>1, <1>2, <1>3, PrevTypes, PrevTypes DEF ActorOK, NoCommit
  <2>3. CASE b # a
    BY <2>1, <2>3, <1>1, <1>2, <1>3, PrevTypes DEF ActorOK
  <2> QED
    BY <2>2, <2>3
<1>7. TakenOnce'
  BY <1>1, <1>2, <1>3, PrevTypes DEF TakenOnce, HasApp, PreviewInv, PreviewBase, OneOpen
<1>8. ~disordered' => CallsInOrder'
  BY <1>1, <1>2, <1>3, PrevTypes DEF CallsInOrder, PreviewInv, PreviewOrder
<1>9. ~disordered' => PushesAnswered'
  BY <1>1, <1>2, <1>3, PrevTypes
     DEF PushesAnswered, PreviewInv, PreviewOrder, NoCommit, OneOpen, PreviewBase
<1>10. ~disordered' => PushOnce'
  <2>1. \A b \in Actors : \A c \in Events \union {0} : Carries(b, c)' => Carries(b, c)
    BY <1>2, <1>3, PrevTypes DEF Carries
  <2>2. \A c \in Events : Begun(c)' => Begun(c)
    BY <1>1, <1>2, <1>3, ActorFacts, PrevTypes DEF Begun
  <2>3. \A y \in Previews : hooks'[y] = hooks[y]
    BY <1>1
  <2> QED
    BY <1>1, <2>1, <2>2, <2>3, PrevTypes DEF PushOnce, PreviewInv, PreviewOrder, NoCommit
<1>11. ~disordered' /\ ~overtaken' => InTurn'
  BY <1>1, <1>2, <1>3, PrevTypes
     DEF InTurn, Pending, PreviewInv, PreviewTurn, NoCommit, OneOpen, PreviewBase
<1>12. ~disordered' /\ ~overtaken' => OnItsWay'
  BY <1>1, <1>2, <1>3, PrevTypes
     DEF OnItsWay, Reaches, Serves, PreviewInv, PreviewTurn, PreviewOrder, CallsInOrder,
       NoCommit
<1>13. ~disordered' /\ undone' = {} => EnvCopied'
  BY <1>1, <1>2, PrevTypes, <1>3 DEF EnvCopied, PreviewInv, PreviewEnv, OneOpen, PreviewBase
<1> QED
  BY <1>1, <1>4, <1>5, <1>6, <1>7, <1>8, <1>9, <1>10, <1>11, <1>12, <1>13
     DEF PreviewInv, PreviewBase, PreviewOrder,
     PreviewTurn, PreviewEnv

\* copy_non_secret_app_env copies the variables.
LEMMA EnvStepOk ==
  ASSUME PreviewInv, NEW a \in Actors, actor[a].pc = "env", actor[a].id \in previews,
         withEnv' = withEnv \union {actor[a].id},
         Turns(a, [actor[a] EXCEPT !.pc = "read"]),
         UNCHANGED <<events, kept, created, previews, busy, hooks, shows, troubles,
                     previewHistory>>
  PROVE  PreviewInv'
<1>1. /\ UNCHANGED <<events, kept, created, previews, busy, hooks, shows, troubles,
        accepted, forgotten,
                     newest, answered, undone, disordered, overtaken>>
      /\ actor' \in [Actors -> ActorRows] /\ actor[a].id \in Previews /\ actor[a].id <= created
  BY PrevTypes, PreviewNumbers
     DEF previewHistory, Turns, PreviewInv, PreviewBase, PreviewTypeOK, OneOpen
<1>2. /\ actor'[a].pc = "read" /\ actor'[a].id = actor[a].id /\ actor'[a].ref = actor[a].ref
      /\ \A b \in Actors : b # a => actor'[b] = actor[b]
  BY PrevTypes DEF Turns, ActorRows
<1>3. /\ \A b \in Actors : Own(b)' <=> Own(b)
      /\ Own(a) /\ IsCall(a) /\ actor[a].ref # 0
  BY <1>2, PrevTypes DEF Own, ActorOK, ActorsOK, PreviewInv, PreviewBase
<1>4. PreviewTypeOK'
  BY <1>1, ActorFacts, PrevTypes, PreviewNumbers
     DEF PreviewTypeOK, ActorRows, Turns, PreviewInv, PreviewBase, NoCommit
<1>5. (OneOpen /\ HistoryOK)'
  BY <1>1 DEF OneOpen, HistoryOK, PreviewInv, PreviewBase
<1>6. ActorsOK'
  <2> SUFFICES ASSUME NEW b \in Actors PROVE ActorOK(b)'
    BY DEF ActorsOK
  <2>1. ActorOK(b)
    BY DEF ActorsOK, PreviewInv, PreviewBase
  <2>2. CASE b = a
    BY <2>1, <2>2, <1>1, <1>2, <1>3, PrevTypes DEF ActorOK, NoCommit
  <2>3. CASE b # a
    BY <2>1, <2>3, <1>1, <1>2, <1>3 DEF ActorOK
  <2> QED
    BY <2>2, <2>3
<1>7. TakenOnce'
  BY <1>1, <1>2 DEF TakenOnce, HasApp, PreviewInv, PreviewBase
<1>8. ~disordered' => CallsInOrder'
  BY <1>1, <1>2, <1>3, PrevTypes DEF CallsInOrder, PreviewInv, PreviewOrder
<1>9. ~disordered' => PushesAnswered'
  BY <1>1, <1>2, <1>3, PrevTypes DEF PushesAnswered, PreviewInv, PreviewOrder, NoCommit
<1>10. ~disordered' => PushOnce'
  <2>1. \A b \in Actors : \A c \in Events \union {0} : Carries(b, c)' => Carries(b, c)
    BY <1>2, <1>3, PrevTypes DEF Carries
  <2>2. \A c \in Events : Begun(c)' => Begun(c)
    BY <1>1, <1>2, <1>3, ActorFacts, PrevTypes DEF Begun
  <2>3. \A y \in Previews : hooks'[y] = hooks[y]
    BY <1>1
  <2> QED
    BY <1>1, <2>1, <2>2, <2>3, PrevTypes DEF PushOnce, PreviewInv, PreviewOrder, NoCommit
<1>11. ~disordered' /\ ~overtaken' => InTurn'
  BY <1>1, <1>2, <1>3, PrevTypes DEF InTurn, Pending, PreviewInv, PreviewTurn, NoCommit
<1>12. ~disordered' /\ ~overtaken' => OnItsWay'
  BY <1>1, <1>2, <1>3, PrevTypes
     DEF OnItsWay, Reaches, Serves, PreviewInv, PreviewTurn, PreviewOrder, CallsInOrder,
       NoCommit
<1>13. ~disordered' /\ undone' = {} => EnvCopied'
  BY <1>1, <1>2, PrevTypes DEF EnvCopied, PreviewInv, PreviewEnv
<1> QED
  BY <1>1, <1>4, <1>5, <1>6, <1>7, <1>8, <1>9, <1>10, <1>11, <1>12, <1>13
     DEF PreviewInv, PreviewBase, PreviewOrder,
     PreviewTurn, PreviewEnv

\* delete_app takes the app.
LEMMA LockDeletionStep ==
  ASSUME PreviewInv, NEW a \in Actors, actor[a].pc = "delete", actor[a].id \notin busy,
         busy' = busy \union {actor[a].id},
         Turns(a, [actor[a] EXCEPT !.pc = "remove"]),
         UNCHANGED <<events, kept, created, previews, withEnv, hooks, shows, troubles,
                     previewHistory>>
  PROVE  PreviewInv'
<1>1. /\ UNCHANGED <<events, kept, created, previews, withEnv, hooks, shows, troubles,
        accepted, forgotten,
                     newest, answered, undone, disordered, overtaken>>
      /\ actor' \in [Actors -> ActorRows] /\ actor[a].id \in Previews /\ actor[a].id <= created
  BY PrevTypes DEF previewHistory, Turns, PreviewInv, PreviewBase, ActorsOK, ActorOK
<1>2. /\ actor'[a].pc = "remove" /\ actor'[a].id = actor[a].id /\ actor'[a].ref = actor[a].ref
      /\ \A b \in Actors : b # a => actor'[b] = actor[b]
  BY PrevTypes DEF Turns, ActorRows
<1>3. /\ \A b \in Actors : Own(b)' <=> Own(b)
      /\ Own(a) /\ IsCall(a) /\ actor[a].ref # 0
  BY <1>2, PrevTypes DEF Own, ActorOK, ActorsOK, PreviewInv, PreviewBase
<1>4. PreviewTypeOK'
  BY <1>1, ActorFacts, PrevTypes, PreviewNumbers
     DEF PreviewTypeOK, ActorRows, Turns, PreviewInv, PreviewBase, NoCommit
<1>5. (OneOpen /\ HistoryOK)'
  BY <1>1 DEF OneOpen, HistoryOK, PreviewInv, PreviewBase
<1>6. ActorsOK'
  <2> SUFFICES ASSUME NEW b \in Actors PROVE ActorOK(b)'
    BY DEF ActorsOK
  <2>1. ActorOK(b)
    BY DEF ActorsOK, PreviewInv, PreviewBase
  <2>2. CASE b = a
    BY <2>1, <2>2, <1>1, <1>2, <1>3, PrevTypes DEF ActorOK, NoCommit
  <2>3. CASE b # a
    BY <2>1, <2>3, <1>1, <1>2, <1>3 DEF ActorOK
  <2> QED
    BY <2>2, <2>3
<1>7. TakenOnce'
  BY <1>1, <1>2 DEF TakenOnce, HasApp, PreviewInv, PreviewBase
<1>8. ~disordered' => CallsInOrder'
  BY <1>1, <1>2, <1>3, PrevTypes DEF CallsInOrder, PreviewInv, PreviewOrder
<1>9. ~disordered' => PushesAnswered'
  BY <1>1, <1>2, <1>3, PrevTypes DEF PushesAnswered, PreviewInv, PreviewOrder, NoCommit
<1>10. ~disordered' => PushOnce'
  <2>1. \A b \in Actors : \A c \in Events \union {0} : Carries(b, c)' => Carries(b, c)
    BY <1>2, <1>3, PrevTypes DEF Carries
  <2>2. \A c \in Events : Begun(c)' => Begun(c)
    BY <1>1, <1>2, <1>3, ActorFacts, PrevTypes DEF Begun
  <2>3. \A y \in Previews : hooks'[y] = hooks[y]
    BY <1>1
  <2> QED
    BY <1>1, <2>1, <2>2, <2>3, PrevTypes DEF PushOnce, PreviewInv, PreviewOrder, NoCommit
<1>11. ~disordered' /\ ~overtaken' => InTurn'
  BY <1>1, <1>2, <1>3, PrevTypes DEF InTurn, Pending, PreviewInv, PreviewTurn, NoCommit
<1>12. ~disordered' /\ ~overtaken' => OnItsWay'
  BY <1>1, <1>2, <1>3, PrevTypes
     DEF OnItsWay, Reaches, Serves, PreviewInv, PreviewTurn, PreviewOrder, CallsInOrder,
       NoCommit
<1>13. ~disordered' /\ undone' = {} => EnvCopied'
  BY <1>1, <1>2, PrevTypes DEF EnvCopied, PreviewInv, PreviewEnv
<1> QED
  BY <1>1, <1>4, <1>5, <1>6, <1>7, <1>8, <1>9, <1>10, <1>11, <1>12, <1>13
     DEF PreviewInv, PreviewBase, PreviewOrder,
     PreviewTurn, PreviewEnv

\* The pipeline ends, well or not.
LEMMA EndsStep ==
  ASSUME PreviewInv, NEW a \in Actors, PipelineEnds(a)
  PROVE  PreviewInv'
<1>1. /\ UNCHANGED <<events, kept, created, previews, withEnv, hooks, troubles, accepted,
        forgotten,
                     newest, answered, disordered, overtaken>>
      /\ actor' \in [Actors -> ActorRows] /\ actor[a].pc = "run" /\ actor[a].id <= created
      /\ busy' = busy \ {actor[a].id}
      /\ shows' \in [Previews -> [commit : Events \union {NoCommit}, env : BOOLEAN]]
      /\ undone \subseteq undone' /\ undone' \subseteq Events
      /\ \A y \in Previews : y # actor[a].id => shows'[y] = shows[y]
      /\ \/ /\ shows'[actor[a].id].commit = a[1]
            /\ shows'[actor[a].id].env = actor[a].env
         \/ shows'[actor[a].id] = shows[actor[a].id] /\ a[1] \in undone'
  <2>1. /\ actor[a].pc = "run" /\ actor[a].id \in Previews /\ actor[a].id <= created
        /\ a[1] \in Events /\ a[1] # 0 /\ actor[a].env \in BOOLEAN
    BY PrevTypes, ActorFacts DEF PipelineEnds, ActorsOK, ActorOK, ActorRows, PreviewInv,
       PreviewBase
  <2>2. actor' \in [Actors -> ActorRows]
    BY PrevTypes DEF PipelineEnds, Goes, ActorRows, ActorPcs
  <2>3. /\ shows \in [Previews -> [commit : Events \union {NoCommit}, env : BOOLEAN]]
        /\ undone \subseteq Events
    BY DEF PreviewInv, PreviewBase, PreviewTypeOK
  <2>4. CASE /\ shows' = [shows EXCEPT ![actor[a].id] =
                                 [commit |-> a[1], env |-> actor[a].env]]
             /\ undone' = undone
    BY <2>1, <2>2, <2>3, <2>4 DEF PipelineEnds
  <2>5. CASE Undone({a[1]}) /\ UNCHANGED shows
    BY <2>1, <2>2, <2>3, <2>5 DEF PipelineEnds, Undone, NoCommit
  <2> QED
    BY <2>4, <2>5 DEF PipelineEnds
<1>2. /\ actor'[a].pc = "take" /\ actor'[a].id = actor[a].id /\ actor'[a].ref = actor[a].ref
      /\ \A b \in Actors : b # a => actor'[b] = actor[b]
  BY PrevTypes DEF PipelineEnds, Goes, ActorRows
<1>3. /\ \A b \in Actors : Own(b)' <=> Own(b)
      /\ ~Own(a) /\ ~IsCall(a) /\ actor[a].ref = a[1] /\ actor[a].id \in previews
           /\ actor[a].id \in Previews
  BY <1>1, <1>2, PrevTypes DEF Own, ActorOK, ActorsOK, PreviewInv, PreviewBase
<1>4. PreviewTypeOK'
  BY <1>1, ActorFacts, PrevTypes, PreviewNumbers
     DEF PreviewTypeOK, ActorRows, Turns, PreviewInv, PreviewBase, NoCommit
<1>5. (OneOpen /\ HistoryOK)'
  BY <1>1, <1>3, PrevTypes DEF OneOpen, HistoryOK, PreviewInv, PreviewBase
<1>6. ActorsOK'
  <2> SUFFICES ASSUME NEW b \in Actors PROVE ActorOK(b)'
    BY DEF ActorsOK
  <2>1. ActorOK(b)
    BY DEF ActorsOK, PreviewInv, PreviewBase
  <2>2. CASE b = a
    BY <2>1, <2>2, <1>1, <1>2, <1>3, PrevTypes DEF ActorOK, NoCommit
  <2>3. CASE b # a
    BY <2>1, <2>3, <1>1, <1>2, <1>3 DEF ActorOK
  <2> QED
    BY <2>2, <2>3
<1>7. TakenOnce'
  BY <1>1, <1>2 DEF TakenOnce, HasApp, PreviewInv, PreviewBase
<1>8. ~disordered' => CallsInOrder'
  BY <1>1, <1>2, <1>3, PrevTypes DEF CallsInOrder, PreviewInv, PreviewOrder
<1>9. ~disordered' => PushesAnswered'
  BY <1>1, <1>2, <1>3, PrevTypes DEF PushesAnswered, PreviewInv, PreviewOrder, NoCommit
<1>10. ~disordered' => PushOnce'
  <2>1. \A b \in Actors : \A c \in Events \union {0} : Carries(b, c)' => b # a /\ Carries(b, c)
    BY <1>2, <1>3, PrevTypes DEF Carries
  <2>2. \A c \in Events : Begun(c)' => Begun(c)
    <3> SUFFICES ASSUME NEW c \in Events, Begun(c)' PROVE Begun(c)
      OBVIOUS
    <3>1. CASE actor'[<<c, "job">>].pc # "rest"
      BY <1>1, <1>2, <3>1, ActorFacts DEF Begun
    <3>3. CASE actor'[<<c, "call">>].pc # "rest" /\ actor'[<<c, "call">>].ref # c
      BY <1>1, <1>2, <1>3, <3>3, ActorFacts DEF Begun
    <3>2. ASSUME NEW y \in Previews, shows'[y].commit = c PROVE Begun(c)
      BY <1>1, <1>3, <3>2, ActorFacts DEF Begun
    <3> QED
      BY <3>1, <3>2, <3>3 DEF Begun
  <2>3. \A y \in Previews : hooks'[y] = hooks[y]
    BY <1>1
  <2> QED
    BY <1>1, <2>1, <2>2, <2>3, PrevTypes DEF PushOnce, PreviewInv, PreviewOrder, NoCommit
<1>11. ~disordered' /\ ~overtaken' => InTurn'
  BY <1>1, <1>2, <1>3, PrevTypes DEF InTurn, Pending, PreviewInv, PreviewTurn, NoCommit
<1>12. ~disordered' /\ ~overtaken' => OnItsWay'
  <2> SUFFICES ASSUME ~disordered, ~overtaken, answered # 0 PROVE OnItsWay'
    BY <1>1 DEF OnItsWay
  <2>1. InTurn /\ OnItsWay
    BY DEF PreviewInv, PreviewTurn
  <2>2. ASSUME events[answered] = "close"
        PROVE  \/ previews = {} \/ \E e \in undone' : e > answered
               \/ \E b \in Actors : Own(b)' /\ actor'[b].pc # "rest" /\ b[1] > answered
    BY <1>1, <1>2, <1>3, <2>1, <2>2 DEF OnItsWay
  <2>3. ASSUME NEW x \in previews, Reaches(x) PROVE answered \in undone' \/ Reaches(x)'
    <3>1. x \in Previews
      BY DEF PreviewInv, PreviewBase, PreviewTypeOK
    <3>2. CASE x # actor[a].id
      BY <1>1, <1>2, <2>3, <3>1, <3>2 DEF Reaches, Serves
    <3>3. CASE x = actor[a].id /\ a[1] = answered
      BY <1>1, <1>2, <1>3, <2>3, <3>1, <3>3 DEF Reaches, Serves
    <3>4. CASE x = actor[a].id /\ a[1] # answered
      <4>1. Pending(x)
        BY <1>1, <1>3, <2>1, <3>4 DEF InTurn
      <4> QED
        BY <1>1, <1>2, <3>4, <4>1 DEF Pending, Reaches, Serves
    <3> QED
      BY <3>2, <3>3, <3>4
  <2> QED
    BY <1>1, <2>1, <2>2, <2>3 DEF OnItsWay
<1>13. ~disordered' /\ undone' = {} => EnvCopied'
  <2> SUFFICES ASSUME ~disordered, undone = {} PROVE EnvCopied'
    BY <1>1
  <2>1. EnvCopied /\ previews \subseteq Previews
    BY DEF PreviewInv, PreviewEnv, PreviewBase, PreviewTypeOK
  <2>2. actor[a].env
    BY <1>1, <1>3, <2>1 DEF EnvCopied
  <2>4. \/ shows'[actor[a].id] = shows[actor[a].id]
        \/ shows'[actor[a].id].env = actor[a].env
    BY <1>1
  <2>5. shows[actor[a].id].commit # NoCommit => shows[actor[a].id].env
    BY <1>3, <2>1 DEF EnvCopied
  <2>6. shows'[actor[a].id].commit # NoCommit => shows'[actor[a].id].env
    BY <2>2, <2>4, <2>5, Zenon
  <2>3. \A x \in previews : shows'[x].commit # NoCommit => shows'[x].env
    BY <1>1, <2>1, <2>6 DEF EnvCopied
  <2> QED
    BY <1>1, <1>2, <2>1, <2>3 DEF EnvCopied
<1> QED
  BY <1>1, <1>4, <1>5, <1>6, <1>7, <1>8, <1>9, <1>10, <1>11, <1>12, <1>13
     DEF PreviewInv, PreviewBase, PreviewOrder,
     PreviewTurn, PreviewEnv

\* There is nothing in the queue.
LEMMA TakeNothing ==
  ASSUME PreviewInv, NEW a \in Actors, actor[a].pc = "take", hooks[actor[a].id] = NoCommit,
         TakeQueued(a)
  PROVE  PreviewInv'
<1>1. /\ UNCHANGED <<events, kept, created, previews, withEnv, busy, shows, troubles,
        accepted, forgotten,
                     newest, answered, undone, disordered, overtaken>>
      /\ hooks' = hooks /\ Turns(a, AtRest)
  BY PrevTypes, RestActor DEF TakeQueued, previewHistory, Turns, PreviewInv, PreviewBase,
     PreviewTypeOK
<1>2. /\ actor'[a].pc = "rest" /\ actor'[a].id = 0 /\ actor'[a].ref = 0
      /\ \A b \in Actors : b # a => actor'[b] = actor[b]
  BY <1>1, RestActor DEF Turns, NoCommit
<1>3. /\ ~Own(a)' /\ \A b \in Actors : b # a => (Own(b)' <=> Own(b))
      /\ Own(a) => a[1] \in undone
  BY <1>2, PrevTypes DEF Own, ActorOK, ActorsOK, PreviewInv, PreviewBase
<1>4. PreviewTypeOK'
  BY <1>1, ActorFacts, PrevTypes, PreviewNumbers
     DEF PreviewTypeOK, ActorRows, Turns, PreviewInv, PreviewBase, NoCommit
<1>5. (OneOpen /\ HistoryOK)'
  BY <1>1 DEF OneOpen, HistoryOK, PreviewInv, PreviewBase
<1>6. ActorsOK'
  <2> SUFFICES ASSUME NEW b \in Actors PROVE ActorOK(b)'
    BY DEF ActorsOK
  <2>1. ActorOK(b)
    BY DEF ActorsOK, PreviewInv, PreviewBase
  <2>2. CASE b = a
    BY <2>1, <2>2, <1>1, <1>2, <1>3, PrevTypes DEF ActorOK, NoCommit
  <2>3. CASE b # a
    BY <2>1, <2>3, <1>1, <1>2, <1>3 DEF ActorOK
  <2> QED
    BY <2>2, <2>3
<1>7. TakenOnce'
  BY <1>1, <1>2 DEF TakenOnce, HasApp, PreviewInv, PreviewBase
<1>8. ~disordered' => CallsInOrder'
  BY <1>1, <1>2, <1>3, PrevTypes DEF CallsInOrder, PreviewInv, PreviewOrder
<1>9. ~disordered' => PushesAnswered'
  BY <1>1, <1>2, <1>3, PrevTypes DEF PushesAnswered, PreviewInv, PreviewOrder, NoCommit
<1>10. ~disordered' => PushOnce'
  <2>1. \A b \in Actors : \A c \in Events \union {0} : Carries(b, c)' => b # a /\ Carries(b, c)
    BY <1>2, <1>3, PrevTypes DEF Carries
  <2>2. \A c \in Events : Begun(c)' => Begun(c)
    BY <1>1, <1>2, <1>3, ActorFacts, PrevTypes DEF Begun
  <2>3. \A y \in Previews : hooks'[y] = hooks[y]
    BY <1>1
  <2> QED
    BY <1>1, <2>1, <2>2, <2>3, PrevTypes DEF PushOnce, PreviewInv, PreviewOrder, NoCommit
<1>11. ~disordered' /\ ~overtaken' => InTurn'
  BY <1>1, <1>2, <1>3, PrevTypes DEF InTurn, Pending, PreviewInv, PreviewTurn, NoCommit
<1>12. ~disordered' /\ ~overtaken' => OnItsWay'
  <2> SUFFICES ASSUME ~disordered, ~overtaken, answered # 0 PROVE OnItsWay'
    BY <1>1 DEF OnItsWay
  <2>1. OnItsWay
    BY DEF PreviewInv, PreviewTurn
  <2>2. ASSUME events[answered] = "close"
        PROVE  \/ previews = {} \/ \E e \in undone : e > answered
               \/ \E b \in Actors : Own(b)' /\ actor'[b].pc # "rest" /\ b[1] > answered
    BY <1>1, <1>2, <1>3, <2>1, <2>2 DEF OnItsWay, Own
  <2>3. ASSUME NEW x \in previews, Reaches(x) PROVE Reaches(x)'
    BY <1>1, <1>2, <2>3 DEF Reaches, Serves, NoCommit
  <2> QED
    BY <1>1, <2>1, <2>2, <2>3 DEF OnItsWay
<1>13. ~disordered' /\ undone' = {} => EnvCopied'
  BY <1>1, <1>2, PrevTypes DEF EnvCopied, PreviewInv, PreviewEnv
<1> QED
  BY <1>1, <1>4, <1>5, <1>6, <1>7, <1>8, <1>9, <1>10, <1>11, <1>12, <1>13
     DEF PreviewInv, PreviewBase, PreviewOrder,
     PreviewTurn, PreviewEnv

\* run_queued_hook takes the push that waits.
LEMMA TakeStep ==
  ASSUME PreviewInv, NEW a \in Actors, actor[a].pc = "take", hooks[actor[a].id] # NoCommit,
         TakeQueued(a)
  PROVE  PreviewInv'
<1>1. /\ UNCHANGED <<events, kept, created, previews, withEnv, busy, shows, troubles,
        accepted, forgotten,
                     newest, answered, undone, disordered, overtaken>>
      /\ actor' \in [Actors -> ActorRows] /\ actor[a].id \in Previews
      /\ hooks' \in [Previews -> Events \union {NoCommit}] /\ hooks'[actor[a].id] = 0
      /\ \A y \in Previews : y # actor[a].id => hooks'[y] = hooks[y]
  BY PrevTypes, RestActor DEF TakeQueued, previewHistory, ActorRows, ActorPcs, AtRest,
     ActorsOK, ActorOK, PreviewInv, PreviewBase, PreviewTypeOK, NoCommit
<1>2. /\ actor'[a].pc = "read" /\ actor'[a].id = actor[a].id
        /\ actor'[a].ref = hooks[actor[a].id]
      /\ actor'[a].fresh = (hooks[actor[a].id] = newest)
      /\ \A b \in Actors : b # a => actor'[b] = actor[b]
  BY PrevTypes DEF TakeQueued, ActorRows, AtRest
<1>3. /\ \A b \in Actors : b # a => (Own(b)' <=> Own(b))
      /\ actor[a].ref \in {a[1], 0} /\ (Own(a) => a[1] \in undone)
      /\ ~disordered => ~Own(a)' /\ \A b \in Actors : ~Carries(b, hooks[actor[a].id])
  <2>1. /\ \A b \in Actors : b # a => (Own(b)' <=> Own(b))
        /\ actor[a].ref \in {a[1], 0} /\ (Own(a) => a[1] \in undone)
    BY <1>2, PrevTypes DEF Own, ActorOK, ActorsOK, PreviewInv, PreviewBase, NoCommit
  <2>2. ASSUME ~disordered PROVE \A b \in Actors : ~Carries(b, hooks[actor[a].id])
    BY <1>1, <2>2 DEF PushOnce, PreviewInv, PreviewOrder
  <2>3. ASSUME ~disordered, IsCall(a) PROVE hooks[actor[a].id] # a[1]
    <3>1. CASE actor[a].ref = a[1]
      BY <2>2, <2>3, <3>1 DEF Carries
    <3>2. CASE actor[a].ref = 0
      <4>1. a[1] \in Events /\ a = <<a[1], "call">> /\ a[1] # 0
        BY <2>3, ActorFacts, PrevTypes
      <4>2. Begun(a[1])
        BY <3>2, <4>1 DEF Begun
      <4> QED
        BY <1>1, <2>3, <4>1, <4>2 DEF PushOnce, PreviewInv, PreviewOrder
    <3> QED
      BY <2>1, <3>1, <3>2
  <2>4. ~disordered => ~Own(a)'
    BY <1>2, <2>3 DEF Own
  <2> QED
    BY <2>1, <2>2, <2>4
<1>4. PreviewTypeOK'
  BY <1>1, ActorFacts, PrevTypes, PreviewNumbers
     DEF PreviewTypeOK, ActorRows, Turns, PreviewInv, PreviewBase, NoCommit
<1>5. (OneOpen /\ HistoryOK)'
  <2>1. \A y \in Previews : hooks'[y] = 0 \/ hooks'[y] = hooks[y]
    BY <1>1
  <2>2. newest \in Nat
    BY PrevTypes
  <2>3. OneOpen'
    BY <1>1, <2>1 DEF OneOpen, PreviewInv, PreviewBase, NoCommit
  <2>4. \A y \in Previews :
          hooks'[y] <= newest /\ (hooks'[y] # 0 => events[hooks'[y]] = "push")
    BY <2>1, <2>2 DEF HistoryOK, PreviewInv, PreviewBase, NoCommit
  <2> QED
    BY <1>1, <2>3, <2>4 DEF HistoryOK, PreviewInv, PreviewBase, NoCommit
<1>6. ActorsOK'
  <2> SUFFICES ASSUME NEW b \in Actors PROVE ActorOK(b)'
    BY DEF ActorsOK
  <2>1. ActorOK(b)
    BY DEF ActorsOK, PreviewInv, PreviewBase
  <2>2. CASE b = a
    <3>1. /\ hooks[actor[a].id] # 0 /\ hooks[actor[a].id] <= newest
          /\ events[hooks[actor[a].id]] = "push"
      <4>1. HistoryOK /\ actor[a].id \in Previews
        BY <1>1 DEF PreviewInv, PreviewBase
      <4>2. \A x \in Previews : hooks[x] <= newest
              /\ (hooks[x] # 0 => events[hooks[x]] = "push")
        BY <4>1 DEF HistoryOK, NoCommit
      <4>3. hooks[actor[a].id] # 0
        BY DEF NoCommit
      <4> QED
        BY <4>1, <4>2, <4>3
    <3> QED
      BY <2>1, <2>2, <1>1, <1>2, <3>1 DEF ActorOK, NoCommit
  <2>3. CASE b # a
    BY <2>1, <2>3, <1>1, <1>2, <1>3 DEF ActorOK
  <2> QED
    BY <2>2, <2>3
<1>7. TakenOnce'
  BY <1>1, <1>2 DEF TakenOnce, HasApp, PreviewInv, PreviewBase
<1>8. ~disordered' => CallsInOrder'
  BY <1>1, <1>2, <1>3, PrevTypes DEF CallsInOrder, PreviewInv, PreviewOrder
<1>9. ~disordered' => PushesAnswered'
  <2> SUFFICES ASSUME ~disordered PROVE PushesAnswered'
    BY <1>1
  <2>1. PushesAnswered
    BY DEF PreviewInv, PreviewOrder
  <2>2. hooks[actor[a].id] # 0 /\ hooks[actor[a].id] <= answered
    BY <1>1, <2>1 DEF PushesAnswered, NoCommit
  <2>3. \A b \in Actors : ~Own(b)' => actor'[b].ref <= answered
    BY <1>2, <1>3, <2>1, <2>2 DEF PushesAnswered
  <2>4. \A x \in Previews : hooks'[x] = 0 \/ hooks'[x] = hooks[x]
    BY <1>1
  <2>5. ASSUME answered # 0, events[answered] = "close", NEW x \in previews, NEW b \in Actors,
               actor'[b].id = x, ~Own(b)'
        PROVE  actor'[b].pc \notin {"read", "lock", "start", "run", "insert", "pending", "decide"}
    <3>1. hooks[x] = 0
      BY <2>1, <2>5 DEF PushesAnswered, NoCommit
    <3>2. b # a
      BY <1>2, <2>2, <2>5, <3>1
    <3> QED
      BY <1>2, <1>3, <2>1, <2>5, <3>1, <3>2 DEF PushesAnswered
  <2>6. \A x \in Previews : hooks'[x] <= answered /\ shows[x].commit <= answered
    BY <2>1, <2>4, PrevTypes DEF PushesAnswered
  <2>7. ASSUME answered # 0, events[answered] = "close", NEW x \in previews
        PROVE  hooks'[x] = 0
    <3>1. x \in Previews
      BY DEF PreviewInv, PreviewBase, PreviewTypeOK
    <3> QED
      BY <2>1, <2>4, <2>7, <3>1 DEF PushesAnswered, NoCommit
  <2> QED
    BY <1>1, <2>3, <2>5, <2>6, <2>7 DEF PushesAnswered, NoCommit
<1>10. ~disordered' => PushOnce'
  <2> DEFINE x == actor[a].id
  <2>1. \A b \in Actors : \A c \in Events \union {0} : b # a => (Carries(b,
          c)' <=> Carries(b, c))
    BY <1>2 DEF Carries
  <2>2. \A c \in Events \union {0} : Carries(a, c)' => c = hooks[x]
    BY <1>2, PrevTypes DEF Carries
  <2>3. \A c \in Events : Begun(c)' => Begun(c) \/ Carries(a, c)
    <3> SUFFICES ASSUME NEW c \in Events, Begun(c)' PROVE Begun(c) \/ Carries(a, c)
      OBVIOUS
    <3>0. /\ <<c, "job">> \in Actors /\ <<c, "call">> \in Actors
          /\ IsCall(<<c, "call">>) /\ <<c, "call">>[1] = c
      BY ActorFacts
    <3>1. CASE actor'[<<c, "job">>].pc # "rest"
      BY <1>2, <3>0, <3>1 DEF Begun
    <3>2. CASE actor'[<<c, "call">>].pc # "rest" /\ actor'[<<c, "call">>].ref # c
      BY <1>2, <3>0, <3>2 DEF Begun, Carries
    <3> QED
      BY <1>1, <3>1, <3>2 DEF Begun
  <2>4. \A y \in Previews : hooks'[y] = 0 \/ (y # x /\ hooks'[y] = hooks[y])
    BY <1>1
  <2>5. ~disordered => PushOnce /\ hooks[x] # 0 /\ x \in Previews
          /\ \A b \in Actors : ~Carries(b, hooks[x])
    BY <1>1, <1>3 DEF PreviewInv, PreviewOrder, NoCommit
  <2> HIDE DEF x
  <2> SUFFICES ASSUME ~disordered PROVE PushOnce'
    BY <1>1
  <2>6. \A b, d \in Actors : \A c \in Events : Carries(b, c)' /\ Carries(d, c)' => b = d
    BY <2>1, <2>2, <2>5 DEF PushOnce
  <2>7. \A b \in Actors : \A y \in Previews : \A c \in Events : hooks'[y] = c =>
          ~Carries(b, c)'
    BY <2>1, <2>2, <2>4, <2>5, PrevTypes DEF PushOnce, NoCommit
  <2>9. \A y \in Previews : hooks'[y] # 0 => hooks'[y] \in Events
    BY <2>4, PrevTypes
  <2>8. \A c \in Events : Begun(c)' =>
          (\A b \in Actors : ~Carries(b, c)') /\ \A y \in Previews : hooks'[y] # c
    <3> SUFFICES ASSUME NEW c \in Events, Begun(c)'
                 PROVE  /\ \A b \in Actors : ~Carries(b, c)'
                        /\ \A y \in Previews : hooks'[y] # c
      OBVIOUS
    <3>1. \A b \in Actors : b # a => ~Carries(b, c)
      BY <2>3, <2>5 DEF PushOnce
    <3>2. ASSUME NEW y \in Previews, hooks[y] = c PROVE FALSE
      <4>1. hooks[y] # 0 /\ ~Begun(c)
        BY <2>5, <3>2, PrevTypes DEF PushOnce
      <4>2. ~Carries(a, c)
        BY <2>5, <3>2, <4>1 DEF PushOnce, NoCommit
      <4> QED
        BY <2>3, <4>1, <4>2
    <3> QED
      BY <2>1, <2>2, <2>4, <2>5, <3>1, <3>2, PrevTypes
  <2> QED
    BY <1>1, <2>4, <2>5, <2>6, <2>7, <2>8, <2>9 DEF PushOnce, NoCommit
<1>11. ~disordered' /\ ~overtaken' => InTurn'
  <2> SUFFICES ASSUME ~disordered, ~overtaken PROVE InTurn'
    BY <1>1
  <2> DEFINE x == actor[a].id
  <2>1. InTurn /\ ~Own(a)'
    BY <1>3 DEF PreviewInv, PreviewTurn
  <2>2. x \in previews => hooks[x] = answered /\ hooks[x] = newest
    BY <2>1 DEF InTurn
  <2>3. \A y \in Previews : hooks'[y] = 0 \/ (y # x /\ hooks'[y] = hooks[y])
    BY <1>1
  <2>4. \A y \in previews : y \in Previews /\ (Pending(y) => Pending(y)')
    BY <1>1, <1>2, <2>2, ZenonT(40) DEF Pending, PreviewInv, PreviewBase, PreviewTypeOK
  <2>5. \A y \in previews : hooks'[y] # NoCommit => hooks'[y] = answered /\ hooks'[y] = newest
    BY <2>1, <2>3, <2>4 DEF InTurn, NoCommit
  <2>6. ASSUME NEW b \in Actors, NEW y \in previews, actor'[b].id = y
        PROVE  /\ actor'[b].pc \in {"read", "lock"} /\ ~Own(b)' => actor'[b].fresh
               /\ actor'[b].pc \in {"start", "run", "decide"} /\ ~Own(b)' =>
                    actor'[b].ref = answered \/ Pending(y)'
               /\ actor'[b].pc = "start" /\ Own(b)' => hooks'[y] = NoCommit
    <3>1. CASE b = a
      BY <1>2, <2>1, <2>2, <2>6, <3>1
    <3>2. CASE b # a
      BY <1>2, <1>3, <2>1, <2>3, <2>4, <2>6, <3>2 DEF InTurn, NoCommit
    <3> QED
      BY <3>1, <3>2
  <2> QED
    BY <1>1, <2>5, <2>6 DEF InTurn
<1>12. ~disordered' /\ ~overtaken' => OnItsWay'
  <2> SUFFICES ASSUME ~disordered, ~overtaken, answered # 0 PROVE OnItsWay'
    BY <1>1 DEF OnItsWay
  <2>1. OnItsWay /\ InTurn
    BY DEF PreviewInv, PreviewTurn
  <2>2. ASSUME events[answered] = "close"
        PROVE  \/ previews = {} \/ \E e \in undone : e > answered
               \/ \E b \in Actors : Own(b)' /\ actor'[b].pc # "rest" /\ b[1] > answered
    BY <1>1, <1>2, <1>3, <2>1, <2>2 DEF OnItsWay, Own
  <2>3. ASSUME NEW x \in previews, Reaches(x) PROVE Reaches(x)'
    <3>1. x \in Previews
      BY DEF PreviewInv, PreviewBase, PreviewTypeOK
    <3>2. CASE x # actor[a].id
      BY <1>1, <1>2, <2>3, <3>1, <3>2 DEF Reaches, Serves
    <3>3. CASE x = actor[a].id
      <4>1. hooks[x] = answered
        BY <2>1, <3>3 DEF InTurn
      <4> QED
        BY <1>1, <1>2, <3>3, <4>1 DEF Reaches
    <3> QED
      BY <3>2, <3>3
  <2> QED
    BY <1>1, <2>1, <2>2, <2>3 DEF OnItsWay
<1>13. ~disordered' /\ undone' = {} => EnvCopied'
  BY <1>1, <1>2, PrevTypes DEF EnvCopied, PreviewInv, PreviewEnv
<1> QED
  BY <1>1, <1>4, <1>5, <1>6, <1>7, <1>8, <1>9, <1>10, <1>11, <1>12, <1>13
     DEF PreviewInv, PreviewBase, PreviewOrder,
     PreviewTurn, PreviewEnv

\* The row of the deployment is refused, or a pending one is rejected.
LEMMA StartFails ==
  ASSUME PreviewInv, NEW a \in Actors, actor[a].pc \in {"start", "decide"},
         Turns(a, AtRest),
         undone' = undone \union ({a[1], actor[a].ref, hooks[actor[a].id]} \ {0}),
         busy' = busy \ {actor[a].id}, troubles' \in 0..MaxTroubles,
         UNCHANGED <<events, kept, created, previews, withEnv, hooks, shows, accepted,
                     forgotten, newest, answered, disordered, overtaken>>
  PROVE  PreviewInv'
<1>1. actor' \in [Actors -> ActorRows] /\ actor[a].id \in Previews /\ undone' \subseteq Events
  <2>1. actor[a].id \in Previews /\ a[1] \in Events /\ undone \subseteq Events
    BY ActorFacts DEF ActorsOK, ActorOK, PreviewInv, PreviewBase, PreviewTypeOK
  <2>2. hooks[actor[a].id] \in Events \union {0} /\ actor[a].ref \in Events \union {0}
    BY <2>1, PrevTypes
  <2> QED
    BY <2>1, <2>2 DEF Turns
<1>2. /\ actor'[a].pc = "rest" /\ actor'[a].id = 0 /\ actor'[a].ref = 0
      /\ \A b \in Actors : b # a => actor'[b] = actor[b]
  BY <1>1, RestActor DEF Turns, NoCommit
<1>3. /\ ~Own(a)' /\ \A b \in Actors : b # a => (Own(b)' <=> Own(b))
  BY <1>2, PrevTypes DEF Own, ActorOK, ActorsOK, PreviewInv, PreviewBase
<1>4. PreviewTypeOK'
  BY <1>1, ActorFacts, PrevTypes, PreviewNumbers
     DEF PreviewTypeOK, ActorRows, Turns, PreviewInv, PreviewBase, NoCommit
<1>5. (OneOpen /\ HistoryOK)'
  BY <1>1 DEF OneOpen, HistoryOK, PreviewInv, PreviewBase
<1>6. ActorsOK'
  <2> SUFFICES ASSUME NEW b \in Actors PROVE ActorOK(b)'
    BY DEF ActorsOK
  <2>1. ActorOK(b)
    BY DEF ActorsOK, PreviewInv, PreviewBase
  <2>2. CASE b = a
    BY <2>1, <2>2, <1>1, <1>2, <1>3, PrevTypes DEF ActorOK, NoCommit
  <2>3. CASE b # a
    BY <2>1, <2>3, <1>1, <1>2, <1>3 DEF ActorOK
  <2> QED
    BY <2>2, <2>3
<1>7. TakenOnce'
  BY <1>1, <1>2 DEF TakenOnce, HasApp, PreviewInv, PreviewBase
<1>8. ~disordered' => CallsInOrder'
  BY <1>1, <1>2, <1>3, PrevTypes DEF CallsInOrder, PreviewInv, PreviewOrder
<1>9. ~disordered' => PushesAnswered'
  BY <1>1, <1>2, <1>3, PrevTypes DEF PushesAnswered, PreviewInv, PreviewOrder, NoCommit
<1>10. ~disordered' => PushOnce'
  <2>1. \A b \in Actors : \A c \in Events \union {0} : Carries(b, c)' => b # a /\ Carries(b, c)
    BY <1>2, <1>3, PrevTypes DEF Carries
  <2>2. \A c \in Events : Begun(c)' => Begun(c)
    BY <1>1, <1>2, <1>3, ActorFacts, PrevTypes DEF Begun
  <2>3. \A y \in Previews : hooks'[y] = hooks[y]
    BY <1>1
  <2> QED
    BY <1>1, <2>1, <2>2, <2>3, PrevTypes DEF PushOnce, PreviewInv, PreviewOrder, NoCommit
<1>11. ~disordered' /\ ~overtaken' => InTurn'
  BY <1>1, <1>2, <1>3, PrevTypes DEF InTurn, Pending, PreviewInv, PreviewTurn, NoCommit
<1>12. ~disordered' /\ ~overtaken' => OnItsWay'
  BY <1>1, <1>2, <1>3, PrevTypes
     DEF OnItsWay, Reaches, Serves, PreviewInv, PreviewTurn, PreviewOrder, CallsInOrder,
       NoCommit
<1>13. ~disordered' /\ undone' = {} => EnvCopied'
  BY PrevTypes
<1> QED
  BY <1>1, <1>4, <1>5, <1>6, <1>7, <1>8, <1>9, <1>10, <1>11, <1>12, <1>13
     DEF PreviewInv, PreviewBase, PreviewOrder,
     PreviewTurn, PreviewEnv

\* The deletion fails, with the containers removed or not.
LEMMA RemoveFails ==
  ASSUME PreviewInv, NEW a \in Actors, actor[a].pc = "remove",
         Turns(a, [actor[a] EXCEPT !.pc = "take"]),
         busy' = busy \ {actor[a].id}, troubles' \in 0..MaxTroubles,
         shows' \in {shows, [shows EXCEPT ![actor[a].id] = NotShown]},
         undone' = undone \union ({a[1], answered} \ {0}),
         UNCHANGED <<events, kept, created, previews, withEnv, hooks, accepted,
                     forgotten, newest, answered, disordered, overtaken>>
  PROVE  PreviewInv'
<1>1. /\ actor' \in [Actors -> ActorRows] /\ actor[a].id \in Previews
      /\ undone' \subseteq Events
      /\ shows' \in [Previews -> [commit : Events \union {NoCommit}, env : BOOLEAN]]
      /\ \A y \in Previews : shows'[y] = shows[y] \/ shows'[y].commit = 0
  <2>1. actor[a].id \in Previews /\ a[1] \in Events /\ undone \subseteq Events
    BY ActorFacts DEF ActorsOK, ActorOK, PreviewInv, PreviewBase, PreviewTypeOK
  <2>2. /\ shows \in [Previews -> [commit : Events \union {NoCommit}, env : BOOLEAN]]
        /\ answered \in Events \union {0}
    BY DEF PreviewInv, PreviewBase, PreviewTypeOK, Events
  <2>3. NotShown \in [commit : Events \union {NoCommit}, env : BOOLEAN] /\ NotShown.commit = 0
    BY DEF NotShown, NoCommit
  <2>4. undone' \subseteq Events
    BY <2>1, <2>2
  <2>5. actor' \in [Actors -> ActorRows]
    BY DEF Turns
  <2>6. CASE shows' = shows
    BY <2>1, <2>2, <2>4, <2>5, <2>6
  <2>7. CASE shows' = [shows EXCEPT ![actor[a].id] = NotShown]
    BY <2>1, <2>2, <2>3, <2>4, <2>5, <2>7
  <2> QED
    BY <2>6, <2>7
<1>2. /\ actor'[a].pc = "take" /\ actor'[a].id = actor[a].id /\ actor'[a].ref = actor[a].ref
      /\ \A b \in Actors : b # a => actor'[b] = actor[b]
  BY PrevTypes DEF Turns, ActorRows
<1>3. /\ \A b \in Actors : Own(b)' <=> Own(b)
      /\ Own(a) /\ IsCall(a) /\ actor[a].ref = a[1]
  BY <1>2, PrevTypes DEF Own, ActorOK, ActorsOK, PreviewInv, PreviewBase
<1>4. PreviewTypeOK'
  BY <1>1, ActorFacts, PrevTypes, PreviewNumbers
     DEF PreviewTypeOK, ActorRows, Turns, PreviewInv, PreviewBase, NoCommit
<1>5. (OneOpen /\ HistoryOK)'
  BY <1>1 DEF OneOpen, HistoryOK, PreviewInv, PreviewBase, NoCommit
<1>6. ActorsOK'
  <2> SUFFICES ASSUME NEW b \in Actors PROVE ActorOK(b)'
    BY DEF ActorsOK
  <2>1. ActorOK(b)
    BY DEF ActorsOK, PreviewInv, PreviewBase
  <2>2. CASE b = a
    BY <2>1, <2>2, <1>1, <1>2, <1>3, PrevTypes DEF ActorOK, NoCommit
  <2>3. CASE b # a
    BY <2>1, <2>3, <1>1, <1>2, <1>3 DEF ActorOK
  <2> QED
    BY <2>2, <2>3
<1>7. TakenOnce'
  BY <1>1, <1>2 DEF TakenOnce, HasApp, PreviewInv, PreviewBase
<1>8. ~disordered' => CallsInOrder'
  BY <1>1, <1>2, <1>3, PrevTypes DEF CallsInOrder, PreviewInv, PreviewOrder
<1>9. ~disordered' => PushesAnswered'
  BY <1>1, <1>2, <1>3, PrevTypes DEF PushesAnswered, PreviewInv, PreviewOrder, NoCommit
<1>10. ~disordered' => PushOnce'
  <2>1. \A b \in Actors : \A c \in Events \union {0} : Carries(b, c)' => Carries(b, c)
    BY <1>2, <1>3, PrevTypes DEF Carries
  <2>2. \A c \in Events : Begun(c)' => Begun(c)
    BY <1>1, <1>2, <1>3, ActorFacts, PrevTypes, ZenonT(40) DEF Begun
  <2>3. \A y \in Previews : hooks'[y] = hooks[y]
    BY <1>1
  <2> QED
    BY <1>1, <2>1, <2>2, <2>3, PrevTypes DEF PushOnce, PreviewInv, PreviewOrder, NoCommit
<1>11. ~disordered' /\ ~overtaken' => InTurn'
  BY <1>1, <1>2, <1>3, PrevTypes, SMTT(30)
     DEF InTurn, Pending, PreviewInv, PreviewTurn, NoCommit
<1>12. ~disordered' /\ ~overtaken' => OnItsWay'
  BY <1>1, <1>2, <1>3, PrevTypes
     DEF OnItsWay, Reaches, Serves, PreviewInv, PreviewTurn, PreviewOrder, CallsInOrder,
       NoCommit
<1>13. ~disordered' /\ undone' = {} => EnvCopied'
  BY PrevTypes
<1> QED
  BY <1>1, <1>4, <1>5, <1>6, <1>7, <1>8, <1>9, <1>10, <1>11, <1>12, <1>13
     DEF PreviewInv, PreviewBase, PreviewOrder,
     PreviewTurn, PreviewEnv

\* The preview is deleted.
LEMMA RemoveStep ==
  ASSUME PreviewInv, NEW a \in Actors, actor[a].pc = "remove", actor[a].id \in previews,
         Turns(a, AtRest), answered' = a[1], busy' = busy \ {actor[a].id},
         previews' = previews \ {actor[a].id}, withEnv' = withEnv \ {actor[a].id},
         hooks' = [hooks EXCEPT ![actor[a].id] = NoCommit],
         shows' = [shows EXCEPT ![actor[a].id] = NotShown],
         UNCHANGED <<events, kept, created, troubles, accepted, forgotten, newest, undone,
                     disordered, overtaken>>
  PROVE  PreviewInv'
<1>1. /\ actor' \in [Actors -> ActorRows] /\ actor[a].id \in Previews /\ previews' = {}
      /\ hooks' \in [Previews -> Events \union {NoCommit}]
      /\ \A y \in Previews : hooks'[y] = 0 \/ (y # actor[a].id /\ hooks'[y] = hooks[y])
      /\ shows' \in [Previews -> [commit : Events \union {NoCommit}, env : BOOLEAN]]
      /\ \A y \in Previews : shows'[y] = shows[y] \/ shows'[y].commit = 0
  <2>1. actor[a].id \in Previews /\ previews \subseteq Previews
    BY DEF ActorsOK, ActorOK, PreviewInv, PreviewBase, PreviewTypeOK
  <2>2. /\ shows \in [Previews -> [commit : Events \union {NoCommit}, env : BOOLEAN]]
        /\ hooks \in [Previews -> Events \union {NoCommit}]
    BY DEF PreviewInv, PreviewBase, PreviewTypeOK
  <2>3. NotShown \in [commit : Events \union {NoCommit}, env : BOOLEAN] /\ NotShown.commit = 0
    BY DEF NotShown, NoCommit
  <2>4. previews' = {}
    BY DEF OneOpen, PreviewInv, PreviewBase
  <2>5. actor' \in [Actors -> ActorRows]
    BY DEF Turns
  <2> QED
    BY <2>1, <2>2, <2>3, <2>4, <2>5 DEF NoCommit
<1>2. /\ actor'[a].pc = "rest" /\ actor'[a].id = 0 /\ actor'[a].ref = 0
      /\ \A b \in Actors : b # a => actor'[b] = actor[b]
  BY <1>1, RestActor DEF Turns, NoCommit
<1>3. /\ ~Own(a)' /\ \A b \in Actors : b # a => (Own(b)' <=> Own(b))
      /\ Own(a) /\ IsCall(a) /\ a[1] \in accepted /\ events[a[1]] = "close"
  BY <1>2, PrevTypes DEF Own, ActorOK, ActorsOK, PreviewInv, PreviewBase
<1>4. PreviewTypeOK'
  BY <1>1, ActorFacts, PrevTypes, PreviewNumbers
     DEF PreviewTypeOK, ActorRows, Turns, PreviewInv, PreviewBase, NoCommit
<1>5. (OneOpen /\ HistoryOK)'
  <2>1. newest \in Nat /\ created \in Nat /\ \A y \in Previews : y \in Nat
    BY PrevTypes
  <2>2. OneOpen'
    BY <1>1, <2>1 DEF OneOpen, PreviewInv, PreviewBase, NoCommit
  <2>3. HistoryOK'
    BY <1>1, <1>3, <2>1 DEF HistoryOK, PreviewInv, PreviewBase, NoCommit
  <2> QED
    BY <2>2, <2>3
<1>6. ActorsOK'
  <2> SUFFICES ASSUME NEW b \in Actors PROVE ActorOK(b)'
    BY DEF ActorsOK
  <2>1. ActorOK(b)
    BY DEF ActorsOK, PreviewInv, PreviewBase
  <2>2. CASE b = a
    BY <2>2, <1>1, <1>2, <1>3, PrevTypes DEF ActorOK, NoCommit
  <2>3. CASE b # a
    <3>1. actor[b].pc \notin {"run", "decide"}
      BY <2>1, <2>3, <1>1 DEF ActorOK, TakenOnce, HasApp, OneOpen, PreviewInv, PreviewBase
    <3> QED
      BY <2>1, <2>3, <1>1, <1>2, <1>3, <3>1 DEF ActorOK
  <2> QED
    BY <2>2, <2>3
<1>7. TakenOnce'
  BY <1>1, <1>2 DEF TakenOnce, HasApp, PreviewInv, PreviewBase
<1>8. ~disordered' => CallsInOrder'
  <2>1. \A b \in Actors : Own(b) => IsCall(b)
    BY DEF Own
  <2> QED
    BY <1>1, <1>2, <1>3, <2>1, PrevTypes DEF CallsInOrder, PreviewInv, PreviewOrder
<1>9. ~disordered' => PushesAnswered'
  <2> SUFFICES ASSUME ~disordered PROVE PushesAnswered'
    OBVIOUS
  <2>1. PushesAnswered /\ answered < a[1]
    BY <1>3 DEF PreviewInv, PreviewOrder, CallsInOrder
  <2>2. \A b \in Actors : ~Own(b)' => actor'[b].ref <= a[1]
    BY <1>2, <1>3, <2>1, PrevTypes DEF PushesAnswered
  <2>3. \A x \in Previews : hooks'[x] <= a[1] /\ shows'[x].commit <= a[1]
    BY <1>1, <2>1, PrevTypes DEF PushesAnswered
  <2> QED
    BY <1>1, <2>2, <2>3 DEF PushesAnswered
<1>10. ~disordered' => PushOnce'
  <2>1. \A b \in Actors : \A c \in Events \union {0} : Carries(b, c)' => b # a /\ Carries(b, c)
    BY <1>2, PrevTypes DEF Carries
  <2>2. \A c \in Events : Begun(c)' => Begun(c)
    BY <1>1, <1>2, ActorFacts, PrevTypes, ZenonT(40) DEF Begun
  <2>3. \A y \in Previews : hooks'[y] = 0 \/ hooks'[y] = hooks[y]
    BY <1>1
  <2> QED
    BY <1>1, <2>1, <2>2, <2>3, PrevTypes DEF PushOnce, PreviewInv, PreviewOrder, NoCommit
<1>11. ~disordered' /\ ~overtaken' => InTurn'
  BY <1>1 DEF InTurn
<1>12. ~disordered' /\ ~overtaken' => OnItsWay'
  BY <1>1, <1>3 DEF OnItsWay
<1>13. ~disordered' /\ undone' = {} => EnvCopied'
  BY <1>1 DEF EnvCopied
<1> QED
  BY <1>1, <1>4, <1>5, <1>6, <1>7, <1>8, <1>9, <1>10, <1>11, <1>12, <1>13
     DEF PreviewInv, PreviewBase, PreviewOrder,
     PreviewTurn, PreviewEnv

\* lock_or_queue_hook takes the app.
LEMMA LockStep ==
  ASSUME PreviewInv, NEW a \in Actors, actor[a].pc = "lock", actor[a].id \notin busy,
         Turns(a, [actor[a] EXCEPT !.pc = "start"]),
         newest' = IF actor[a].ref > newest THEN actor[a].ref ELSE newest,
         overtaken' = (\/ overtaken \/ (actor[a].fresh /\ actor[a].ref < newest)
                       \/ hooks[actor[a].id] # NoCommit),
         busy' = busy \union {actor[a].id},
         UNCHANGED <<events, kept, created, previews, withEnv, hooks, shows, troubles,
                     accepted, forgotten, answered, undone, disordered>>
  PROVE  PreviewInv'
<1>1. /\ actor' \in [Actors -> ActorRows] /\ actor[a].id \in Previews /\ actor[a].id <= created
      /\ newest' \in Nat /\ newest <= newest' /\ actor[a].ref <= newest'
      /\ newest' = newest \/ (newest' = actor[a].ref /\ Own(a))
      /\ overtaken' \in BOOLEAN
  BY PrevTypes DEF Turns, ActorsOK, ActorOK, PreviewInv, PreviewBase
<1>2. /\ actor'[a].pc = "start" /\ actor'[a].id = actor[a].id /\ actor'[a].ref = actor[a].ref
      /\ \A b \in Actors : b # a => actor'[b] = actor[b]
  BY PrevTypes DEF Turns, ActorRows
<1>3. /\ \A b \in Actors : Own(b)' <=> Own(b)
      /\ actor[a].ref # 0 /\ (Own(a) => a[1] \in accepted /\ actor[a].ref = a[1])
  BY <1>2, PrevTypes DEF Own, ActorOK, ActorsOK, PreviewInv, PreviewBase, NoCommit
<1>4. PreviewTypeOK'
  BY <1>1, ActorFacts, PrevTypes, PreviewNumbers, SMTT(30)
     DEF PreviewTypeOK, ActorRows, Turns, PreviewInv, PreviewBase, NoCommit
<1>5. (OneOpen /\ HistoryOK)'
  BY <1>1, <1>3, PrevTypes DEF OneOpen, HistoryOK, PreviewInv, PreviewBase
<1>6. ActorsOK'
  <2> SUFFICES ASSUME NEW b \in Actors PROVE ActorOK(b)'
    BY DEF ActorsOK
  <2>1. ActorOK(b)
    BY DEF ActorsOK, PreviewInv, PreviewBase
  <2>2. CASE b = a
    BY <2>1, <2>2, <1>1, <1>2, <1>3, PrevTypes, PrevTypes DEF ActorOK, NoCommit
  <2>3. CASE b # a
    BY <2>1, <2>3, <1>1, <1>2, <1>3, PrevTypes DEF ActorOK
  <2> QED
    BY <2>2, <2>3
<1>7. TakenOnce'
  BY <1>1, <1>2 DEF TakenOnce, HasApp, PreviewInv, PreviewBase
<1>8. ~disordered' => CallsInOrder'
  BY <1>1, <1>2, <1>3, PrevTypes DEF CallsInOrder, PreviewInv, PreviewOrder
<1>9. ~disordered' => PushesAnswered'
  BY <1>1, <1>2, <1>3, PrevTypes DEF PushesAnswered, PreviewInv, PreviewOrder, NoCommit
<1>10. ~disordered' => PushOnce'
  <2>1. \A b \in Actors : \A c \in Events \union {0} : Carries(b, c)' => Carries(b, c)
    BY <1>2, <1>3, PrevTypes DEF Carries
  <2>2. \A c \in Events : Begun(c)' => Begun(c)
    BY <1>1, <1>2, <1>3, ActorFacts, PrevTypes DEF Begun
  <2>3. \A y \in Previews : hooks'[y] = hooks[y]
    BY <1>1
  <2> QED
    BY <1>1, <2>1, <2>2, <2>3, PrevTypes DEF PushOnce, PreviewInv, PreviewOrder, NoCommit
<1>11. ~disordered' /\ ~overtaken' => InTurn'
  <2> SUFFICES ASSUME ~disordered, ~overtaken' PROVE InTurn'
    BY <1>1
  <2>1. InTurn /\ ~overtaken /\ hooks[actor[a].id] = 0 /\ ~(actor[a].fresh
          /\ actor[a].ref < newest)
    BY DEF PreviewInv, PreviewTurn, NoCommit
  <2>2. PushesAnswered /\ CallsInOrder
    BY DEF PreviewInv, PreviewOrder
  <2>3. \A y \in previews : hooks[y] # 0 => y # actor[a].id
    BY <2>1
  <2>4. newest' = newest \/ (Own(a) /\ actor[a].id \in previews)
    BY <1>1, <2>2 DEF CallsInOrder
  <2>5. \A y \in previews : hooks[y] # NoCommit => hooks[y] = answered /\ hooks[y] = newest'
    BY <2>1, <2>3, <2>4 DEF InTurn, OneOpen, PreviewInv, PreviewBase, NoCommit
  <2>6. ASSUME ~Own(a), actor[a].id \in previews PROVE actor[a].ref = answered
    BY <2>1, <2>6, LastTaken
  <2>7. \A y \in previews : Pending(y) => Pending(y)' \/ (y = actor[a].id
          /\ actor[a].ref = answered)
    BY <1>2 DEF Pending
  <2>8. ASSUME NEW b \in Actors, NEW y \in previews, actor'[b].id = y
        PROVE  /\ actor'[b].pc \in {"read", "lock"} /\ ~Own(b)' => actor'[b].fresh
               /\ actor'[b].pc \in {"start", "run", "decide"} /\ ~Own(b)' =>
                    actor'[b].ref = answered \/ Pending(y)'
               /\ actor'[b].pc = "start" /\ Own(b)' => hooks[y] = NoCommit
    <3>1. CASE b = a
      BY <1>2, <1>3, <2>1, <2>6, <2>8, <3>1 DEF NoCommit
    <3>2. CASE b # a
      <4>1. actor'[b] = actor[b] /\ (Own(b)' <=> Own(b)) /\ y \in Previews
        BY <1>2, <1>3, <3>2 DEF PreviewInv, PreviewBase, PreviewTypeOK
      <4>2. actor[b].pc \in {"start", "run", "decide"} => y # actor[a].id
        BY <2>8, <4>1 DEF TakenOnce, HasApp, PreviewInv, PreviewBase
      <4> QED
        BY <2>1, <2>7, <2>8, <4>1, <4>2 DEF InTurn
    <3> QED
      BY <3>1, <3>2
  <2> QED
    BY <1>1, <2>5, <2>8 DEF InTurn
<1>12. ~disordered' /\ ~overtaken' => OnItsWay'
  <2> SUFFICES ASSUME ~disordered, ~overtaken, answered # 0 PROVE OnItsWay'
    BY DEF OnItsWay, PreviewInv
  <2>1. OnItsWay
    BY DEF PreviewInv, PreviewTurn
  <2>2. \A x \in previews : Reaches(x) => Reaches(x)'
    BY <1>1, <1>2 DEF Reaches, Serves
  <2> QED
    BY <1>1, <1>2, <1>3, <2>1, <2>2 DEF OnItsWay
<1>13. ~disordered' /\ undone' = {} => EnvCopied'
  BY <1>1, <1>2, PrevTypes DEF EnvCopied, PreviewInv, PreviewEnv
<1> QED
  BY <1>1, <1>4, <1>5, <1>6, <1>7, <1>8, <1>9, <1>10, <1>11, <1>12, <1>13
     DEF PreviewInv, PreviewBase, PreviewOrder,
     PreviewTurn, PreviewEnv

\* lock_or_queue_hook queues the push.
LEMMA QueueStep ==
  ASSUME PreviewInv, NEW a \in Actors, actor[a].pc = "lock", actor[a].id \in busy,
         Turns(a, AtRest), hooks' = [hooks EXCEPT ![actor[a].id] = actor[a].ref],
         newest' = IF actor[a].ref > newest THEN actor[a].ref ELSE newest,
         overtaken' = (overtaken \/ (actor[a].fresh /\ actor[a].ref < newest)),
         answered' = IF Own(a) THEN a[1] ELSE answered,
         UNCHANGED <<events, kept, created, previews, withEnv, busy, shows, troubles,
                     accepted, forgotten, undone, disordered>>
  PROVE  PreviewInv'
<1>1. /\ actor' \in [Actors -> ActorRows] /\ actor[a].id \in Previews /\ actor[a].id <= created
      /\ newest' \in Nat /\ newest <= newest' /\ actor[a].ref <= newest'
      /\ newest' = newest \/ (newest' = actor[a].ref /\ Own(a))
      /\ overtaken' \in BOOLEAN /\ hooks' \in [Previews -> Events \union {NoCommit}]
      /\ hooks'[actor[a].id] = actor[a].ref
      /\ \A y \in Previews : y # actor[a].id => hooks'[y] = hooks[y]
  <2>1. /\ actor[a].id \in Previews /\ actor[a].id <= created /\ overtaken \in BOOLEAN
        /\ ~Own(a) => actor[a].ref <= newest
    BY DEF ActorsOK, ActorOK, PreviewInv, PreviewBase
  <2>2. /\ hooks \in [Previews -> Events \union {NoCommit}]
        /\ actor[a].ref \in Events \union {NoCommit}
    BY PrevTypes DEF PreviewInv, PreviewBase, PreviewTypeOK, NoCommit
  <2>3. actor' \in [Actors -> ActorRows]
    BY DEF Turns
  <2>4. hooks' \in [Previews -> Events \union {NoCommit}]
    BY <2>1, <2>2
  <2>5. /\ hooks'[actor[a].id] = actor[a].ref
        /\ \A y \in Previews : y # actor[a].id => hooks'[y] = hooks[y]
    BY <2>1, <2>2
  <2> QED
    BY <2>1, <2>3, <2>4, <2>5, PrevTypes
<1>2. /\ actor'[a].pc = "rest" /\ actor'[a].id = 0 /\ actor'[a].ref = 0
      /\ \A b \in Actors : b # a => actor'[b] = actor[b]
  BY <1>1, RestActor DEF Turns, NoCommit
<1>3. /\ ~Own(a)' /\ \A b \in Actors : b # a => (Own(b)' <=> Own(b))
      /\ actor[a].ref # 0 /\ actor[a].ref \in Events /\ events[actor[a].ref] = "push"
      /\ Own(a) => /\ a[1] \in accepted /\ actor[a].ref = a[1] /\ IsCall(a) /\ answered' = a[1]
                   /\ ~disordered => /\ answered < a[1] /\ newest' = a[1]
                                     /\ actor[a].id \in previews
                                     /\ \A b \in Actors : Own(b)
                                          /\ actor[b].pc # "rest" => b = a
      /\ ~Own(a) => answered' = answered
  <2>1. ~Own(a)' /\ \A b \in Actors : b # a => (Own(b)' <=> Own(b))
    BY <1>2, PrevTypes DEF Own
  <2>2. /\ actor[a].ref # 0 /\ actor[a].ref \in Events /\ events[actor[a].ref] = "push"
        /\ Own(a) => a[1] \in accepted /\ actor[a].ref = a[1] /\ IsCall(a)
    BY PrevTypes DEF Own, ActorOK, ActorsOK, PreviewInv, PreviewBase, NoCommit
  <2>3. ASSUME Own(a), ~disordered
        PROVE  /\ answered < a[1] /\ newest' = a[1] /\ actor[a].id \in previews
               /\ \A b \in Actors : Own(b) /\ actor[b].pc # "rest" => b = a
    <3>1. CallsInOrder /\ newest \in accepted \union {0}
      BY <2>3 DEF PreviewInv, PreviewOrder, PreviewBase, HistoryOK, NoCommit
    <3>2. newest <= a[1]
      BY <2>2, <2>3, <3>1, PrevTypes DEF CallsInOrder
    <3>3. newest' = a[1]
      BY <2>2, <2>3, <3>2, PrevTypes
    <3> QED
      BY <2>2, <2>3, <3>1, <3>3 DEF CallsInOrder, Own
  <2> QED
    BY <2>1, <2>2, <2>3
<1>4. PreviewTypeOK'
  <2>1. /\ answered' \in 0..MaxEvents /\ newest' \in Events \union {NoCommit}
        /\ hooks' \in [Previews -> Events \union {NoCommit}]
    <3>1. /\ answered \in 0..MaxEvents /\ newest \in Events \union {NoCommit}
          /\ actor[a].ref \in Events
      BY <1>3 DEF PreviewTypeOK, PreviewInv, PreviewBase
    <3>2. a[1] \in 0..MaxEvents
      BY ActorFacts, PreviewNumbers
    <3> QED
      BY <1>1, <1>3, <3>1, <3>2
  <2>2. actor' \in [Actors -> ActorRows]
    BY <1>1
  <2> QED
    BY <2>1, <2>2 DEF PreviewTypeOK, ActorRows, PreviewInv, PreviewBase
<1>5. (OneOpen /\ HistoryOK)'
  <2>1. newest \in Nat /\ answered \in Nat /\ \A y \in Previews : y \in Nat /\ hooks[y] \in Nat
    BY PrevTypes
  <2>2. OneOpen'
    BY <1>1, <2>1, PrevTypes DEF OneOpen, PreviewInv, PreviewBase, NoCommit
  <2>3. \A y \in Previews :
          hooks'[y] <= newest' /\ (hooks'[y] # 0 => events[hooks'[y]] = "push")
    BY <1>1, <1>3, <2>1 DEF HistoryOK, PreviewInv, PreviewBase, NoCommit
  <2>4. newest' \in accepted \union {0} /\ answered' \in accepted \union {0}
    BY <1>1, <1>3 DEF HistoryOK, PreviewInv, PreviewBase, NoCommit
  <2>5. answered' # 0 => (events[answered'] = "push" => answered' <= newest')
    BY <1>1, <1>3, <2>1 DEF HistoryOK, PreviewInv, PreviewBase
  <2> QED
    BY <1>1, <2>2, <2>3, <2>4, <2>5 DEF HistoryOK, PreviewInv, PreviewBase, NoCommit
<1>6. ActorsOK'
  <2> SUFFICES ASSUME NEW b \in Actors PROVE ActorOK(b)'
    BY DEF ActorsOK
  <2>1. ActorOK(b)
    BY DEF ActorsOK, PreviewInv, PreviewBase
  <2>2. CASE b = a
    BY <2>1, <2>2, <1>1, <1>2, <1>3, PrevTypes, PrevTypes DEF ActorOK, NoCommit
  <2>3. CASE b # a
    BY <2>1, <2>3, <1>1, <1>2, <1>3, PrevTypes DEF ActorOK
  <2> QED
    BY <2>2, <2>3
<1>7. TakenOnce'
  BY <1>1, <1>2 DEF TakenOnce, HasApp, PreviewInv, PreviewBase
<1>8. ~disordered' => CallsInOrder'
  <2>1. CASE Own(a)
    BY <1>1, <1>2, <1>3, <2>1, PrevTypes DEF CallsInOrder, PreviewInv, PreviewOrder
  <2>2. CASE ~Own(a)
    BY <1>1, <1>2, <1>3, <2>2, PrevTypes DEF CallsInOrder, PreviewInv, PreviewOrder
  <2> QED
    BY <2>1, <2>2
<1>9. ~disordered' => PushesAnswered'
  <2> SUFFICES ASSUME ~disordered PROVE PushesAnswered'
    OBVIOUS
  <2>1. PushesAnswered /\ previews \subseteq Previews
    BY DEF PreviewInv, PreviewOrder, PreviewBase, PreviewTypeOK
  <2>2. answered' \in Nat /\ answered <= answered' /\ actor[a].ref <= answered'
    BY <1>3, <2>1, PrevTypes DEF PushesAnswered
  <2>3. \A b \in Actors : ~Own(b)' => actor'[b].ref <= answered'
    BY <1>2, <1>3, <2>1, <2>2, PrevTypes DEF PushesAnswered
  <2>4. \A x \in Previews : hooks'[x] <= answered' /\ shows[x].commit <= answered'
    BY <1>1, <2>1, <2>2, PrevTypes DEF PushesAnswered
  <2>5. ASSUME answered' # 0, events[answered'] = "close"
        PROVE  /\ ~Own(a) /\ answered' = answered /\ actor[a].id \notin previews
    BY <1>3, <2>1, <2>5 DEF PushesAnswered
  <2>6. ASSUME answered' # 0, events[answered'] = "close", NEW x \in previews
        PROVE  /\ hooks'[x] = 0
               /\ \A b \in Actors : actor'[b].id = x /\ ~Own(b)' =>
                    actor'[b].pc \notin {"read", "lock", "start", "run", "insert",
                                         "pending", "decide"}
    BY <1>1, <1>2, <1>3, <2>1, <2>5, <2>6 DEF PushesAnswered, NoCommit
  <2> QED
    BY <2>3, <2>4, <2>6 DEF PushesAnswered, NoCommit
<1>10. ~disordered' => PushOnce'
  <2> DEFINE x == actor[a].id  r == actor[a].ref
  <2>1. \A b \in Actors : \A c \in Events \union {0} : Carries(b, c)' => b # a /\ Carries(b, c)
    BY <1>2, PrevTypes DEF Carries
  <2>2. \A c \in Events : Begun(c)' => Begun(c)
    BY <1>1, <1>2, ActorFacts, PrevTypes DEF Begun
  <2>3. \A y \in Previews : (y = x /\ hooks'[y] = r) \/ (y # x /\ hooks'[y] = hooks[y])
    BY <1>1
  <2>4. Carries(a, r) /\ r \in Events /\ r # 0
    BY <1>3 DEF Carries
  <2> HIDE DEF x, r
  <2> SUFFICES ASSUME ~disordered PROVE PushOnce'
    OBVIOUS
  <2>5. PushOnce
    BY DEF PreviewInv, PreviewOrder
  <2>6. \A b \in Actors : Carries(b, r) => b = a
    BY <2>4, <2>5 DEF PushOnce
  <2>7. \A y \in Previews : hooks[y] # r
    BY <2>4, <2>5, PrevTypes DEF PushOnce, NoCommit
  <2>8. ~Begun(r)
    BY <2>4, <2>5 DEF PushOnce
  <2>9. \A b \in Actors : \A y \in Previews : \A c \in Events : hooks'[y] = c =>
          ~Carries(b, c)'
    BY <2>1, <2>3, <2>5, <2>6, PrevTypes DEF PushOnce, NoCommit
  <2>10. \A y, z \in Previews : hooks'[y] # 0 /\ hooks'[y] = hooks'[z] => y = z
    BY <2>3, <2>5, <2>7 DEF PushOnce, NoCommit
  <2>11. \A c \in Events : Begun(c)' => \A y \in Previews : hooks'[y] # c
    BY <2>2, <2>3, <2>5, <2>8 DEF PushOnce
  <2>12. \A y \in Previews : hooks'[y] # 0 => hooks'[y] \in Events
    BY <2>3, <2>4, PrevTypes
  <2> QED
    BY <2>1, <2>2, <2>5, <2>9, <2>10, <2>11, <2>12 DEF PushOnce, NoCommit
<1>11. ~disordered' /\ ~overtaken' => InTurn'
  <2> SUFFICES ASSUME ~disordered, ~overtaken' PROVE InTurn'
    BY <1>1
  <2> DEFINE x == actor[a].id
  <2>1. /\ InTurn /\ ~overtaken /\ ~(actor[a].fresh /\ actor[a].ref < newest)
        /\ previews \subseteq Previews /\ \A y, z \in previews : y = z
    BY DEF PreviewInv, PreviewTurn, PreviewBase, PreviewTypeOK, OneOpen
  <2>2. ASSUME x \in previews PROVE actor[a].ref = answered' /\ actor[a].ref = newest'
    <3>1. CASE Own(a)
      BY <1>3, <3>1
    <3>2. CASE ~Own(a)
      BY <1>1, <1>3, <2>1, <2>2, <3>2, LastTaken
    <3> QED
      BY <3>1, <3>2
  <2>3. x \notin previews => answered' = answered /\ newest' = newest
    BY <1>1, <1>3
  <2>4. \A y \in previews : hooks'[y] # 0 => hooks'[y] = answered' /\ hooks'[y] = newest'
    BY <1>1, <2>1, <2>2, <2>3 DEF InTurn, NoCommit
  <2>5. ASSUME NEW b \in Actors, NEW y \in previews, actor'[b].id = y
        PROVE  /\ actor'[b].pc \in {"read", "lock"} /\ ~Own(b)' => actor'[b].fresh
               /\ actor'[b].pc \in {"start", "run", "decide"} /\ ~Own(b)' =>
                    actor'[b].ref = answered' \/ Pending(y)'
               /\ actor'[b].pc = "start" /\ Own(b)' => hooks'[y] = 0
    <3>1. b # a /\ actor'[b] = actor[b] /\ (Own(b)' <=> Own(b)) /\ y \in Previews
      BY <1>2, <1>3, <2>1, <2>5, PrevTypes
    <3>2. CASE x \in previews
      <4>1. Pending(y)' /\ y = x
        BY <1>1, <2>1, <2>2, <3>2 DEF Pending
      <4>2. ~(actor[b].pc = "start" /\ Own(b))
        <5> SUFFICES ASSUME actor[b].pc = "start", Own(b) PROVE FALSE
          OBVIOUS
        <5>1. CASE Own(a)
          BY <1>3, <3>1, <5>1
        <5>2. CASE ~Own(a)
          <6>1. actor[b].ref = b[1] /\ actor[b].ref <= newest /\ IsCall(b)
            BY DEF Own, ActorsOK, ActorOK, PreviewInv, PreviewBase
          <6>2. answered < b[1]
            BY <6>1 DEF CallsInOrder, PreviewInv, PreviewOrder
          <6>3. answered = newest
            BY <1>1, <1>3, <2>2, <3>2, <5>2
          <6> QED
            BY <6>1, <6>2, <6>3, PrevTypes
        <5> QED
          BY <5>1, <5>2
      <4> QED
        BY <2>1, <2>5, <3>1, <4>1, <4>2 DEF InTurn
    <3>3. CASE x \notin previews
      <4>1. Pending(y) => Pending(y)'
        BY <1>1, <1>2, <2>3, <3>1, <3>3 DEF Pending
      <4> QED
        BY <1>1, <2>1, <2>3, <2>5, <3>1, <3>3, <4>1 DEF InTurn, NoCommit
    <3> QED
      BY <3>2, <3>3
  <2> QED
    BY <2>4, <2>5 DEF InTurn, NoCommit
<1>12. ~disordered' /\ ~overtaken' => OnItsWay'
  <2> SUFFICES ASSUME ~disordered, ~overtaken' PROVE OnItsWay'
    BY DEF PreviewInv
  <2>0. PICK x \in Previews : x = actor[a].id
    BY <1>1
  <2>1. /\ OnItsWay /\ ~overtaken /\ ~(actor[a].fresh /\ actor[a].ref < newest)
        /\ previews \subseteq Previews
    BY DEF PreviewInv, PreviewTurn, PreviewBase, PreviewTypeOK
  <2>2. CASE x \in previews
    <3>1. actor[a].ref = answered'
      <4>1. CASE Own(a)
        BY <1>3, <2>0, <4>1
      <4>2. CASE ~Own(a)
        BY <1>1, <1>3, <2>0, <2>1, <2>2, <4>2, LastTaken
      <4> QED
        BY <4>1, <4>2
    <3>2. PICK b \in Actors : HasApp(b, x)
      BY <2>0, <2>2 DEF TakenOnce, PreviewInv, PreviewBase
    <3>3. Serves(b, x)'
      BY <1>2, <3>2 DEF HasApp, Serves
    <3>4. Reaches(x)'
      BY <1>1, <2>0, <3>1, <3>3 DEF Reaches
    <3> QED
      BY <1>3, <2>2, <3>1, <3>4 DEF OnItsWay
  <2>3. CASE x \notin previews
    <3>1. ~Own(a) /\ answered' = answered
      BY <1>3, <2>0, <2>3
    <3>2. \A y \in previews : Reaches(y) => Reaches(y)'
      BY <1>1, <1>2, <2>0, <2>1, <2>3, <3>1 DEF Reaches, Serves
    <3> QED
      BY <1>2, <1>3, <2>1, <3>1, <3>2 DEF OnItsWay
  <2> QED
    BY <2>2, <2>3
<1>13. ~disordered' /\ undone' = {} => EnvCopied'
  BY <1>1, <1>2, PrevTypes DEF EnvCopied, PreviewInv, PreviewEnv
<1> QED
  BY <1>1, <1>4, <1>5, <1>6, <1>7, <1>8, <1>9, <1>10, <1>11, <1>12, <1>13
     DEF PreviewInv, PreviewBase, PreviewOrder,
     PreviewTurn, PreviewEnv

\* start_job: the pipeline of the push runs, and the call has its answer.
LEMMA StartOk ==
  ASSUME PreviewInv, NEW a \in Actors, actor[a].pc = "start", actor[a].id \in previews,
         NEW j \in Actors, ~IsCall(j), j[1] = actor[a].ref, actor' \in [Actors -> ActorRows],
         actor'[j].pc = "run", actor'[j].id = actor[a].id, actor'[j].ref = actor[a].ref,
         actor[a].id \in withEnv => actor'[j].env,
         a # j => actor'[a] = AtRest,
         \A b \in Actors : b # a /\ b # j => actor'[b] = actor[b],
         answered' = IF Own(a) THEN a[1] ELSE answered,
         UNCHANGED <<events, kept, created, previews, withEnv, busy, hooks, shows, troubles,
                     accepted, forgotten, newest, undone, disordered, overtaken>>
  PROVE  PreviewInv'
<1>1. /\ actor[a].id \in Previews /\ actor[a].id <= created /\ actor[a].ref # 0
      /\ events[actor[a].ref] = "push" /\ actor[a].ref <= newest
      /\ actor[a].ref \in Events /\ a[1] \in Events
      /\ Own(a) => a[1] \in accepted /\ actor[a].ref = a[1] /\ IsCall(a) /\ a # j
      /\ previews \subseteq Previews /\ \A x \in previews : x = actor[a].id
  BY PrevTypes, ActorFacts DEF Own, ActorOK, ActorsOK, OneOpen, PreviewTypeOK, PreviewInv,
     PreviewBase, NoCommit
<1>2. a # j => actor'[a].pc = "rest" /\ actor'[a].id = 0 /\ actor'[a].ref = 0
  BY RestActor DEF NoCommit
<1>3. /\ ~Own(a)' /\ ~Own(j)' /\ \A b \in Actors : b # a /\ b # j => (Own(b)' <=> Own(b))
      /\ ~disordered => a # j /\ actor[j].pc = "rest"
  <2>1. ~Own(a)' /\ ~Own(j)' /\ \A b \in Actors : b # a /\ b # j => (Own(b)' <=> Own(b))
    BY <1>1, <1>2, PrevTypes DEF Own
  <2>2. ASSUME ~disordered PROVE actor[j].pc = "rest"
    <3>1. Carries(a, actor[a].ref)
      BY DEF Carries
    <3>2. ~Begun(actor[a].ref)
      BY <1>1, <2>2, <3>1 DEF PushOnce, PreviewInv, PreviewOrder
    <3> QED
      BY <3>2, ActorFacts DEF Begun
  <2> QED
    BY <2>1, <2>2
<1>4. PreviewTypeOK'
  <2>1. answered' \in 0..MaxEvents
    <3>1. answered \in 0..MaxEvents
      BY DEF PreviewTypeOK, PreviewInv, PreviewBase
    <3>2. a[1] \in 0..MaxEvents
      BY <1>1, PreviewNumbers, PrevTypes
    <3> QED
      BY <3>1, <3>2
  <2> QED
    BY <2>1 DEF PreviewTypeOK, ActorRows, PreviewInv, PreviewBase
<1>5. (OneOpen /\ HistoryOK)'
  <2>1. answered' \in accepted \union {0}
    BY <1>1 DEF HistoryOK, PreviewInv, PreviewBase
  <2>2. answered' # 0 => (events[answered'] = "push" => answered' <= newest')
    BY <1>1 DEF HistoryOK, PreviewInv, PreviewBase
  <2> QED
    BY <2>1, <2>2 DEF OneOpen, HistoryOK, PreviewInv, PreviewBase
<1>6. ActorsOK'
  <2> SUFFICES ASSUME NEW b \in Actors PROVE ActorOK(b)'
    BY DEF ActorsOK
  <2>1. ActorOK(b)
    BY DEF ActorsOK, PreviewInv, PreviewBase
  <2>2. CASE b = j
    BY <1>1, <1>3, <2>2 DEF ActorOK, NoCommit
  <2>3. CASE b = a /\ b # j
    BY <1>1, <1>2, <1>3, <2>3, PrevTypes DEF ActorOK, NoCommit
  <2>4. CASE b # a /\ b # j
    BY <2>1, <2>4, <1>3 DEF ActorOK
  <2> QED
    BY <2>2, <2>3, <2>4
<1>7. TakenOnce'
  <2>1. TakenOnce /\ HasApp(a, actor[a].id)
    BY DEF PreviewInv, PreviewBase, HasApp
  <2>2. \A b \in Actors : \A x \in Previews :
          HasApp(b, x)' => (b = j /\ x = actor[a].id) \/ (b # j /\ b # a /\ HasApp(b, x))
    BY <1>2 DEF HasApp
  <2>3. ASSUME NEW x \in previews PROVE HasApp(j, x)'
    BY <1>1 DEF HasApp
  <2>4. \A b, c \in Actors : \A x \in Previews : HasApp(b, x)' /\ HasApp(c, x)' => b = c
    BY <1>1, <2>1, <2>2 DEF TakenOnce
  <2>5. \A b \in Actors : \A x \in Previews : HasApp(b, x)' => x \in busy
    BY <1>1, <2>1, <2>2 DEF TakenOnce
  <2> QED
    BY <2>3, <2>4, <2>5 DEF TakenOnce
<1>8. ~disordered' => CallsInOrder'
  <2> SUFFICES ASSUME ~disordered PROVE CallsInOrder'
    OBVIOUS
  <2>1. CallsInOrder /\ a # j
    BY <1>3 DEF PreviewInv, PreviewOrder
  <2>2. \A b \in Actors : IsCall(b) /\ actor'[b].pc # "rest" =>
          b # a /\ b # j /\ actor'[b] = actor[b]
    BY <1>2, <2>1
  <2>3. CASE Own(a)
    <3>1. \A b \in Actors : IsCall(b) => actor'[b].pc = "rest"
      BY <1>1, <2>1, <2>2, <2>3 DEF CallsInOrder
    <3> QED
      BY <3>1 DEF CallsInOrder, Own
  <2>4. CASE ~Own(a)
    BY <1>3, <2>1, <2>2, <2>4 DEF CallsInOrder, Own
  <2> QED
    BY <2>3, <2>4
<1>9. ~disordered' => PushesAnswered'
  <2> SUFFICES ASSUME ~disordered PROVE PushesAnswered'
    OBVIOUS
  <2>1. PushesAnswered /\ CallsInOrder
    BY DEF PreviewInv, PreviewOrder
  <2>2. answered' \in Nat /\ answered <= answered' /\ actor[a].ref <= answered'
    BY <1>1, <2>1, PrevTypes DEF PushesAnswered, CallsInOrder
  <2>3. \A b \in Actors : ~Own(b)' => actor'[b].ref <= answered'
    BY <1>2, <1>3, <2>1, <2>2, PrevTypes DEF PushesAnswered
  <2>4. \A x \in Previews : hooks[x] <= answered' /\ shows[x].commit <= answered'
    BY <2>1, <2>2, PrevTypes DEF PushesAnswered
  <2>5. answered' # 0 => events[answered'] # "close"
    BY <1>1, <2>1 DEF PushesAnswered
  <2> QED
    BY <2>3, <2>4, <2>5 DEF PushesAnswered
<1>10. ~disordered' => PushOnce'
  <2> SUFFICES ASSUME ~disordered PROVE PushOnce'
    OBVIOUS
  <2>1. \A b \in Actors : \A c \in Events \union {0} : Carries(b, c)' => b # a /\ Carries(b, c)
    BY <1>2, <1>3, PrevTypes DEF Carries
  <2>2. \A c \in Events : Begun(c)' => Begun(c) \/ c = actor[a].ref
    BY <1>2, <1>3, ActorFacts, ZenonT(40) DEF Begun
  <2>3. Carries(a, actor[a].ref)
    BY DEF Carries
  <2>4. PushOnce
    BY DEF PreviewInv, PreviewOrder
  <2>5. /\ \A b \in Actors : b # a => ~Carries(b, actor[a].ref)
        /\ \A x \in Previews : hooks[x] # actor[a].ref
    BY <1>1, <2>3, <2>4 DEF PushOnce, NoCommit
  <2>6. \A c \in Events : Begun(c)' => /\ \A b \in Actors : ~Carries(b, c)'
                                       /\ \A x \in Previews : hooks[x] # c
    BY <2>1, <2>2, <2>4, <2>5 DEF PushOnce
  <2> QED
    BY <2>1, <2>4, <2>6, PrevTypes DEF PushOnce, NoCommit
<1>11. ~disordered' /\ ~overtaken' => InTurn'
  <2> SUFFICES ASSUME ~disordered, ~overtaken PROVE InTurn'
    OBVIOUS
  <2>1. InTurn /\ TakenOnce /\ a # j /\ actor[j].pc = "rest"
    BY <1>3 DEF PreviewInv, PreviewTurn, PreviewBase
  <2>2. \A x \in previews : hooks[x] # 0 => hooks[x] = answered' /\ hooks[x] = newest
    BY <1>1, <2>1 DEF InTurn, NoCommit
  <2>3. ASSUME NEW b \in Actors, b # j, actor'[b].id \in previews
        PROVE  /\ b # a /\ actor'[b] = actor[b] /\ (Own(b)' <=> Own(b))
               /\ actor'[b].pc \notin {"start", "run", "decide"}
    <3>1. b # a /\ actor'[b] = actor[b] /\ (Own(b)' <=> Own(b))
      BY <1>1, <1>2, <1>3, <2>3, PrevTypes
    <3>2. actor[b].id = actor[a].id
      BY <1>1, <2>3, <3>1
    <3>3. HasApp(a, actor[a].id) /\ (actor[b].pc \in {"start", "run", "decide"} => HasApp(b,
            actor[a].id))
      BY <3>2 DEF HasApp
    <3> QED
      BY <1>1, <2>1, <3>1, <3>3 DEF TakenOnce
  <2>4. ASSUME NEW x \in previews, x = actor[a].id
        PROVE  actor'[j].ref = answered' \/ Pending(x)'
    <3>1. CASE Own(a)
      BY <1>1, <3>1
    <3>2. CASE ~Own(a) /\ actor[a].ref = answered
      BY <3>2
    <3>3. CASE ~Own(a) /\ actor[a].ref # answered
      <4>1. Pending(x)
        BY <2>1, <2>4, <3>3 DEF InTurn
      <4>2. Pending(x)'
        BY <1>1, <2>1, <3>3, <4>1 DEF Pending
      <4> QED
        BY <4>2
    <3> QED
      BY <3>1, <3>2, <3>3
  <2>5. ASSUME NEW b \in Actors, NEW x \in previews, actor'[b].id = x
        PROVE  /\ actor'[b].pc \in {"read", "lock"} /\ ~Own(b)' => actor'[b].fresh
               /\ actor'[b].pc \in {"start", "run", "decide"} /\ ~Own(b)' =>
                    actor'[b].ref = answered' \/ Pending(x)'
               /\ actor'[b].pc = "start" /\ Own(b)' => hooks[x] = 0
    <3>1. CASE b = j
      BY <2>4, <2>5, <3>1
    <3>2. CASE b # j
      <4>1. actor'[b].id \in previews
        BY <2>5
      <4>2. /\ actor'[b] = actor[b] /\ (Own(b)' <=> Own(b))
            /\ actor'[b].pc \notin {"start", "run", "decide"}
        BY <2>3, <3>2, <4>1
      <4> QED
        BY <2>1, <4>1, <4>2 DEF InTurn
    <3> QED
      BY <3>1, <3>2
  <2> QED
    BY <2>2, <2>5 DEF InTurn, NoCommit
<1>12. ~disordered' /\ ~overtaken' => OnItsWay'
  <2> SUFFICES ASSUME ~disordered, ~overtaken PROVE OnItsWay'
    OBVIOUS
  <2>1. OnItsWay /\ a # j /\ actor[j].pc = "rest"
    BY <1>3 DEF PreviewInv, PreviewTurn
  <2>2. PICK x \in previews : x = actor[a].id
    OBVIOUS
  <2>3. CASE actor[a].ref = answered'
    <3>1. Reaches(x)'
      BY <2>2, <2>3 DEF Reaches
    <3> QED
      BY <1>1, <2>2, <2>3, <3>1 DEF OnItsWay
  <2>4. CASE actor[a].ref # answered'
    <3>1. ~Own(a) /\ answered' = answered
      BY <1>1, <2>4
    <3>2. \A y \in previews : Reaches(y) => Reaches(y)'
      <4> SUFFICES ASSUME Reaches(x) PROVE Reaches(x)'
        BY <1>1, <2>2
      <4>1. Serves(j, x)'
        BY <2>2 DEF Serves
      <4>2. ASSUME NEW b \in Actors, actor[b].id = x, actor[b].ref = answered,
                   actor[b].pc \in {"read", "lock", "start", "run", "insert", "pending", "decide"}
            PROVE  b # a /\ actor'[b] = actor[b]
        BY <2>1, <2>4, <3>1, <4>2
      <4> QED
        BY <3>1, <4>1, <4>2 DEF Reaches
    <3>3. \A b \in Actors : Own(b) /\ actor[b].pc # "rest" => Own(b)' /\ actor'[b].pc # "rest"
      BY <1>3, <2>1, <3>1
    <3> QED
      BY <2>1, <3>1, <3>2, <3>3 DEF OnItsWay
  <2> QED
    BY <2>3, <2>4
<1>13. ~disordered' /\ undone' = {} => EnvCopied'
  <2> SUFFICES ASSUME ~disordered, undone = {} PROVE EnvCopied'
    OBVIOUS
  <2>1. EnvCopied /\ a # j /\ actor[j].pc = "rest"
    BY <1>3 DEF PreviewInv, PreviewEnv
  <2>2. actor[a].id \in withEnv
    BY <2>1 DEF EnvCopied
  <2>3. \A b \in Actors : actor[b].pc = "env" => actor'[b] = actor[b]
    BY <2>1
  <2>4. ASSUME NEW b \in Actors, actor'[b].pc \notin {"rest", "find", "create", "env"},
               actor'[b].id \in previews
        PROVE  /\ actor'[b].id \in withEnv
               /\ actor'[b].pc \in {"run", "insert", "pending", "decide"} => actor'[b].env
    <3>1. CASE b = j
      BY <2>2, <3>1
    <3>2. CASE b # j
      BY <1>2, <2>1, <2>4, <3>2 DEF EnvCopied
    <3> QED
      BY <3>1, <3>2
  <2> QED
    BY <2>1, <2>3, <2>4 DEF EnvCopied
<1> QED
  BY <1>1, <1>4, <1>5, <1>6, <1>7, <1>8, <1>9, <1>10, <1>11, <1>12, <1>13
     DEF PreviewInv, PreviewBase, PreviewOrder,
     PreviewTurn, PreviewEnv

\* needs_approval: the app is given back, the queue is run, and the row is on its way.
LEMMA PendStep ==
  ASSUME PreviewInv, NEW a \in Actors, actor[a].pc = "start", actor[a].id \in previews,
         NEW j \in Actors, ~IsCall(j), j[1] = actor[a].ref, actor' \in [Actors -> ActorRows],
         actor'[j].pc = "insert", actor'[j].id = actor[a].id, actor'[j].ref = actor[a].ref,
         actor[a].id \in withEnv => actor'[j].env,
         a # j => actor'[a] = [AtRest EXCEPT !.pc = "take", !.id = actor[a].id],
         \A b \in Actors : b # a /\ b # j => actor'[b] = actor[b],
         answered' = IF Own(a) THEN a[1] ELSE answered,
         busy' = busy \ {actor[a].id},
         UNCHANGED <<events, kept, created, previews, withEnv, hooks, shows, troubles,
                     accepted, forgotten, newest, undone, disordered, overtaken>>
  PROVE  PreviewInv'
<1>1. /\ actor[a].id \in Previews /\ actor[a].id <= created /\ actor[a].ref # 0
      /\ events[actor[a].ref] = "push" /\ actor[a].ref <= newest
      /\ actor[a].ref \in Events /\ a[1] \in Events
      /\ Own(a) => a[1] \in accepted /\ actor[a].ref = a[1] /\ IsCall(a) /\ a # j
      /\ previews \subseteq Previews /\ \A x \in previews : x = actor[a].id
  BY PrevTypes, ActorFacts DEF Own, ActorOK, ActorsOK, OneOpen, PreviewTypeOK, PreviewInv,
     PreviewBase, NoCommit
<1>2. a # j => /\ actor'[a].pc = "take" /\ actor'[a].id = actor[a].id
               /\ actor'[a].ref = 0
  BY DEF AtRest, NoCommit
<1>3. /\ ~Own(a)' /\ ~Own(j)' /\ \A b \in Actors : b # a /\ b # j => (Own(b)' <=> Own(b))
      /\ ~disordered => a # j /\ actor[j].pc = "rest"
  <2>1. ~Own(a)' /\ ~Own(j)' /\ \A b \in Actors : b # a /\ b # j => (Own(b)' <=> Own(b))
    BY <1>1, <1>2, PrevTypes DEF Own
  <2>2. ASSUME ~disordered PROVE actor[j].pc = "rest"
    <3>1. Carries(a, actor[a].ref)
      BY DEF Carries
    <3>2. ~Begun(actor[a].ref)
      BY <1>1, <2>2, <3>1 DEF PushOnce, PreviewInv, PreviewOrder
    <3> QED
      BY <3>2, ActorFacts DEF Begun
  <2> QED
    BY <2>1, <2>2
<1>4. PreviewTypeOK'
  <2>1. answered' \in 0..MaxEvents
    <3>1. answered \in 0..MaxEvents
      BY DEF PreviewTypeOK, PreviewInv, PreviewBase
    <3>2. a[1] \in 0..MaxEvents
      BY <1>1, PreviewNumbers, PrevTypes
    <3> QED
      BY <3>1, <3>2
  <2> QED
    BY <2>1 DEF PreviewTypeOK, ActorRows, PreviewInv, PreviewBase
<1>5. (OneOpen /\ HistoryOK)'
  <2>1. answered' \in accepted \union {0}
    BY <1>1 DEF HistoryOK, PreviewInv, PreviewBase
  <2>2. answered' # 0 => (events[answered'] = "push" => answered' <= newest')
    BY <1>1 DEF HistoryOK, PreviewInv, PreviewBase
  <2> QED
    BY <2>1, <2>2 DEF OneOpen, HistoryOK, PreviewInv, PreviewBase
<1>6. ActorsOK'
  <2> SUFFICES ASSUME NEW b \in Actors PROVE ActorOK(b)'
    BY DEF ActorsOK
  <2>1. ActorOK(b)
    BY DEF ActorsOK, PreviewInv, PreviewBase
  <2>2. CASE b = j
    BY <1>1, <1>3, <2>2 DEF ActorOK, NoCommit
  <2>3. CASE b = a /\ b # j
    <3>1. newest \in Nat /\ (IsCall(a) => a[1] \in accepted)
      BY <2>1, <2>3, PrevTypes DEF ActorOK
    <3>2. actor'[b].pc = "take" /\ actor'[b].id = actor[a].id /\ actor'[b].ref = 0 /\ ~Own(b)'
      BY <1>2, <1>3, <2>3
    <3> QED
      BY <1>1, <2>3, <3>1, <3>2 DEF ActorOK, NoCommit
  <2>4. CASE b # a /\ b # j
    BY <2>1, <2>4, <1>3 DEF ActorOK
  <2> QED
    BY <2>2, <2>3, <2>4
<1>7. TakenOnce'
  <2>1. TakenOnce /\ HasApp(a, actor[a].id)
    BY DEF PreviewInv, PreviewBase, HasApp
  <2>2. \A b \in Actors : \A x \in Previews :
          HasApp(b, x)' => b # j /\ b # a /\ HasApp(b, x) /\ x # actor[a].id
    BY <1>1, <1>2, <2>1 DEF HasApp, TakenOnce
  <2> QED
    BY <1>1, <2>1, <2>2 DEF TakenOnce
<1>8. ~disordered' => CallsInOrder'
  <2> SUFFICES ASSUME ~disordered PROVE CallsInOrder'
    OBVIOUS
  <2>1. CallsInOrder /\ a # j
    BY <1>3 DEF PreviewInv, PreviewOrder
  <2>2. \A b \in Actors : IsCall(b) /\ actor'[b].pc # "rest" => actor[b].pc # "rest"
    BY <2>1
  <2>3. \A b \in Actors : Own(b)' => b # a /\ actor'[b] = actor[b] /\ Own(b)
    BY <1>3
  <2>4. \A b \in Actors : IsCall(b) /\ actor'[b].pc # "rest" /\ Own(b)' =>
          answered' < b[1]
    <3>1. ASSUME NEW b \in Actors, IsCall(b), actor'[b].pc # "rest", Own(b)', Own(a)
          PROVE  FALSE
      BY <1>1, <2>1, <2>2, <2>3, <3>1 DEF CallsInOrder
    <3> QED
      BY <2>1, <2>2, <2>3, <3>1 DEF CallsInOrder
  <2> QED
    BY <2>1, <2>2, <2>3, <2>4 DEF CallsInOrder
<1>9. ~disordered' => PushesAnswered'
  <2> SUFFICES ASSUME ~disordered PROVE PushesAnswered'
    OBVIOUS
  <2>1. PushesAnswered /\ CallsInOrder
    BY DEF PreviewInv, PreviewOrder
  <2>2. answered' \in Nat /\ answered <= answered' /\ actor[a].ref <= answered'
    BY <1>1, <2>1, PrevTypes DEF PushesAnswered, CallsInOrder
  <2>3. ASSUME NEW b \in Actors, ~Own(b)' PROVE actor'[b].ref <= answered'
    <3>1. CASE b = j
      BY <2>2, <3>1
    <3>2. CASE b = a
      BY <1>2, <1>3, <2>2, <3>2
    <3>3. CASE b # a /\ b # j
      <4>1. actor'[b].ref = actor[b].ref /\ actor[b].ref <= answered
        BY <1>3, <2>1, <2>3, <3>3 DEF PushesAnswered
      <4> QED
        BY <2>2, <4>1, PrevTypes
    <3> QED
      BY <3>1, <3>2, <3>3
  <2>4. \A x \in Previews : hooks[x] <= answered' /\ shows[x].commit <= answered'
    BY <2>1, <2>2, PrevTypes DEF PushesAnswered
  <2>5. answered' # 0 => events[answered'] # "close"
    BY <1>1, <2>1 DEF PushesAnswered
  <2> QED
    BY <2>3, <2>4, <2>5 DEF PushesAnswered
<1>10. ~disordered' => PushOnce'
  <2> SUFFICES ASSUME ~disordered PROVE PushOnce'
    OBVIOUS
  <2>1. \A b \in Actors : \A c \in Events : Carries(b, c)' => b # a /\ Carries(b, c)
    <3> SUFFICES ASSUME NEW b \in Actors, NEW c \in Events, Carries(b, c)'
                 PROVE  b # a /\ Carries(b, c)
      OBVIOUS
    <3>1. b # j
      BY DEF Carries
    <3>2. b # a
      <4>1. c # 0 /\ a # j
        BY <1>3, PrevTypes
      <4> QED
        BY <1>2, <4>1 DEF Carries
    <3> QED
      BY <3>1, <3>2 DEF Carries
  <2>2. ASSUME NEW c \in Events, Begun(c)' PROVE Begun(c) \/ c = actor[a].ref
    <3>1. /\ <<c, "job">> \in Actors /\ <<c, "call">> \in Actors /\ IsCall(<<c, "call">>)
          /\ (<<c, "job">> = j => c = actor[a].ref) /\ <<c, "call">> # j
          /\ (<<c, "job">> = a => actor[<<c, "job">>].pc # "rest")
      BY ActorFacts
    <3>2. CASE actor'[<<c, "job">>].pc # "rest"
      BY <3>1, <3>2 DEF Begun
    <3>3. CASE actor'[<<c, "call">>].pc # "rest" /\ actor'[<<c, "call">>].ref # c
      BY <3>1, <3>3 DEF Begun
    <3> QED
      BY <2>2, <3>2, <3>3 DEF Begun
  <2>3. Carries(a, actor[a].ref)
    BY DEF Carries
  <2>4. PushOnce
    BY DEF PreviewInv, PreviewOrder
  <2>5. /\ \A b \in Actors : b # a => ~Carries(b, actor[a].ref)
        /\ \A x \in Previews : hooks[x] # actor[a].ref
    BY <1>1, <2>3, <2>4 DEF PushOnce, NoCommit
  <2>6. \A c \in Events : Begun(c)' => /\ \A b \in Actors : ~Carries(b, c)'
                                       /\ \A x \in Previews : hooks[x] # c
    BY <2>1, <2>2, <2>4, <2>5 DEF PushOnce
  <2>7. \A x \in Previews : hooks[x] # 0 => hooks[x] \in Events
    BY PrevTypes
  <2> QED
    BY <2>1, <2>4, <2>6, <2>7 DEF PushOnce, NoCommit
<1>11. ~disordered' /\ ~overtaken' => InTurn'
  <2> SUFFICES ASSUME ~disordered, ~overtaken PROVE InTurn'
    OBVIOUS
  <2>1. InTurn /\ TakenOnce /\ a # j /\ actor[j].pc = "rest"
    BY <1>3 DEF PreviewInv, PreviewTurn, PreviewBase
  <2>2. \A x \in previews : hooks[x] # 0 => hooks[x] = answered' /\ hooks[x] = newest
    BY <1>1, <2>1 DEF InTurn, NoCommit
  <2>3. ASSUME NEW b \in Actors, actor'[b].id \in previews
        PROVE  /\ actor'[b].pc \notin {"start", "run", "decide"}
               /\ actor'[b].pc \in {"read", "lock"} /\ ~Own(b)' => actor'[b].fresh
    <3>1. CASE b = a \/ b = j
      BY <1>2, <2>1, <3>1
    <3>2. CASE b # a /\ b # j
      <4>1. actor'[b] = actor[b] /\ (Own(b)' <=> Own(b)) /\ actor[b].id = actor[a].id
        BY <1>1, <1>3, <2>3, <3>2
      <4>2. HasApp(a, actor[a].id)
        BY DEF HasApp
      <4>3. ~HasApp(b, actor[a].id)
        BY <1>1, <2>1, <3>2, <4>2 DEF TakenOnce
      <4> QED
        BY <1>1, <2>1, <4>1, <4>3 DEF InTurn, HasApp
    <3> QED
      BY <3>1, <3>2
  <2> QED
    BY <2>2, <2>3 DEF InTurn, NoCommit
<1>12. ~disordered' /\ ~overtaken' => OnItsWay'
  <2> SUFFICES ASSUME ~disordered, ~overtaken PROVE OnItsWay'
    OBVIOUS
  <2>1. OnItsWay /\ a # j /\ actor[j].pc = "rest"
    BY <1>3 DEF PreviewInv, PreviewTurn
  <2>2. PICK x \in previews : x = actor[a].id
    OBVIOUS
  <2>3. CASE actor[a].ref = answered'
    <3>1. Reaches(x)'
      BY <2>2, <2>3 DEF Reaches
    <3> QED
      BY <1>1, <2>2, <2>3, <3>1 DEF OnItsWay
  <2>4. CASE actor[a].ref # answered'
    <3>1. ~Own(a) /\ answered' = answered
      BY <1>1, <2>4
    <3>2. \A y \in previews : Reaches(y) => Reaches(y)'
      <4> SUFFICES ASSUME Reaches(x) PROVE Reaches(x)'
        BY <1>1, <2>2
      <4>1. Serves(a, x)'
        BY <1>2, <2>1, <2>2 DEF Serves
      <4>2. ASSUME NEW b \in Actors, actor[b].id = x, actor[b].ref = answered,
                   actor[b].pc \in {"read", "lock", "start", "run", "insert", "pending", "decide"}
            PROVE  b # a /\ actor'[b] = actor[b]
        BY <2>1, <2>4, <3>1, <4>2
      <4> QED
        BY <3>1, <4>1, <4>2 DEF Reaches
    <3>3. \A b \in Actors : Own(b) /\ actor[b].pc # "rest" => Own(b)' /\ actor'[b].pc # "rest"
      BY <1>3, <2>1, <3>1
    <3> QED
      BY <2>1, <3>1, <3>2, <3>3 DEF OnItsWay
  <2> QED
    BY <2>3, <2>4
<1>13. ~disordered' /\ undone' = {} => EnvCopied'
  <2> SUFFICES ASSUME ~disordered, undone = {} PROVE EnvCopied'
    OBVIOUS
  <2>1. EnvCopied /\ a # j /\ actor[j].pc = "rest"
    BY <1>3 DEF PreviewInv, PreviewEnv
  <2>2. actor[a].id \in withEnv
    BY <2>1 DEF EnvCopied
  <2>3. \A b \in Actors : actor[b].pc = "env" => actor'[b] = actor[b]
    BY <2>1
  <2>4. ASSUME NEW b \in Actors, actor'[b].pc \notin {"rest", "find", "create", "env"},
               actor'[b].id \in previews
        PROVE  /\ actor'[b].id \in withEnv
               /\ actor'[b].pc \in {"run", "insert", "pending", "decide"} => actor'[b].env
    <3>1. CASE b = j
      BY <2>2, <3>1
    <3>2. CASE b # j
      BY <1>2, <2>1, <2>4, <3>2 DEF EnvCopied
    <3> QED
      BY <3>1, <3>2
  <2> QED
    BY <2>1, <2>3, <2>4 DEF EnvCopied
<1> QED
  BY <1>1, <1>4, <1>5, <1>6, <1>7, <1>8, <1>9, <1>10, <1>11, <1>12, <1>13
     DEF PreviewInv, PreviewBase, PreviewOrder,
     PreviewTurn, PreviewEnv

\* A pending row goes from one hand to the next: it is inserted, taken by the one who
\* decides, approved, or given back.
LEMMA RowStep ==
  ASSUME PreviewInv, NEW a \in Actors, NEW p, Turns(a, [actor[a] EXCEPT !.pc = p]),
         \/ /\ actor[a].pc = "insert" /\ actor[a].id \in previews /\ p = "pending"
            /\ UNCHANGED <<busy, undone, overtaken>>
         \/ /\ actor[a].pc = "pending" /\ actor[a].id \in previews \ busy /\ p = "decide"
            /\ busy' = busy \union {actor[a].id} /\ undone' = undone
            /\ overtaken' = (overtaken \/ ~(a[1] = answered \/ Waits(answered)))
         \/ /\ actor[a].pc = "decide" /\ p = "run"
            /\ UNCHANGED <<busy, undone, overtaken>>
         \/ /\ actor[a].pc = "decide" /\ p = "pending"
            /\ busy' = busy \ {actor[a].id} /\ overtaken' = overtaken
            /\ undone' = undone \union ({hooks[actor[a].id]} \ {0}),
         troubles' \in 0..MaxTroubles,
         UNCHANGED <<events, kept, created, previews, withEnv, hooks, shows, accepted,
                     forgotten, newest, answered, disordered>>
  PROVE  PreviewInv'
<1>1. /\ actor' \in [Actors -> ActorRows] /\ actor[a].id \in Previews /\ actor[a].id <= created
      /\ actor[a].id \in previews /\ \A x \in previews : x = actor[a].id
      /\ actor[a].ref = a[1] /\ ~IsCall(a) /\ actor[a].pc \in {"insert", "pending", "decide"}
      /\ previews \subseteq Previews /\ p \in {"pending", "decide", "run"}
      /\ overtaken' \in BOOLEAN /\ (overtaken => overtaken')
  BY DEF Turns, ActorsOK, ActorOK, OneOpen, PreviewInv, PreviewBase, PreviewTypeOK
<1>2. /\ actor'[a].pc = p /\ actor'[a].id = actor[a].id /\ actor'[a].ref = actor[a].ref
      /\ actor'[a].env = actor[a].env
      /\ \A b \in Actors : b # a => actor'[b] = actor[b]
  BY PrevTypes DEF Turns, ActorRows
<1>3. /\ \A b \in Actors : Own(b)' <=> Own(b)
      /\ ~Own(a) /\ undone \subseteq undone' /\ undone' \subseteq Events
      /\ busy' \subseteq Previews /\ \A x \in busy' : x <= created
  <2>1. (\A b \in Actors : Own(b)' <=> Own(b)) /\ ~Own(a)
    BY <1>1, <1>2 DEF Own
  <2>2. hooks[actor[a].id] \in Events \union {0} /\ undone \subseteq Events
    BY <1>1, PrevTypes DEF PreviewTypeOK, PreviewInv, PreviewBase
  <2>3. busy \subseteq Previews /\ \A x \in busy : x <= created
    BY DEF PreviewTypeOK, OneOpen, PreviewInv, PreviewBase
  <2> QED
    BY <1>1, <2>1, <2>2, <2>3
<1>4. PreviewTypeOK'
  BY <1>1, <1>3 DEF PreviewTypeOK, ActorRows, PreviewInv, PreviewBase
<1>5. (OneOpen /\ HistoryOK)'
  BY <1>1, <1>3 DEF OneOpen, HistoryOK, PreviewInv, PreviewBase
<1>6. ActorsOK'
  <2> SUFFICES ASSUME NEW b \in Actors PROVE ActorOK(b)'
    BY DEF ActorsOK
  <2>1. ActorOK(b)
    BY DEF ActorsOK, PreviewInv, PreviewBase
  <2>2. CASE b = a
    BY <2>1, <2>2, <1>1, <1>2, <1>3, PrevTypes DEF ActorOK, NoCommit
  <2>3. CASE b # a
    BY <2>1, <2>3, <1>1, <1>2, <1>3 DEF ActorOK
  <2> QED
    BY <2>2, <2>3
<1>7. TakenOnce'
  <2>1. TakenOnce
    BY DEF PreviewInv, PreviewBase
  <2>2. \A b \in Actors : \A x \in Previews : b # a => (HasApp(b, x)' <=> HasApp(b, x))
    BY <1>2 DEF HasApp
  <2>3. CASE p = "decide"
    <3>1. \A b \in Actors : \A x \in Previews : HasApp(b, x) => x # actor[a].id
      BY <2>1, <2>3 DEF TakenOnce
    <3>2. \A x \in Previews : HasApp(a, x)' <=> x = actor[a].id
      BY <1>2, <2>3 DEF HasApp
    <3> QED
      BY <1>1, <2>1, <2>2, <2>3, <3>1, <3>2 DEF TakenOnce
  <2>4. CASE p = "pending"
    <3>1. \A x \in Previews : ~HasApp(a, x)'
      BY <1>2, <2>4 DEF HasApp
    <3>2. CASE actor[a].pc = "insert"
      <4>1. \A x \in Previews : ~HasApp(a, x)
        BY <3>2 DEF HasApp
      <4>2. busy' = busy /\ previews' = previews
        BY <3>2
      <4>3. \A b \in Actors : \A x \in Previews : HasApp(b, x)' <=> HasApp(b, x)
        BY <2>2, <3>1, <4>1
      <4> QED
        BY <1>1, <2>1, <4>2, <4>3 DEF TakenOnce
    <3>3. CASE actor[a].pc = "decide"
      <4>1. \A x \in Previews : HasApp(a, x) <=> x = actor[a].id
        BY <3>3 DEF HasApp
      <4>2. \A b \in Actors : \A x \in Previews : HasApp(b, x)' => x # actor[a].id
        BY <1>1, <2>1, <2>2, <3>1, <4>1 DEF TakenOnce
      <4> QED
        BY <1>1, <2>1, <2>2, <2>4, <3>1, <3>3, <4>1, <4>2 DEF TakenOnce
    <3> QED
      BY <2>4, <3>2, <3>3
  <2>5. CASE p = "run"
    <3>1. \A x \in Previews : HasApp(a, x)' <=> HasApp(a, x)
      BY <1>2, <2>5 DEF HasApp
    <3>2. busy' = busy /\ previews' = previews
      BY <2>5
    <3>3. \A b \in Actors : \A x \in Previews : HasApp(b, x)' <=> HasApp(b, x)
      BY <2>2, <3>1
    <3> QED
      BY <1>1, <2>1, <3>2, <3>3 DEF TakenOnce
  <2> QED
    BY <1>1, <2>3, <2>4, <2>5
<1>8. ~disordered' => CallsInOrder'
  BY <1>1, <1>2, <1>3, PrevTypes DEF CallsInOrder, PreviewInv, PreviewOrder
<1>9. ~disordered' => PushesAnswered'
  BY <1>1, <1>2, <1>3, PrevTypes DEF PushesAnswered, PreviewInv, PreviewOrder, NoCommit
<1>10. ~disordered' => PushOnce'
  <2>1. \A b \in Actors : \A c \in Events \union {0} : Carries(b, c)' => Carries(b, c)
    BY <1>1, <1>2, <1>3, PrevTypes DEF Carries
  <2>2. \A c \in Events : Begun(c)' => Begun(c)
    BY <1>1, <1>2, <1>3, ActorFacts, PrevTypes DEF Begun
  <2>3. \A y \in Previews : hooks'[y] = hooks[y]
    BY <1>1
  <2> QED
    BY <1>1, <2>1, <2>2, <2>3, PrevTypes DEF PushOnce, PreviewInv, PreviewOrder, NoCommit
<1>11. ~disordered' /\ ~overtaken' => InTurn'
  <2> SUFFICES ASSUME ~disordered, ~overtaken' PROVE InTurn'
    OBVIOUS
  <2>1. InTurn /\ TakenOnce
    BY <1>1 DEF PreviewInv, PreviewTurn, PreviewBase
  <2>2. ASSUME p # "decide", Pending(actor[a].id) PROVE Pending(actor[a].id)'
    BY <1>1, <1>2, <2>2 DEF Pending
  <2>3. ASSUME p = "decide" PROVE a[1] = answered \/ Pending(actor[a].id)'
    <3>1. CASE Waits(answered) /\ a[1] # answered
      <4>1. PICK d \in Actors :
              d[1] = answered /\ actor[d].pc = "pending" /\ actor[d].id \in previews
        BY <3>1 DEF Waits
      <4>2. actor[d].ref = d[1] /\ d # a
        BY <3>1, <4>1 DEF ActorsOK, ActorOK, PreviewInv, PreviewBase
      <4> QED
        BY <1>1, <1>2, <4>1, <4>2 DEF Pending
    <3> QED
      BY <1>1, <2>3, <3>1
  <2>4. ASSUME NEW b \in Actors, b # a, actor[b].pc \in {"start", "run", "decide"},
               actor[b].id = actor[a].id
        PROVE  actor[a].pc = "insert"
    <3>1. HasApp(b, actor[a].id)
      BY <2>4 DEF HasApp
    <3>2. actor[a].id \in busy /\ ~HasApp(a, actor[a].id)
      BY <1>1, <2>1, <2>4, <3>1 DEF TakenOnce
    <3> QED
      BY <1>1, <3>2 DEF HasApp
  <2>5. ASSUME NEW b \in Actors, actor'[b].id \in previews
        PROVE  /\ actor'[b].pc \in {"read", "lock"} /\ ~Own(b)' => actor'[b].fresh
               /\ actor'[b].pc \in {"start", "run", "decide"} /\ ~Own(b)' =>
                    actor'[b].ref = answered \/ Pending(actor[a].id)'
               /\ actor'[b].pc = "start" /\ Own(b)' => hooks[actor[a].id] = 0
    <3>1. CASE b = a
      <4>1. actor[a].pc = "decide" => a[1] = answered \/ Pending(actor[a].id)
        BY <1>1, <1>3, <2>1 DEF InTurn
      <4> QED
        BY <1>1, <1>2, <2>2, <2>3, <3>1, <4>1
    <3>2. CASE b # a
      <4>1. actor'[b] = actor[b] /\ (Own(b)' <=> Own(b)) /\ actor[b].id = actor[a].id
        BY <1>1, <1>2, <1>3, <2>5, <3>2
      <4>2. actor[b].pc \in {"start", "run", "decide"} => p # "decide"
        BY <2>4, <3>2, <4>1
      <4>3. /\ actor[b].pc \in {"read", "lock"} /\ ~Own(b) => actor[b].fresh
            /\ actor[b].pc \in {"start", "run", "decide"} /\ ~Own(b) =>
                 actor[b].ref = answered \/ Pending(actor[a].id)
            /\ actor[b].pc = "start" /\ Own(b) => hooks[actor[a].id] = 0
        BY <1>1, <2>1, <4>1 DEF InTurn, NoCommit
      <4> QED
        BY <2>2, <4>1, <4>2, <4>3
    <3> QED
      BY <3>1, <3>2
  <2>6. \A y \in previews : hooks[y] # 0 => hooks[y] = answered /\ hooks[y] = newest
    BY <2>1 DEF InTurn, NoCommit
  <2>7. ASSUME NEW b \in Actors, NEW y \in Previews, y \in previews, actor'[b].id = y
        PROVE  /\ actor'[b].pc \in {"read", "lock"} /\ ~Own(b)' => actor'[b].fresh
               /\ actor'[b].pc \in {"start", "run", "decide"} /\ ~Own(b)' =>
                    actor'[b].ref = answered \/ Pending(y)'
               /\ actor'[b].pc = "start" /\ Own(b)' => hooks[y] = 0
    <3>1. y = actor[a].id /\ y = actor'[a].id
      BY <1>1, <1>2, <2>7
    <3>2. Pending(actor[a].id)' => Pending(y)'
      BY <3>1 DEF Pending
    <3> QED
      BY <2>5, <2>7, <3>1, <3>2
  <2>8. previews \subseteq Previews /\ previews' = previews /\ hooks' = hooks
        /\ answered' = answered /\ newest' = newest
    BY <1>1 DEF PreviewTypeOK, PreviewInv, PreviewBase
  <2>9. ASSUME NEW b \in Actors, actor'[b].id \in previews
        PROVE  /\ actor'[b].pc \in {"read", "lock"} /\ ~Own(b)' => actor'[b].fresh
               /\ actor'[b].pc \in {"start", "run", "decide"} /\ ~Own(b)' =>
                    actor'[b].ref = answered \/ Pending(actor[b].id)'
               /\ actor'[b].pc = "start" /\ Own(b)' => hooks[actor'[b].id] = 0
    <3> DEFINE y == actor'[b].id
    <3>1. y \in Previews
      BY <2>8, <2>9
    <3> QED
      BY <2>7, <2>9, <3>1 DEF Pending
  <2> QED
    BY <2>6, <2>8, <2>9 DEF InTurn, NoCommit
<1>12. ~disordered' /\ ~overtaken' => OnItsWay'
  <2> SUFFICES ASSUME ~disordered, ~overtaken, answered # 0 PROVE OnItsWay'
    BY <1>1 DEF OnItsWay
  <2>1. OnItsWay
    BY DEF PreviewInv, PreviewTurn
  <2>2. ASSUME NEW x \in previews, Reaches(x) PROVE answered \in undone' \/ Reaches(x)'
    <3>0. x = actor[a].id
      BY <1>1
    <3>1. CASE shows[x].commit = answered
      BY <3>1 DEF Reaches
    <3>2. ASSUME hooks[x] = answered, NEW b \in Actors, Serves(b, x)
          PROVE  answered \in undone' \/ Reaches(x)'
      <4>1. CASE Serves(b, x)'
        BY <3>2, <4>1 DEF Reaches
      <4>2. CASE ~Serves(b, x)'
        <5>1. b = a /\ actor[a].pc = "decide" /\ p = "pending"
          BY <1>1, <1>2, <3>2, <4>2 DEF Serves
        <5> QED
          BY <3>0, <3>2, <5>1
      <4> QED
        BY <4>1, <4>2
    <3>3. ASSUME NEW b \in Actors, actor[b].id = x, actor[b].ref = answered,
                 actor[b].pc \in {"read", "lock", "start", "run", "insert", "pending",
                                  "decide"}
          PROVE  Reaches(x)'
      BY <1>1, <1>2, <3>3 DEF Reaches
    <3> QED
      BY <2>2, <3>1, <3>2, <3>3 DEF Reaches
  <2> QED
    BY <1>1, <1>2, <1>3, <2>1, <2>2 DEF OnItsWay
<1>13. ~disordered' /\ undone' = {} => EnvCopied'
  BY <1>1, <1>2, <1>3 DEF EnvCopied, PreviewInv, PreviewEnv
<1> QED
  BY <1>1, <1>4, <1>5, <1>6, <1>7, <1>8, <1>9, <1>10, <1>11, <1>12, <1>13
     DEF PreviewInv, PreviewBase, PreviewOrder,
     PreviewTurn, PreviewEnv

\* The events that were delivered have happened.
LEMMA AcceptedThere ==
  ASSUME PreviewInv
  PROVE  /\ \A f \in accepted : f \in 1..Len(events)
         /\ answered # 0 => answered \in accepted
         /\ \A f \in Events : f <= newest => f \in 1..Len(events)
<1>1. /\ accepted \subseteq Events /\ Len(events) \in Nat /\ newest \in accepted \union {0}
      /\ answered \in accepted \union {0} /\ \A f \in accepted : f <= Len(events)
  BY DEF HistoryOK, PreviewTypeOK, PreviewInv, PreviewBase, NoCommit
<1>2. \A f \in Events : f \in Nat /\ f # 0
  BY PrevTypes
<1>3. \A f \in accepted : f \in 1..Len(events)
  BY <1>1, <1>2
<1>4. newest # 0 => newest \in 1..Len(events)
  BY <1>1, <1>3
<1> QED
  BY <1>1, <1>2, <1>3, <1>4, PrevTypes

\* A delivery that is no duplicate begins a call.
LEMMA DeliverStep ==
  ASSUME PreviewInv, NEW e \in Events, NEW a \in Actors, a = <<e, "call">>, Deliver(e)
  PROVE  PreviewInv'
<1>1. /\ UNCHANGED <<events, created, previews, withEnv, busy, hooks, shows, troubles,
        forgotten, newest,
                     answered, undone, overtaken>>
      /\ actor' \in [Actors -> ActorRows] /\ kept' = kept \union {e}
           /\ accepted' = accepted \union {e}
      /\ e <= Len(events) /\ e \notin kept /\ actor[a].pc = "rest"
           /\ actor[<<e, "job">>].pc = "rest"
      /\ IsCall(a) /\ a[1] = e /\ disordered' \in BOOLEAN
      /\ ~disordered' => /\ ~disordered /\ e \notin forgotten
                         /\ e \notin accepted => \A f \in accepted : ~(f > e)
                         /\ \A f \in Events : actor[<<f, "call">>].pc = "rest"
  <2>1. actor' \in [Actors -> ActorRows]
    <3>1. [AtRest EXCEPT !.pc = "find", !.ref = e] \in ActorRows
      BY RestActor DEF ActorRows, ActorPcs
    <3> QED
      BY <3>1, PrevTypes DEF Deliver
  <2>2. disordered' \in BOOLEAN /\ IsCall(a) /\ a[1] = e
    BY ActorFacts DEF Deliver, PreviewInv
  <2> QED
    BY <2>1, <2>2 DEF Deliver, CheckDelivery, previewState
<1>2. /\ actor'[a].pc = "find" /\ actor'[a].id = 0 /\ actor'[a].ref = e
      /\ \A b \in Actors : b # a => actor'[b] = actor[b]
  BY PrevTypes DEF Deliver, AtRest, ActorRows
<1>3. /\ Own(a)' /\ \A b \in Actors : b # a => (Own(b)' <=> Own(b))
      /\ ~disordered' => /\ \A b \in Actors : IsCall(b) => actor[b].pc = "rest"
                         /\ \A f \in accepted : f < e
                         /\ answered < e
  <2>1. Own(a)' /\ \A b \in Actors : b # a => (Own(b)' <=> Own(b))
    BY <1>1, <1>2 DEF Own
  <2>2. ASSUME ~disordered'
        PROVE  /\ \A b \in Actors : IsCall(b) => actor[b].pc = "rest"
               /\ \A f \in accepted : f < e
               /\ answered < e
    <3>1. \A b \in Actors : IsCall(b) => actor[b].pc = "rest"
      BY <1>1, <2>2, ActorFacts
    <3>2. /\ e \notin accepted /\ accepted \subseteq Events /\ answered \in accepted \union {0}
      BY <1>1, <2>2 DEF HistoryOK, PreviewTypeOK, PreviewInv, PreviewBase
    <3>3. \A f \in accepted : f < e
      BY <1>1, <2>2, <3>2, PrevTypes
    <3> QED
      BY <3>1, <3>2, <3>3, PrevTypes
  <2> QED
    BY <2>1, <2>2
<1>4. PreviewTypeOK'
  BY <1>1 DEF PreviewTypeOK, ActorRows, PreviewInv, PreviewBase
<1>5. (OneOpen /\ HistoryOK)'
  BY <1>1 DEF OneOpen, HistoryOK, PreviewInv, PreviewBase
<1>6. ActorsOK'
  <2> SUFFICES ASSUME NEW b \in Actors PROVE ActorOK(b)'
    BY DEF ActorsOK
  <2>1. ActorOK(b)
    BY DEF ActorsOK, PreviewInv, PreviewBase
  <2>2. CASE b = a
    BY <2>1, <2>2, <1>1, <1>2, <1>3, PrevTypes, PrevTypes DEF ActorOK, NoCommit
  <2>3. CASE b # a
    BY <2>1, <2>3, <1>1, <1>2, <1>3, PrevTypes DEF ActorOK
  <2> QED
    BY <2>2, <2>3
<1>7. TakenOnce'
  BY <1>1, <1>2 DEF TakenOnce, HasApp, PreviewInv, PreviewBase
<1>8. ~disordered' => CallsInOrder'
  <2> SUFFICES ASSUME ~disordered' PROVE CallsInOrder'
    OBVIOUS
  <2>1. \A b \in Actors : IsCall(b) /\ actor'[b].pc # "rest" => b = a
    BY <1>2, <1>3, <1>1
  <2>2. answered' < a[1] /\ \A f \in accepted' : f <= a[1]
    BY <1>1, <1>3, PrevTypes DEF PreviewInv, PreviewBase, PreviewTypeOK
  <2>3. \A b \in Actors : Own(b)' => actor'[b].pc \in {"rest", "find"}
    BY <1>2, <2>1 DEF Own
  <2> QED
    BY <2>1, <2>2, <2>3 DEF CallsInOrder
<1>9. ~disordered' => PushesAnswered'
  <2> SUFFICES ASSUME ~disordered' PROVE PushesAnswered'
    OBVIOUS
  <2>1. PushesAnswered
    BY <1>1 DEF PreviewInv, PreviewOrder
  <2>2. \A b \in Actors : ~Own(b)' => b # a /\ ~Own(b) /\ actor'[b] = actor[b]
    BY <1>2, <1>3
  <2> QED
    BY <1>1, <2>1, <2>2 DEF PushesAnswered
<1>10. ~disordered' => PushOnce'
  <2> SUFFICES ASSUME ~disordered' PROVE PushOnce'
    OBVIOUS
  <2>1. PushOnce /\ PushesAnswered
    BY <1>1 DEF PreviewInv, PreviewOrder
  <2>2. \A b \in Actors : \A c \in Events \union {0} :
          Carries(b, c)' => (b = a /\ c = e) \/ (b # a /\ Carries(b, c))
    BY <1>2 DEF Carries
  <2>3. \A b \in Actors : ~Carries(b, e)
    <3> SUFFICES ASSUME NEW b \in Actors, Carries(b, e) PROVE FALSE
      OBVIOUS
    <3>1. ~IsCall(b) /\ actor[b].ref = e
      BY <1>3 DEF Carries
    <3>2. e <= answered
      BY <2>1, <3>1 DEF PushesAnswered, Own
    <3> QED
      BY <1>3, <3>2, PrevTypes
  <2>4. \A x \in Previews : hooks[x] # e /\ shows[x].commit # e
    BY <1>3, <2>1, PrevTypes DEF PushesAnswered
  <2>5. ~Begun(e)
    BY <1>1, <2>4 DEF Begun
  <2>6. \A c \in Events : Begun(c)' => Begun(c)
    <3> SUFFICES ASSUME NEW c \in Events PROVE Begun(c)' => Begun(c)
      OBVIOUS
    <3>1. /\ <<c, "job">> \in Actors /\ <<c, "job">> # a
          /\ <<c, "call">> \in Actors /\ (<<c, "call">> = a => c = e)
      BY <1>1, ActorFacts
    <3>2. actor'[a].ref = e
      BY <1>2
    <3> QED
      BY <1>1, <1>2, <3>1, <3>2 DEF Begun
  <2>7. \A x \in Previews : hooks'[x] = hooks[x]
    BY <1>1
  <2>8. \A b, d \in Actors : \A c \in Events : Carries(b, c)' /\ Carries(d, c)' => b = d
    BY <2>1, <2>2, <2>3 DEF PushOnce
  <2>9. \A b \in Actors : \A x \in Previews : hooks[x] # 0 => \A c \in Events :
          c = hooks[x] => ~Carries(b, c)'
    BY <2>1, <2>2, <2>4 DEF PushOnce, NoCommit
  <2>10. \A c \in Events : Begun(c)' => \A b \in Actors : ~Carries(b, c)'
    BY <2>1, <2>2, <2>5, <2>6 DEF PushOnce
  <2> QED
    BY <1>1, <2>1, <2>6, <2>7, <2>8, <2>9, <2>10, PrevTypes DEF PushOnce, NoCommit
<1>11. ~disordered' /\ ~overtaken' => InTurn'
  <2> SUFFICES ASSUME ~disordered', ~overtaken PROVE InTurn'
    BY <1>1
  <2>1. InTurn /\ previews \subseteq Previews
    BY <1>1 DEF PreviewInv, PreviewTurn, PreviewBase, PreviewTypeOK
  <2>2. \A x \in previews : Pending(x) => Pending(x)'
    BY <1>1, <1>2 DEF Pending
  <2>3. ASSUME NEW b \in Actors, actor'[b].id \in previews
        PROVE  b # a /\ actor'[b] = actor[b] /\ (Own(b)' <=> Own(b))
    BY <1>2, <1>3, <2>1, <2>3, PrevTypes
  <2>4. ASSUME NEW b \in Actors, NEW x \in previews, actor'[b].id = x
        PROVE  /\ actor'[b].pc \in {"read", "lock"} /\ ~Own(b)' => actor'[b].fresh
               /\ actor'[b].pc \in {"start", "run", "decide"} /\ ~Own(b)' =>
                    actor'[b].ref = answered \/ Pending(x)'
               /\ actor'[b].pc = "start" /\ Own(b)' => hooks[x] = 0
    BY <2>1, <2>2, <2>3, <2>4 DEF InTurn, NoCommit
  <2> QED
    BY <1>1, <2>1, <2>4 DEF InTurn, NoCommit
<1>12. ~disordered' /\ ~overtaken' => OnItsWay'
  <2> SUFFICES ASSUME ~disordered', ~overtaken PROVE OnItsWay'
    BY <1>1
  <2>1. OnItsWay
    BY <1>1 DEF PreviewInv, PreviewTurn
  <2>2. \A x \in previews : Reaches(x) => Reaches(x)'
    BY <1>1, <1>2 DEF Reaches, Serves
  <2>3. \A b \in Actors : Own(b) /\ actor[b].pc # "rest" => Own(b)' /\ actor'[b].pc # "rest"
    BY <1>1, <1>2, <1>3
  <2> QED
    BY <1>1, <2>1, <2>2, <2>3 DEF OnItsWay
<1>13. ~disordered' /\ undone' = {} => EnvCopied'
  <2> SUFFICES ASSUME ~disordered', undone = {} PROVE EnvCopied'
    BY <1>1
  <2>1. EnvCopied
    BY <1>1 DEF PreviewInv, PreviewEnv
  <2>2. \A b \in Actors : actor[b].pc = "env" => actor'[b] = actor[b]
    BY <1>1, <1>2
  <2>3. \A b \in Actors : actor'[b].pc \notin {"rest", "find", "create", "env"} =>
          actor'[b] = actor[b]
    BY <1>2
  <2> QED
    BY <1>1, <2>1, <2>2, <2>3 DEF EnvCopied
<1> QED
  BY <1>1, <1>4, <1>5, <1>6, <1>7, <1>8, <1>9, <1>10, <1>11, <1>12, <1>13
     DEF PreviewInv, PreviewBase, PreviewOrder,
     PreviewTurn, PreviewEnv

\* The record of a delivery expires.
LEMMA ForgetStep ==
  ASSUME PreviewInv, NEW e \in Events, ForgetDelivery(e), troubles' \in 0..MaxTroubles
  PROVE  PreviewInv'
<1>1. /\ UNCHANGED <<events, created, previews, withEnv, busy, hooks, shows, actor,
        accepted, newest,
                     answered, undone, disordered, overtaken>>
      /\ kept' \subseteq Events /\ forgotten' \subseteq Events
  BY DEF ForgetDelivery, previewState, PreviewInv, PreviewBase, PreviewTypeOK
<1>2. \A f \in accepted : f \in kept' \/ f \in forgotten'
  BY DEF ForgetDelivery, HistoryOK, PreviewInv, PreviewBase
<1>3. accepted' = accepted /\ events' = events
  BY <1>1
<1>4. PreviewTypeOK'
  BY <1>1 DEF PreviewTypeOK, PreviewInv, PreviewBase
<1>5. (OneOpen /\ HistoryOK)'
  BY <1>1, <1>2 DEF OneOpen, HistoryOK, PreviewInv, PreviewBase
<1>6. ActorsOK'
  BY <1>1, <1>2, <1>3 DEF ActorsOK, ActorOK, Own, PreviewInv, PreviewBase
<1>7. TakenOnce'
  BY <1>1 DEF TakenOnce, HasApp, PreviewInv, PreviewBase
<1>8. ~disordered' => CallsInOrder'
  BY <1>1 DEF CallsInOrder, Own, PreviewInv, PreviewOrder
<1>9. ~disordered' => PushesAnswered'
  BY <1>1 DEF PushesAnswered, Own, PreviewInv, PreviewOrder
<1>10. ~disordered' => PushOnce'
  BY <1>1 DEF PushOnce, Carries, Begun, PreviewInv, PreviewOrder
<1>11. ~disordered' /\ ~overtaken' => InTurn'
  BY <1>1 DEF InTurn, Pending, Own, PreviewInv, PreviewTurn
<1>12. ~disordered' /\ ~overtaken' => OnItsWay'
  BY <1>1 DEF OnItsWay, Reaches, Serves, Own, PreviewInv, PreviewTurn
<1>13. ~disordered' /\ undone' = {} => EnvCopied'
  BY <1>1 DEF EnvCopied, PreviewInv, PreviewEnv
<1> QED
  BY <1>1, <1>4, <1>5, <1>6, <1>7, <1>8, <1>9, <1>10, <1>11, <1>12, <1>13
     DEF PreviewInv, PreviewBase, PreviewOrder,
     PreviewTurn, PreviewEnv

\* Something happens to the pull request.
LEMMA HappensStep ==
  ASSUME PreviewInv, NEW kind \in {"push", "close"}, Happens(kind)
  PROVE  PreviewInv'
<1>1. /\ UNCHANGED <<kept, created, previews, withEnv, busy, hooks, shows, actor, troubles,
        accepted,
                     forgotten, newest, answered, undone, disordered, overtaken>>
      /\ events' \in Seq({"push", "close"}) /\ Len(events') = Len(events) + 1
           /\ Len(events) \in Nat
      /\ \A i \in 1..Len(events) : events'[i] = events[i]
  <2>1. events \in Seq({"push", "close"}) /\ events' = Append(events, kind)
    BY DEF Happens, PreviewInv, PreviewBase, PreviewTypeOK
  <2>2. /\ events' \in Seq({"push", "close"}) /\ Len(events') = Len(events) + 1
          /\ Len(events) \in Nat
        /\ \A i \in 1..Len(events) : events'[i] = events[i]
    BY <2>1
  <2> QED
    BY <2>2 DEF Happens, previewState, previewHistory
<1>2. /\ \A f \in accepted : f \in 1..Len(events) /\ events'[f] = events[f]
      /\ answered # 0 => events'[answered] = events[answered]
      /\ \A f \in Events : f <= newest => events'[f] = events[f]
  BY <1>1, AcceptedThere, PrevTypes
<1>3. \A b \in Actors : /\ IsCall(b) /\ actor[b].pc # "rest" => events'[b[1]] = events[b[1]]
                        /\ actor[b].ref # 0 /\ actor[b].ref <= newest =>
                             events'[actor[b].ref] = events[actor[b].ref]
  <2>1. \A b \in Actors : IsCall(b) /\ actor[b].pc # "rest" => b[1] \in accepted
    BY DEF ActorOK, ActorsOK, PreviewInv, PreviewBase
  <2> QED
    BY <1>2, <2>1, PrevTypes
<1>4. PreviewTypeOK'
  BY <1>1 DEF PreviewTypeOK, PreviewInv, PreviewBase
<1>5. (OneOpen /\ HistoryOK)'
  <2>1. OneOpen'
    BY <1>1 DEF OneOpen, PreviewInv, PreviewBase
  <2>2. \A x \in Previews : hooks[x] <= newest /\ (hooks[x] # 0 => events'[hooks[x]] = "push")
    BY <1>1, <1>2, PrevTypes DEF HistoryOK, PreviewInv, PreviewBase, NoCommit
  <2>3. \A f \in accepted : f <= Len(events') /\ (f \in kept \/ f \in forgotten)
    BY <1>1, <1>2 DEF HistoryOK, PreviewInv, PreviewBase
  <2> QED
    BY <1>1, <1>2, <2>1, <2>2, <2>3 DEF HistoryOK, PreviewInv, PreviewBase, NoCommit
<1>6. ActorsOK'
  <2> SUFFICES ASSUME NEW b \in Actors PROVE ActorOK(b)'
    BY DEF ActorsOK
  <2>1. ActorOK(b) /\ b[1] # 0
    BY PrevTypes DEF ActorsOK, PreviewInv, PreviewBase
  <2>2. Own(b)' <=> Own(b)
    BY <1>1 DEF Own
  <2>3. actor[b].pc \in {"create", "env", "update", "read", "lock", "start"} =>
          events'[actor[b].ref] = "push"
    <3> SUFFICES ASSUME actor[b].pc \in {"create", "env", "update", "read", "lock", "start"}
                 PROVE  events'[actor[b].ref] = events[actor[b].ref]
      BY <2>1 DEF ActorOK
    <3>0. actor[b].pc # "rest" /\ (~Own(b) => actor[b].ref # 0 /\ actor[b].ref <= newest)
      BY <2>1 DEF ActorOK, NoCommit
    <3>1. CASE Own(b)
      BY <1>3, <3>0, <3>1 DEF Own
    <3>2. CASE ~Own(b)
      BY <1>3, <3>0, <3>2
    <3> QED
      BY <3>1, <3>2
  <2>4. ASSUME actor[b].pc \in {"delete", "remove"} PROVE events'[b[1]] = "close"
    <3>1. Own(b) /\ events[b[1]] = "close" /\ actor[b].pc # "rest"
      BY <2>1, <2>4 DEF ActorOK
    <3> QED
      BY <1>3, <3>1 DEF Own
  <2> QED
    BY <1>1, <2>1, <2>2, <2>3, <2>4 DEF ActorOK
<1>7. TakenOnce'
  BY <1>1 DEF TakenOnce, HasApp, PreviewInv, PreviewBase
<1>8. ~disordered' => CallsInOrder'
  BY <1>1 DEF CallsInOrder, Own, PreviewInv, PreviewOrder
<1>9. ~disordered' => PushesAnswered'
  BY <1>1, <1>2 DEF PushesAnswered, Own, PreviewInv, PreviewOrder
<1>10. ~disordered' => PushOnce'
  BY <1>1 DEF PushOnce, Carries, Begun, PreviewInv, PreviewOrder
<1>11. ~disordered' /\ ~overtaken' => InTurn'
  BY <1>1 DEF InTurn, Pending, Own, PreviewInv, PreviewTurn
<1>12. ~disordered' /\ ~overtaken' => OnItsWay'
  BY <1>1, <1>2 DEF OnItsWay, Reaches, Serves, Own, PreviewInv, PreviewTurn
<1>13. ~disordered' /\ undone' = {} => EnvCopied'
  BY <1>1 DEF EnvCopied, PreviewInv, PreviewEnv
<1> QED
  BY <1>1, <1>4, <1>5, <1>6, <1>7, <1>8, <1>9, <1>10, <1>11, <1>12, <1>13
     DEF PreviewInv, PreviewBase, PreviewOrder,
     PreviewTurn, PreviewEnv

\* The server restarts.
LEMMA RestartStep ==
  ASSUME PreviewInv, RestartAll, troubles' \in 0..MaxTroubles
  PROVE  PreviewInv'
<1>1. /\ UNCHANGED <<events, created, previews, withEnv, shows, accepted, newest, answered,
                     disordered, overtaken>>
      /\ kept' = {} /\ forgotten' = forgotten \union kept /\ busy' = {}
      /\ hooks' \in [Previews -> Events \union {NoCommit}] /\ \A x \in Previews : hooks'[x] = 0
  BY DEF RestartAll, NoCommit
<1>2. /\ \A b \in Actors \ PendingRows :
           actor'[b].pc = "rest" /\ actor'[b].id = 0 /\ actor'[b].ref = 0
      /\ \A b \in PendingRows :
           /\ actor'[b].pc = "pending" /\ actor'[b].id = actor[b].id
           /\ actor'[b].ref = actor[b].ref /\ actor'[b].env = actor[b].env
      /\ actor' \in [Actors -> ActorRows] /\ PendingRows \subseteq Actors
  <2>1. \A b \in Actors : actor[b] \in ActorRows
    BY PrevTypes
  <2>2. \A b \in PendingRows : /\ [actor[b] EXCEPT !.pc = "pending"] \in ActorRows
                               /\ actor'[b] = [actor[b] EXCEPT !.pc = "pending"]
    BY <2>1 DEF RestartAll, PendingRows, ActorRows, ActorPcs
  <2>3. \A b \in Actors \ PendingRows : actor'[b] = AtRest
    BY DEF RestartAll
  <2>4. PendingRows \subseteq Actors
    BY DEF PendingRows
  <2>5. actor' \in [Actors -> ActorRows]
    <3>1. actor' = [b \in Actors |-> actor'[b]]
      BY DEF RestartAll
    <3> QED
      BY <2>2, <2>3, <3>1, RestActor
  <2>6. \A b \in PendingRows :
           /\ actor'[b].pc = "pending" /\ actor'[b].id = actor[b].id
           /\ actor'[b].ref = actor[b].ref /\ actor'[b].env = actor[b].env
    BY <2>1, <2>2, <2>4 DEF ActorRows
  <2> QED
    BY <2>3, <2>4, <2>5, <2>6, RestActor DEF NoCommit
<1>3. /\ \A b \in PendingRows : ~IsCall(b) /\ ~Own(b) /\ ActorOK(b)
           /\ actor[b].pc \in {"pending", "decide"}
      /\ \A b \in Actors : ~Own(b)'
      /\ \A b \in Actors \ PendingRows : actor[b].ref # 0 => actor[b].ref \in undone'
      /\ \A x \in Previews : hooks[x] # 0 => hooks[x] \in undone'
      /\ undone \subseteq undone' /\ undone' \subseteq Events
  <2>0. \A b \in PendingRows : ~IsCall(b) /\ ~Own(b) /\ ActorOK(b)
           /\ actor[b].pc \in {"pending", "decide"}
    BY DEF PendingRows, ActorsOK, ActorOK, Own, PreviewInv, PreviewBase
  <2>1. \A b \in Actors : ~Own(b)'
    BY <1>2, <2>0, PrevTypes DEF Own
  <2>2. undone' = undone \union
          (({actor[a].ref : a \in Actors \ PendingRows} \union {hooks[x] : x \in Previews})
             \ {0})
    BY DEF RestartAll, Undone, NoCommit
  <2>3. undone \subseteq Events
    BY DEF PreviewTypeOK, PreviewInv, PreviewBase
  <2> QED
    BY <2>0, <2>1, <2>2, <2>3, PrevTypes
<1>4. PreviewTypeOK'
  BY <1>1, <1>2, <1>3 DEF PreviewTypeOK, ActorRows, PreviewInv, PreviewBase
<1>5. (OneOpen /\ HistoryOK)'
  <2>1. newest \in Nat
    BY PrevTypes
  <2>2. OneOpen'
    BY <1>1 DEF OneOpen, PreviewInv, PreviewBase, NoCommit
  <2> QED
    BY <1>1, <2>1, <2>2 DEF HistoryOK, PreviewInv, PreviewBase, NoCommit
<1>6. ActorsOK'
  <2> SUFFICES ASSUME NEW b \in Actors PROVE ActorOK(b)'
    BY DEF ActorsOK
  <2>1. CASE b \in PendingRows
    BY <1>1, <1>2, <1>3, <2>1 DEF ActorOK
  <2>2. CASE b \notin PendingRows
    BY <1>1, <1>2, <2>2, PrevTypes DEF ActorOK, NoCommit
  <2> QED
    BY <2>1, <2>2
<1>7. TakenOnce'
  <2>1. \A b \in Actors : \A x \in Previews : ~HasApp(b, x)'
    BY <1>2 DEF HasApp
  <2> QED
    BY <1>1, <2>1 DEF TakenOnce
<1>8. ~disordered' => CallsInOrder'
  BY <1>2, <1>3 DEF CallsInOrder
<1>9. ~disordered' => PushesAnswered'
  <2> SUFFICES ASSUME ~disordered PROVE PushesAnswered'
    BY <1>1
  <2>1. PushesAnswered /\ answered \in Nat /\ previews \subseteq Previews
    BY PrevTypes DEF PreviewInv, PreviewOrder, PreviewBase, PreviewTypeOK
  <2>2. ASSUME answered # 0, events[answered] = "close", NEW x \in previews,
               NEW b \in Actors, actor'[b].id = x
        PROVE  actor'[b].pc \notin {"read", "lock", "start", "run", "insert", "pending",
                                    "decide"}
    <3>1. CASE b \in PendingRows
      BY <1>2, <1>3, <2>1, <2>2, <3>1 DEF PushesAnswered
    <3>2. CASE b \notin PendingRows
      BY <1>2, <3>2
    <3> QED
      BY <3>1, <3>2
  <2>3. \A x \in previews : hooks'[x] = NoCommit
    BY <1>1, <2>1 DEF NoCommit
  <2>4. \A x \in Previews : hooks'[x] <= answered /\ shows[x].commit <= answered
    BY <1>1, <2>1 DEF PushesAnswered
  <2>5. \A b \in Actors : actor'[b].ref <= answered
    BY <1>2, <1>3, <2>1 DEF PushesAnswered
  <2> QED
    BY <1>1, <2>2, <2>3, <2>4, <2>5 DEF PushesAnswered
<1>10. ~disordered' => PushOnce'
  <2>1. \A b \in Actors : \A c \in Events : ~Carries(b, c)'
    BY <1>2, <1>3 DEF Carries
  <2>2. \A c \in Events : c # 0
    BY PrevTypes
  <2> QED
    BY <1>1, <2>1, <2>2 DEF PushOnce, NoCommit
<1>11. ~disordered' /\ ~overtaken' => InTurn'
  <2>1. previews \subseteq Previews
    BY DEF PreviewTypeOK, PreviewInv, PreviewBase
  <2>2. \A b \in Actors : actor'[b].pc \in {"rest", "pending"}
    BY <1>2
  <2> QED
    BY <1>1, <2>1, <2>2 DEF InTurn, NoCommit
<1>12. ~disordered' /\ ~overtaken' => OnItsWay'
  <2> SUFFICES ASSUME ~disordered, ~overtaken, answered # 0 PROVE OnItsWay'
    BY <1>1 DEF OnItsWay
  <2>1. OnItsWay /\ previews \subseteq Previews
    BY DEF PreviewInv, PreviewTurn, PreviewTypeOK, PreviewBase
  <2>2. ASSUME NEW x \in previews, Reaches(x) PROVE answered \in undone' \/ Reaches(x)'
    <3>1. CASE shows[x].commit = answered
      BY <1>1, <3>1 DEF Reaches
    <3>2. CASE hooks[x] = answered
      BY <1>3, <2>1, <3>2
    <3>3. ASSUME NEW b \in Actors, actor[b].id = x, actor[b].ref = answered
          PROVE  answered \in undone' \/ Reaches(x)'
      <4>1. CASE b \in PendingRows
        BY <1>1, <1>2, <3>3, <4>1 DEF Reaches
      <4>2. CASE b \notin PendingRows
        BY <1>3, <3>3, <4>2
      <4> QED
        BY <4>1, <4>2
    <3> QED
      BY <2>2, <3>1, <3>2, <3>3 DEF Reaches
  <2>3. ASSUME NEW b \in Actors, Own(b), b[1] > answered
        PROVE  \E e \in undone' : e > answered
    BY <1>3, <2>3, PrevTypes DEF Own
  <2> QED
    BY <1>1, <1>3, <2>1, <2>2, <2>3 DEF OnItsWay
<1>13. ~disordered' /\ undone' = {} => EnvCopied'
  <2> SUFFICES ASSUME ~disordered, undone' = {} PROVE EnvCopied'
    BY <1>1
  <2>1. EnvCopied
    BY <1>3 DEF PreviewInv, PreviewEnv
  <2>2. \A b \in Actors : actor[b].pc # "env"
    BY <1>3, PrevTypes DEF ActorsOK, ActorOK, Own, PreviewInv, PreviewBase
  <2>3. ASSUME NEW b \in Actors, actor'[b].pc # "rest", actor'[b].id \in previews
        PROVE  actor'[b].id \in withEnv /\ actor'[b].env
    BY <1>2, <1>3, <2>1, <2>3 DEF EnvCopied
  <2> QED
    BY <1>1, <2>1, <2>2, <2>3 DEF EnvCopied
<1> QED
  BY <1>1, <1>4, <1>5, <1>6, <1>7, <1>8, <1>9, <1>10, <1>11, <1>12, <1>13
     DEF PreviewInv, PreviewBase, PreviewOrder,
     PreviewTurn, PreviewEnv

\* An actor that stops, and one that goes on.
LEMMA StopTurn ==
  ASSUME PreviewInv, NEW a \in Actors, actor' = [actor EXCEPT ![a] = AtRest]
  PROVE  Turns(a, AtRest)
BY PrevTypes, RestActor DEF Turns

\* An actor that goes on with what it has.
LEMMA GoTurn ==
  ASSUME PreviewInv, NEW a \in Actors, NEW p \in ActorPcs, Goes(a, p)
  PROVE  /\ Turns(a, [actor[a] EXCEPT !.pc = p])
         /\ Turns(a, [actor[a] EXCEPT !.pc = p, !.id = actor[a].id])
<1>1. actor \in [Actors -> ActorRows] /\ actor[a] \in ActorRows
  BY PrevTypes
<1>2. [actor[a] EXCEPT !.pc = p] = [actor[a] EXCEPT !.pc = p, !.id = actor[a].id]
  BY <1>1 DEF ActorRows
<1>3. [actor[a] EXCEPT !.pc = p] \in ActorRows
  BY <1>1 DEF ActorRows
<1> QED
  BY <1>1, <1>2, <1>3 DEF Goes, Turns

\* An actor that goes on with the app that it has found or created.
LEMMA MoveTurn ==
  ASSUME PreviewInv, NEW a \in Actors, NEW p \in ActorPcs, NEW x \in 0..MaxPreviews,
         actor' = [actor EXCEPT ![a].pc = p, ![a].id = x]
  PROVE  Turns(a, [actor[a] EXCEPT !.pc = p, !.id = x])
<1>1. actor \in [Actors -> ActorRows] /\ actor[a] \in ActorRows
  BY PrevTypes
<1>2. [actor[a] EXCEPT !.pc = p, !.id = x] \in ActorRows
  BY <1>1 DEF ActorRows
<1>3. actor'[a] = [actor[a] EXCEPT !.pc = p, !.id = x]
  BY <1>1 DEF ActorRows
<1> QED
  BY <1>1, <1>2, <1>3 DEF Turns

\* find_preview_app.
LEMMA FindInv ==
  ASSUME PreviewInv, NEW e \in Events, FindPreview(e)
  PROVE  PreviewInv'
<1>1. PICK a \in Actors : a = <<e, "call">> /\ a[1] = e /\ IsCall(a)
  BY ActorFacts
<1>2. /\ actor[a].pc = "find" /\ actor[a].ref = a[1] /\ previews \subseteq Previews
      /\ Previews \subseteq 0..MaxPreviews /\ actor[a].id \in 0..MaxPreviews
      /\ events[a[1]] \in {"push", "close"}
      /\ UNCHANGED <<events, kept, previewState, troubles, accepted, forgotten, newest,
                     disordered, overtaken>>
  <2>1. actor[a].pc = "find" /\ actor[a].ref = a[1] /\ a[1] \in accepted
    BY <1>1 DEF FindPreview, ActorsOK, ActorOK, Own, PreviewInv, PreviewBase
  <2>2. previews \subseteq Previews /\ events \in Seq({"push", "close"})
    BY DEF PreviewInv, PreviewBase, PreviewTypeOK
  <2>3. actor[a].id \in 0..MaxPreviews
    BY PrevTypes DEF ActorRows
  <2>4. events[a[1]] \in {"push", "close"}
    BY <2>1, <2>2, AcceptedThere
  <2> QED
    BY <2>1, <2>2, <2>3, <2>4, PreviewNumbers DEF FindPreview, Previews
<1>3. CASE /\ events[e] = "push" /\ previews = {}
           /\ Goes(a, "create") /\ UNCHANGED <<answered, undone>>
  <2>1. Turns(a, [actor[a] EXCEPT !.pc = "create", !.id = actor[a].id])
    BY <1>3, GoTurn DEF ActorPcs
  <2> QED
    BY <1>1, <1>2, <1>3, <2>1, FindStep DEF previewState, previewHistory
<1>4. ASSUME NEW x \in previews,
             actor' = [actor EXCEPT ![a].id = x,
                         ![a].pc = IF events[e] = "push" THEN "update" ELSE "delete"],
             UNCHANGED <<answered, undone>>
      PROVE  PreviewInv'
  <2>0. x \in 0..MaxPreviews
    BY <1>2
  <2>1. CASE events[e] = "push"
    <3>1. actor' = [actor EXCEPT ![a].pc = "update", ![a].id = x]
      BY <1>4, <2>1, PrevTypes DEF ActorRows
    <3>2. Turns(a, [actor[a] EXCEPT !.pc = "update", !.id = x])
      BY <2>0, <3>1, MoveTurn DEF ActorPcs
    <3> QED
      BY <1>1, <1>2, <1>4, <2>0, <2>1, <3>2, FindStep DEF previewState, previewHistory
  <2>2. CASE events[e] = "close"
    <3>1. actor' = [actor EXCEPT ![a].pc = "delete", ![a].id = x]
      BY <1>4, <2>2, PrevTypes DEF ActorRows
    <3>2. Turns(a, [actor[a] EXCEPT !.pc = "delete", !.id = x])
      BY <2>0, <3>1, MoveTurn DEF ActorPcs
    <3> QED
      BY <1>1, <1>2, <1>4, <2>0, <2>2, <3>2, FindStep DEF previewState, previewHistory
  <2> QED
    BY <1>1, <1>2, <2>1, <2>2
<1>5. CASE /\ events[e] = "close" /\ previews = {}
           /\ actor' = [actor EXCEPT ![a] = AtRest] /\ Ends(a, TRUE)
  <2>1. Turns(a, AtRest)
    BY <1>5, StopTurn
  <2>2. answered' = a[1] /\ undone' = undone
    BY <1>1, <1>2, <1>5 DEF Ends
  <2> QED
    BY <1>1, <1>2, <1>5, <2>1, <2>2, GoneStep DEF previewState
<1> QED
  BY <1>1, <1>3, <1>4, <1>5 DEF FindPreview

\* add_app, copy_non_secret_app_env, update_preview_app and the row of the app.
LEMMA PrepareInv ==
  ASSUME PreviewInv, NEW a \in Actors,
         CreatePreview(a) \/ EnvStep(a) \/ UpdatePreview(a) \/ ReadPreview(a)
  PROVE  PreviewInv'
<1>1. /\ troubles \in 0..MaxTroubles /\ (Trouble => troubles' \in 0..MaxTroubles)
      /\ actor[a].id \in 0..MaxPreviews /\ created \in 0..MaxPreviews
  BY PreviewAssumption, PrevTypes
     DEF Trouble, PreviewInv, PreviewBase, PreviewTypeOK, ActorRows
<1>2. CASE CreatePreview(a)
  <2>1. CASE NameTaken /\ Errs(a) /\ UNCHANGED <<previewState, troubles>>
    BY <1>1, <1>2, <2>1, ErrStep DEF CreatePreview
  <2>2. CASE /\ ~NameTaken /\ created < MaxPreviews
             /\ created' = created + 1 /\ previews' = previews \union {created + 1}
             /\ Created(a)
             /\ UNCHANGED <<events, kept, withEnv, busy, hooks, shows, troubles,
                  previewHistory>>
    <3>1. previews = {} /\ previews' = {created + 1} /\ created + 1 \in 0..MaxPreviews
      BY <1>1, <2>2, PreviewAssumption DEF NameTaken
    <3>2. Turns(a, [actor[a] EXCEPT !.pc = "env", !.id = created + 1])
      BY <2>2, <3>1, MoveTurn DEF Created, ActorPcs
    <3> QED
      BY <1>2, <2>2, <3>1, <3>2, CreateStep DEF CreatePreview
  <2> QED
    BY <1>2, <2>1, <2>2 DEF CreatePreview
<1>3. CASE EnvStep(a)
  <2>1. CASE /\ Trouble \/ (actor[a].id \notin previews /\ UNCHANGED troubles)
             /\ Errs(a) /\ UNCHANGED previewState
    BY <1>1, <1>3, <2>1, ErrStep DEF EnvStep
  <2>2. CASE /\ actor[a].id \in previews
             /\ CopyEnv(actor[a].id) /\ Goes(a, "read")
             /\ UNCHANGED <<events, kept, created, previews, busy, hooks, shows, troubles,
                            previewHistory>>
    <3>1. Turns(a, [actor[a] EXCEPT !.pc = "read"])
      BY <2>2, GoTurn DEF ActorPcs
    <3> QED
      BY <1>3, <2>2, <3>1, EnvStepOk DEF EnvStep, CopyEnv
  <2> QED
    BY <1>3, <2>1, <2>2 DEF EnvStep
<1>4. CASE UpdatePreview(a)
  <2>1. CASE /\ Trouble \/ (actor[a].id \notin previews /\ UNCHANGED troubles)
             /\ Errs(a) /\ UNCHANGED previewState
    BY <1>1, <1>4, <2>1, ErrStep DEF UpdatePreview
  <2>2. CASE /\ actor[a].id \in previews
             /\ Goes(a, "read")
             /\ UNCHANGED <<events, kept, previewState, troubles, previewHistory>>
    <3>1. Turns(a, [actor[a] EXCEPT !.pc = "read", !.id = actor[a].id])
      BY <2>2, GoTurn DEF ActorPcs
    <3> QED
      BY <1>1, <1>4, <2>2, <3>1, FindStep DEF UpdatePreview, previewState
  <2> QED
    BY <1>4, <2>1, <2>2 DEF UpdatePreview
<1>5. CASE ReadPreview(a)
  <2>1. CASE actor[a].id \notin previews /\ Errs(a) /\ UNCHANGED <<previewState, troubles>>
    BY <1>1, <1>5, <2>1, ErrStep DEF ReadPreview
  <2>2. CASE /\ actor[a].id \in previews
             /\ Goes(a, "lock")
             /\ UNCHANGED <<events, kept, previewState, troubles, previewHistory>>
    <3>1. Turns(a, [actor[a] EXCEPT !.pc = "lock", !.id = actor[a].id])
      BY <2>2, GoTurn DEF ActorPcs
    <3> QED
      BY <1>1, <1>5, <2>2, <3>1, FindStep DEF ReadPreview, previewState
  <2> QED
    BY <1>5, <2>1, <2>2 DEF ReadPreview
<1> QED
  BY <1>2, <1>3, <1>4, <1>5

\* lock_or_queue_hook, deploy_app_locked, the pipeline and run_queued_hook.
LEMMA DeployInv ==
  ASSUME PreviewInv, NEW a \in Actors,
         LockOrQueue(a) \/ StartDeployment(a) \/ PipelineEnds(a) \/ TakeQueued(a)
  PROVE  PreviewInv'
<1>1. /\ troubles \in 0..MaxTroubles /\ (Trouble => troubles' \in 0..MaxTroubles)
  BY PreviewAssumption DEF Trouble, PreviewInv, PreviewBase, PreviewTypeOK
<1>2. CASE LockOrQueue(a)
  <2>1. CASE actor[a].id \in busy
    <3>1. /\ Turns(a, AtRest) /\ undone' = undone
          /\ answered' = IF Own(a) THEN a[1] ELSE answered
      BY <1>2, <2>1, StopTurn DEF LockOrQueue, Ends, Own
    <3>2. /\ actor[a].pc = "lock" /\ busy' = busy
          /\ hooks' = [hooks EXCEPT ![actor[a].id] = actor[a].ref]
          /\ newest' = IF actor[a].ref > newest THEN actor[a].ref ELSE newest
          /\ overtaken' = (overtaken \/ (actor[a].fresh /\ actor[a].ref < newest))
          /\ UNCHANGED <<events, kept, created, previews, withEnv, shows, troubles,
                         accepted, forgotten, disordered>>
      BY <1>2, <2>1 DEF LockOrQueue, QueueHook, PreviewInv
    <3> QED
      BY <2>1, <3>1, <3>2, QueueStep
  <2>2. CASE actor[a].id \notin busy
    <3>1. Turns(a, [actor[a] EXCEPT !.pc = "start"])
      BY <1>2, <2>2, GoTurn DEF LockOrQueue, ActorPcs
    <3>2. /\ actor[a].pc = "lock" /\ busy' = busy \union {actor[a].id}
          /\ newest' = IF actor[a].ref > newest THEN actor[a].ref ELSE newest
          /\ overtaken' = (\/ overtaken \/ (actor[a].fresh /\ actor[a].ref < newest)
                           \/ hooks[actor[a].id] # NoCommit)
          /\ UNCHANGED <<events, kept, created, previews, withEnv, hooks, shows, troubles,
                         accepted, forgotten, answered, undone, disordered>>
      BY <1>2, <2>2 DEF LockOrQueue, PreviewInv
    <3> QED
      BY <2>2, <3>1, <3>2, LockStep
  <2> QED
    BY <2>1, <2>2
<1>3. CASE StartDeployment(a)
  <2>1. CASE /\ Trouble \/ (actor[a].id \notin previews /\ UNCHANGED troubles)
             /\ actor' = [actor EXCEPT ![a] = AtRest]
             /\ answered' = answered
             /\ Undone({a[1], actor[a].ref, hooks[actor[a].id]})
             /\ busy' = busy \ {actor[a].id}
             /\ UNCHANGED <<events, kept, created, previews, withEnv, hooks, shows, accepted,
                            forgotten, newest, disordered, overtaken>>
    <3>1. Turns(a, AtRest) /\ actor[a].pc = "start"
      BY <1>3, <2>1, StopTurn DEF StartDeployment
    <3>2. undone' = undone \union ({a[1], actor[a].ref, hooks[actor[a].id]} \ {0})
      BY <2>1 DEF Undone, NoCommit
    <3> QED
      BY <1>1, <2>1, <3>1, <3>2, StartFails
  <2>2. CASE /\ actor[a].id \in previews
             /\ actor' = [actor EXCEPT ![a] = AtRest,
                  ![<<actor[a].ref, "job">>] =
                    [AtRest EXCEPT !.pc = "run", !.id = actor[a].id, !.ref = actor[a].ref,
                                   !.env = actor[a].id \in withEnv]]
             /\ Ends(a, TRUE)
             /\ UNCHANGED <<events, kept, previewState, troubles, accepted, forgotten, newest,
                            disordered, overtaken>>
    <3>1. actor[a].ref \in Events /\ actor[a].id \in 0..MaxPreviews /\ actor[a].pc = "start"
      BY <1>3, PrevTypes DEF StartDeployment, ActorsOK, ActorOK, ActorRows, PreviewInv,
         PreviewBase,
         NoCommit
    <3>2. PICK j \in Actors : j = <<actor[a].ref, "job">> /\ ~IsCall(j) /\ j[1] = actor[a].ref
      BY <3>1, ActorFacts
    <3>3. PICK r : r = [AtRest EXCEPT !.pc = "run", !.id = actor[a].id, !.ref = actor[a].ref,
                                      !.env = actor[a].id \in withEnv]
      OBVIOUS
    <3>4. /\ r \in ActorRows /\ r.pc = "run" /\ r.id = actor[a].id /\ r.ref = actor[a].ref
          /\ actor[a].id \in withEnv => r.env
      <4>1. PICK v \in BOOLEAN : v = (actor[a].id \in withEnv)
        <5>1. CASE actor[a].id \in withEnv
          <6>1. TRUE = (actor[a].id \in withEnv)
            BY <5>1
          <6> QED
            BY <6>1
        <5>2. CASE actor[a].id \notin withEnv
          <6>1. FALSE = (actor[a].id \in withEnv)
            BY <5>2
          <6> QED
            BY <6>1
        <5> QED
          BY <5>1, <5>2
      <4>2. r = [pc |-> "run", id |-> actor[a].id, ref |-> actor[a].ref, fresh |-> FALSE,
                 env |-> v]
        BY <3>3, <4>1 DEF AtRest
      <4>3. r \in ActorRows /\ r.pc = "run" /\ r.id = actor[a].id /\ r.ref = actor[a].ref
        BY <3>1, <4>2 DEF ActorRows, ActorPcs
      <4>4. r.env = v
        BY <4>2
      <4> QED
        BY <4>1, <4>3, <4>4
    <3>5. actor' = [actor EXCEPT ![a] = AtRest, ![j] = r] /\ actor \in [Actors -> ActorRows]
      BY <2>2, <3>2, <3>3, PrevTypes
    <3>6. /\ actor' \in [Actors -> ActorRows] /\ actor'[j] = r
          /\ a # j => actor'[a] = AtRest
          /\ \A b \in Actors : b # a /\ b # j => actor'[b] = actor[b]
      BY <3>4, <3>5, RestActor
    <3>7. undone' = undone /\ answered' = IF Own(a) THEN a[1] ELSE answered
      BY <2>2 DEF Ends, Own
    <3> QED
      BY <2>2, <3>1, <3>2, <3>4, <3>6, <3>7, StartOk DEF previewState
  <2>3. CASE /\ actor[a].id \in previews
             /\ busy' = busy \ {actor[a].id}
             /\ actor' = [actor EXCEPT ![a] = [AtRest EXCEPT !.pc = "take", !.id = actor[a].id],
                  ![<<actor[a].ref, "job">>] =
                    [AtRest EXCEPT !.pc = "insert", !.id = actor[a].id, !.ref = actor[a].ref,
                                   !.env = actor[a].id \in withEnv]]
             /\ Ends(a, TRUE)
             /\ UNCHANGED <<events, kept, created, previews, withEnv, hooks, shows, troubles,
                            accepted, forgotten, newest, disordered, overtaken>>
    <3>1. actor[a].ref \in Events /\ actor[a].id \in 0..MaxPreviews /\ actor[a].pc = "start"
      BY <1>3, PrevTypes DEF StartDeployment, ActorsOK, ActorOK, ActorRows, PreviewInv,
         PreviewBase,
         NoCommit
    <3>2. PICK j \in Actors : j = <<actor[a].ref, "job">> /\ ~IsCall(j) /\ j[1] = actor[a].ref
      BY <3>1, ActorFacts
    <3>3. PICK r : r = [AtRest EXCEPT !.pc = "insert", !.id = actor[a].id, !.ref = actor[a].ref,
                                      !.env = actor[a].id \in withEnv]
      OBVIOUS
    <3>4. /\ r \in ActorRows /\ r.pc = "insert" /\ r.id = actor[a].id /\ r.ref = actor[a].ref
          /\ actor[a].id \in withEnv => r.env
      <4>1. PICK v \in BOOLEAN : v = (actor[a].id \in withEnv)
        <5>1. CASE actor[a].id \in withEnv
          <6>1. TRUE = (actor[a].id \in withEnv)
            BY <5>1
          <6> QED
            BY <6>1
        <5>2. CASE actor[a].id \notin withEnv
          <6>1. FALSE = (actor[a].id \in withEnv)
            BY <5>2
          <6> QED
            BY <6>1
        <5> QED
          BY <5>1, <5>2
      <4>2. r = [pc |-> "insert", id |-> actor[a].id, ref |-> actor[a].ref, fresh |-> FALSE,
                 env |-> v]
        BY <3>3, <4>1 DEF AtRest
      <4>3. r \in ActorRows /\ r.pc = "insert" /\ r.id = actor[a].id /\ r.ref = actor[a].ref
        BY <3>1, <4>2 DEF ActorRows, ActorPcs
      <4>4. r.env = v
        BY <4>2
      <4> QED
        BY <4>1, <4>3, <4>4
    <3>8. PICK q : q = [AtRest EXCEPT !.pc = "take", !.id = actor[a].id]
      OBVIOUS
    <3>9. q \in ActorRows
      BY <3>1, <3>8, RestActor DEF ActorRows, ActorPcs
    <3>5. actor' = [actor EXCEPT ![a] = q, ![j] = r] /\ actor \in [Actors -> ActorRows]
      BY <2>3, <3>2, <3>3, <3>8, PrevTypes
    <3>6. /\ actor' \in [Actors -> ActorRows] /\ actor'[j] = r
          /\ a # j => actor'[a] = q
          /\ \A b \in Actors : b # a /\ b # j => actor'[b] = actor[b]
      BY <3>4, <3>5, <3>9
    <3>7. undone' = undone /\ answered' = IF Own(a) THEN a[1] ELSE answered
      BY <2>3 DEF Ends, Own
    <3> QED
      BY <2>3, <3>1, <3>2, <3>4, <3>6, <3>7, <3>8, PendStep
  <2> QED
    BY <1>3, <2>1, <2>2, <2>3 DEF StartDeployment
<1>4. CASE PipelineEnds(a)
  BY <1>4, EndsStep
<1>5. CASE TakeQueued(a)
  <2>1. actor[a].pc = "take"
    BY <1>5 DEF TakeQueued
  <2> QED
    BY <1>5, <2>1, TakeNothing, TakeStep
<1> QED
  BY <1>2, <1>3, <1>4, <1>5

\* The rows that wait for approval.
LEMMA RowInv ==
  ASSUME PreviewInv, NEW a \in Actors, InsertPending(a) \/ TakeRow(a) \/ Decide(a)
  PROVE  PreviewInv'
<1>1. /\ troubles \in 0..MaxTroubles /\ (Trouble => troubles' \in 0..MaxTroubles)
  BY PreviewAssumption DEF Trouble, PreviewInv, PreviewBase, PreviewTypeOK
<1>2. CASE InsertPending(a)
  <2>1. CASE /\ Trouble \/ (actor[a].id \notin previews /\ UNCHANGED troubles)
             /\ Errs(a)
    BY <1>1, <1>2, <2>1, ErrStep DEF InsertPending
  <2>2. CASE /\ actor[a].id \in previews /\ Goes(a, "pending")
             /\ UNCHANGED <<events, kept, troubles, previewHistory>>
    <3>1. Turns(a, [actor[a] EXCEPT !.pc = "pending"])
      BY <2>2, GoTurn DEF ActorPcs
    <3> QED
      BY <1>1, <1>2, <2>2, <3>1, RowStep DEF InsertPending, previewState, previewHistory
  <2> QED
    BY <1>2, <2>1, <2>2 DEF InsertPending
<1>3. CASE TakeRow(a)
  <2>1. Turns(a, [actor[a] EXCEPT !.pc = "decide"])
    BY <1>3, GoTurn DEF TakeRow, ActorPcs
  <2> QED
    BY <1>1, <1>3, <2>1, RowStep DEF TakeRow
<1>4. CASE Decide(a)
  <2>0. /\ actor[a].pc = "decide" /\ actor[a].ref = a[1]
        /\ UNCHANGED <<events, kept, created, previews, withEnv, hooks, shows, accepted,
                       forgotten, newest, answered, disordered, overtaken>>
    BY <1>4 DEF Decide, ActorsOK, ActorOK, PreviewInv, PreviewBase
  <2>1. CASE Goes(a, "run") /\ UNCHANGED <<busy, troubles, undone>>
    <3>1. Turns(a, [actor[a] EXCEPT !.pc = "run"])
      BY <2>1, GoTurn DEF ActorPcs
    <3> QED
      BY <1>1, <2>0, <2>1, <3>1, RowStep
  <2>2. CASE /\ actor' = [actor EXCEPT ![a] = AtRest] /\ busy' = busy \ {actor[a].id}
             /\ Undone({a[1], hooks[actor[a].id]}) /\ UNCHANGED troubles
    <3>1. Turns(a, AtRest)
      BY <2>2, StopTurn
    <3>2. undone' = undone \union ({a[1], actor[a].ref, hooks[actor[a].id]} \ {0})
      BY <2>0, <2>2 DEF Undone, NoCommit
    <3> QED
      BY <1>1, <2>0, <2>2, <3>1, <3>2, StartFails
  <2>3. CASE /\ Goes(a, "pending") /\ busy' = busy \ {actor[a].id}
             /\ Undone({hooks[actor[a].id]}) /\ Trouble
    <3>1. Turns(a, [actor[a] EXCEPT !.pc = "pending"])
      BY <2>3, GoTurn DEF ActorPcs
    <3>2. undone' = undone \union ({hooks[actor[a].id]} \ {0})
      BY <2>3 DEF Undone, NoCommit
    <3> QED
      BY <1>1, <2>0, <2>3, <3>1, <3>2, RowStep
  <2> QED
    BY <1>4, <2>1, <2>2, <2>3 DEF Decide
<1> QED
  BY <1>2, <1>3, <1>4

\* close_preview.
LEMMA CloseInv ==
  ASSUME PreviewInv, NEW a \in Actors, LockDeletion(a) \/ RemovePreview(a)
  PROVE  PreviewInv'
<1>1. /\ troubles \in 0..MaxTroubles /\ (Trouble => troubles' \in 0..MaxTroubles)
  BY PreviewAssumption DEF Trouble, PreviewInv, PreviewBase, PreviewTypeOK
<1>2. CASE LockDeletion(a)
  <2>1. CASE Errs(a) /\ UNCHANGED <<previewState, troubles>>
    BY <1>1, <1>2, <2>1, ErrStep DEF LockDeletion
  <2>2. CASE /\ MayDelete(actor[a].id)
             /\ busy' = busy \union {actor[a].id} /\ Goes(a, "remove")
             /\ UNCHANGED <<events, kept, created, previews, withEnv, hooks, shows, troubles,
                            previewHistory>>
    <3>1. Turns(a, [actor[a] EXCEPT !.pc = "remove"])
      BY <2>2, GoTurn DEF ActorPcs
    <3> QED
      BY <1>2, <2>2, <3>1, LockDeletionStep DEF LockDeletion, MayDelete
  <2> QED
    BY <1>2, <2>1, <2>2 DEF LockDeletion
<1>3. CASE RemovePreview(a)
  <2>0. /\ actor[a].pc = "remove" /\ busy' = busy \ {actor[a].id}
        /\ UNCHANGED <<events, kept, created, accepted, forgotten, newest, disordered,
             overtaken>>
        /\ IsCall(a) /\ actor[a].ref = a[1]
    BY <1>3 DEF RemovePreview, ActorsOK, ActorOK, Own, PreviewInv, PreviewBase
  <2>1. CASE /\ actor[a].id \in previews
             /\ previews' = previews \ {actor[a].id} /\ withEnv' = withEnv \ {actor[a].id}
             /\ hooks' = [hooks EXCEPT ![actor[a].id] = NoCommit]
             /\ shows' = [shows EXCEPT ![actor[a].id] = NotShown]
             /\ actor' = [actor EXCEPT ![a] = AtRest] /\ Ends(a, TRUE)
             /\ UNCHANGED troubles
    <3>1. Turns(a, AtRest)
      BY <2>1, StopTurn
    <3>2. answered' = a[1] /\ undone' = undone
      BY <2>0, <2>1 DEF Ends
    <3> QED
      BY <2>0, <2>1, <3>1, <3>2, RemoveStep
  <2>2. CASE /\ Trouble \/ (actor[a].id \notin previews /\ UNCHANGED troubles)
             /\ shows' \in {shows, [shows EXCEPT ![actor[a].id] = NotShown]}
             /\ Goes(a, "take")
             /\ Undone({a[1], answered}) /\ UNCHANGED answered
             /\ UNCHANGED <<previews, withEnv, hooks>>
    <3>1. Turns(a, [actor[a] EXCEPT !.pc = "take"])
      BY <2>2, GoTurn DEF ActorPcs
    <3>2. undone' = undone \union ({a[1], answered} \ {0})
      BY <2>2 DEF Undone, NoCommit
    <3> QED
      BY <1>1, <2>0, <2>2, <3>1, <3>2, RemoveFails
  <2> QED
    BY <1>3, <2>1, <2>2 DEF RemovePreview
<1> QED
  BY <1>2, <1>3

\* No step breaks the invariant.
LEMMA PreviewStepInv == PreviewInv /\ [PreviewNext]_previewVars => PreviewInv'
<1> SUFFICES ASSUME PreviewInv, [PreviewNext]_previewVars PROVE PreviewInv'
  OBVIOUS
<1>1. Trouble => troubles' \in 0..MaxTroubles
  BY PreviewAssumption DEF Trouble, PreviewInv, PreviewBase, PreviewTypeOK
<1>2. ASSUME NEW kind \in {"push", "close"}, Happens(kind) PROVE PreviewInv'
  BY <1>2, HappensStep
<1>3. ASSUME NEW e \in Events, Deliver(e) PROVE PreviewInv'
  <2>1. PICK a \in Actors : a = <<e, "call">>
    BY ActorFacts
  <2> QED
    BY <1>3, <2>1, DeliverStep
<1>4. ASSUME NEW e \in Events, ForgetDelivery(e) PROVE PreviewInv'
  <2>1. troubles' \in 0..MaxTroubles
    BY <1>1, <1>4 DEF ForgetDelivery
  <2> QED
    BY <1>4, <2>1, ForgetStep
<1>5. ASSUME NEW e \in Events, FindPreview(e) PROVE PreviewInv'
  BY <1>5, FindInv
<1>6. ASSUME NEW a \in Actors, ActorStep(a) PROVE PreviewInv'
  BY <1>6, PrepareInv, DeployInv, RowInv, CloseInv DEF ActorStep
<1>7. CASE RestartAll
  <2>1. troubles' \in 0..MaxTroubles
    BY <1>1, <1>7 DEF RestartAll
  <2> QED
    BY <1>7, <2>1, RestartStep
<1>8. CASE UNCHANGED previewVars
  <2>1. UNCHANGED <<events, kept, created, previews, withEnv, busy, hooks, shows, actor,
          troubles,
                    accepted, forgotten, newest, answered, undone, disordered, overtaken>>
    BY <1>8 DEF previewVars, previewState, previewHistory
  <2>2. PreviewTypeOK' /\ (OneOpen /\ HistoryOK /\ TakenOnce)'
    BY <2>1 DEF PreviewTypeOK, OneOpen, HistoryOK, TakenOnce, HasApp, PreviewInv, PreviewBase
  <2>3. ActorsOK'
    BY <2>1 DEF ActorsOK, ActorOK, Own, PreviewInv, PreviewBase
  <2>4. ~disordered' => (CallsInOrder /\ PushesAnswered)'
    BY <2>1 DEF CallsInOrder, PushesAnswered, Own, PreviewInv, PreviewOrder
  <2>5. ~disordered' => PushOnce'
    BY <2>1 DEF PushOnce, Carries, Begun, PreviewInv, PreviewOrder
  <2>6. ~disordered' /\ ~overtaken' => InTurn'
    BY <2>1 DEF InTurn, Pending, Own, PreviewInv, PreviewTurn
  <2>7. ~disordered' /\ ~overtaken' => OnItsWay'
    BY <2>1 DEF OnItsWay, Reaches, Serves, Own, PreviewInv, PreviewTurn
  <2>8. ~disordered' /\ undone' = {} => EnvCopied'
    BY <2>1 DEF EnvCopied, PreviewInv, PreviewEnv
  <2> QED
    BY <2>1, <2>2, <2>3, <2>4, <2>5, <2>6, <2>7, <2>8
       DEF PreviewInv, PreviewBase, PreviewOrder, PreviewTurn, PreviewEnv
<1> QED
  BY <1>2, <1>3, <1>4, <1>5, <1>6, <1>7, <1>8 DEF PreviewNext

\* The invariant is enough: once nobody works, the last push that was answered can only
\* be shown, and a close that was answered has left no preview.
LEMMA PreviewInvFollows == PreviewInv => PreviewFollows
<1> SUFFICES ASSUME PreviewInv PROVE PreviewFollows
  OBVIOUS
<1>1. PreviewTypeOK /\ OneOpen
  BY DEF PreviewInv, PreviewBase
<1>2. OnePreview
  <2>1. CASE previews = {}
    BY <2>1, FS_EmptySet DEF OnePreview
  <2>2. CASE previews # {}
    <3>1. PICK x : previews = {x}
      BY <1>1, <2>2 DEF OneOpen
    <3> QED
      BY <3>1, FS_Singleton DEF OnePreview
  <2> QED
    BY <2>1, <2>2
<1>3. ASSUME Quiet, ~disordered, ~overtaken, answered # 0
      PROVE  IF events[answered] = "push"
             THEN \/ answered \in undone \/ Waits(answered)
                  \/ \E x \in previews : shows[x].commit = answered
             ELSE previews = {} \/ \E e \in undone : e > answered
  <2>1. OnItsWay
    BY <1>3 DEF PreviewInv, PreviewTurn
  <2>2. ASSUME NEW x \in previews, Reaches(x)
        PROVE  shows[x].commit = answered \/ Waits(answered)
    <3>1. \A a \in Actors : ~Serves(a, x)
      BY <1>3 DEF Serves, Quiet
    <3>2. ASSUME NEW a \in Actors, actor[a].id = x, actor[a].ref = answered,
                 actor[a].pc = "pending"
          PROVE  Waits(answered)
      <4>1. actor[a].ref = a[1]
        BY <3>2 DEF ActorsOK, ActorOK, PreviewInv, PreviewBase
      <4> QED
        BY <3>2, <4>1 DEF Waits
    <3> QED
      BY <1>3, <2>2, <3>1, <3>2 DEF Reaches, Quiet
  <2>3. events[answered] \in {"push", "close"}
    BY <1>1, <1>3, AcceptedThere DEF PreviewTypeOK
  <2>4. \A a \in Actors : ~(Own(a) /\ actor[a].pc # "rest")
    BY <1>3 DEF Quiet, ActorsOK, ActorOK, Own, PreviewInv, PreviewBase
  <2> QED
    BY <2>1, <2>2, <2>3, <2>4, <1>3 DEF OnItsWay
<1>4. PreviewHasEnv
  BY DEF PreviewHasEnv, PreviewInv, PreviewEnv, EnvCopied
<1> QED
  BY <1>1, <1>2, <1>3, <1>4 DEF PreviewFollows, PreviewCurrent

\* The preview of a pull request follows it: there is one at a time, once nobody works it
\* shows the last push that hooks.rs has answered or is gone after the close, through every
\* order of deliveries, queued pushes, failed steps and restarts that the history does not
\* except, and it runs with the variables of its parent.
THEOREM PreviewShowsLast == PreviewSpec => []PreviewFollows
<1>1. PreviewSpec => []PreviewInv
  BY PreviewInitInv, PreviewStepInv, PTL DEF PreviewSpec
<1> QED
  BY <1>1, PreviewInvFollows, PTL

-----------------------------------------------------------------------------
(* BackupFiles.  What can be restored is counted: Safe are the backups that nobody *)
(* is about to delete, and with the requested deletions and the one that a run has *)
(* stored they are enough (SafeCounted), and after apply_retention has read the  *)
(* list not too many (KeptFew).  HandsOK says that what a job has read is still  *)
(* there and in no other job's hands, as long as nothing was disturbed.     *)

\* The rows of the jobs.
JobRows == [pc : JobPcs, own : 0..MaxBackups, b : 0..MaxBackups, todo : SUBSET Backups,
            slot : 0..MaxDays]

\* A job that deletes the backup it has in b.
Removes(j) == job[j].pc \in {"rmdump", "rmmanifest"}

\* What the retention of a run has still to delete, and what requests delete.
Going     == {b \in Backups : \E j \in Jobs :
               job[j].own # 0 /\ (b \in job[j].todo \/ (Removes(j) /\ job[j].b = b))}
OnRequest == {b \in Backups : \E j \in Jobs :
               job[j].own = 0 /\ Removes(j) /\ job[j].b = b}

\* The backups that can be restored and that nobody is about to delete.
Safe == (Manifests \cap dumps) \ (Going \union OnRequest)

\* A run whose backup is stored, and one that has not applied the retention yet.
Stored(j)   == job[j].own # 0 /\ job[j].pc \notin {"dump", "manifest", "undo"}
Unpruned(j) == job[j].own # 0 /\ job[j].pc \in {"store", "test", "save", "write", "list"}

\* The backups are numbered as they are begun, and days from 1.
Numbered ==
  /\ day >= 1 /\ finished <= used
  /\ \A b \in Manifests : b <= used
  /\ \A j \in Jobs : /\ job[j].own <= used /\ job[j].b <= used
                     /\ \A b \in job[j].todo : b <= used

\* A run has the lock, and only a run makes, lists and undoes.
RunOK(j) ==
  /\ job[j].own # 0 =>
       locked = j /\ finished < used /\ job[j].pc \notin {"rest", "barred", "lock"}
  /\ job[j].pc \in {"dump", "manifest", "store", "list", "prune", "undo"} => job[j].own # 0
  /\ job[j].pc \notin {"prune", "rmdump", "rmmanifest", "undo"} \/ job[j].own = 0 =>
       job[j].todo = {}
  /\ job[j].pc \in {"store", "test", "save", "write", "rmdump", "rmmanifest"} =>
       job[j].b # 0
RunsOK == \A j \in Jobs : RunOK(j)

\* A run of the scheduler is one of the tries of its slot.
TriesLeft ==
  job[Scheduler].pc = "lock" \/ job[Scheduler].own # 0 =>
    attempts.slot # job[Scheduler].slot \/ attempts.count < MaxRetries

\* What a job has read is still there, and no other job has it.
HandOK(j) ==
  /\ Hand(j) \subseteq Manifests /\ job[j].todo \subseteq dumps
  /\ \A i \in Jobs : i # j => Hand(i) \cap Hand(j) = {}
  /\ Removes(j) => job[j].b \notin job[j].todo
  /\ job[j].pc = "rmdump" => job[j].b \in dumps
  /\ job[j].pc = "rmmanifest" => job[j].b \notin dumps
  /\ job[j].pc \in {"dump", "manifest", "undo"} => job[j].own \notin Manifests /\ job[j].todo = {}
  /\ job[j].pc = "manifest" => job[j].own \in dumps
HandsOK == \A j \in Jobs : HandOK(j)

\* Every deletion of a request was counted when it began.
AskedCounted == Cardinality(OnRequest) <= asked

\* The backups that stay are enough, with the one that a run has stored.
SafeCounted ==
  /\ Cardinality(Safe) + asked >= Keep \/ Cardinality(Safe) + asked >= finished
  /\ (\E j \in Jobs : Stored(j)) =>
       Cardinality(Safe) + asked >= Keep \/ Cardinality(Safe) + asked >= finished + 1

\* And not too many, once the retention has read what there is.
KeptFew == (\A j \in Jobs : ~Unpruned(j)) => Cardinality(Manifests \ Going) <= Keep

BackupBase == BackupTypeOK /\ Numbered /\ RunsOK /\ TriesLeft

\* The inductive invariant.
BackupInv ==
  /\ BackupBase
  /\ ~disturbed => /\ HandsOK /\ ListedHasDump
                   /\ AskedCounted /\ SafeCounted /\ KeptFew

\* A set of backups has a newest and an oldest one.
LEMMA OldestNewest ==
  ASSUME NEW S \in SUBSET Backups, S # {}
  PROVE  /\ \E x \in S : \A y \in S : x <= y
         /\ \E x \in S : \A y \in S : y <= x
<1>1. ASSUME NEW T \in SUBSET Nat, T # {} PROVE \E x \in T : \A y \in T : x <= y
  <2>1. PICK x \in T : \A y \in T : ~(<<y, x>> \in OpToRel(<, Nat))
    BY <1>1, WFMin, NatLessThanWellFounded
  <2>2. \A y \in T : ~(y < x)
    BY <2>1 DEF OpToRel
  <2> QED
    BY <2>2
<1>2. MaxBackups \in Nat /\ \A y \in S : y \in Nat /\ y <= MaxBackups
  BY BackupAssumption DEF Backups
<1>3. \E x \in S : \A y \in S : x <= y
  BY <1>1, <1>2
<1>4. PICK m \in {MaxBackups - y : y \in S} : \A n \in {MaxBackups - y : y \in S} : m <= n
  <2> DEFINE T == {MaxBackups - y : y \in S}
  <2>1. T \in SUBSET Nat /\ T # {}
    BY <1>2
  <2> HIDE DEF T
  <2>2. \E x \in T : \A y \in T : x <= y
    BY <1>1, <2>1
  <2> QED
    BY <2>2 DEF T
<1>5. PICK x \in S : m = MaxBackups - x
  BY <1>4
<1>6. \A y \in S : MaxBackups - x <= MaxBackups - y
  BY <1>4, <1>5
<1> QED
  BY <1>2, <1>3, <1>5, <1>6

\* Max takes the newest of a set of backups.
LEMMA MaxIn ==
  ASSUME NEW S \in SUBSET Backups, S # {}
  PROVE  Max(S) \in S /\ \A y \in S : y <= Max(S)
<1>1. \E x \in S : \A y \in S : x >= y
  BY OldestNewest, BackupAssumption DEF Backups
<1> QED
  BY <1>1, BackupAssumption DEF Max, Backups

\* Min of two numbers.
LEMMA MinOf ==
  ASSUME NEW m \in Nat, NEW n \in Nat
  PROVE  Min({m, n}) = IF m <= n THEN m ELSE n
<1>1. \E x \in {m, n} : \A y \in {m, n} : x <= y
  OBVIOUS
<1>2. /\ Min({m, n}) \in {m, n} /\ \A y \in {m, n} : Min({m, n}) <= y
  BY <1>1 DEF Min
<1> QED
  BY <1>2

\* The numbers and the rows of the state.
LEMMA BackupTypes ==
  ASSUME BackupBase
  PROVE  /\ job \in [Jobs -> JobRows] /\ Manifests \subseteq Backups /\ dumps \subseteq Backups
         /\ Scheduler \in Jobs /\ Free \notin Jobs /\ Other \notin Jobs
         /\ day \in Nat /\ used \in Nat /\ finished \in Nat /\ asked \in Nat
         /\ \A j \in Jobs : /\ job[j].pc \in JobPcs /\ job[j].own \in 0..MaxBackups
                            /\ job[j].own \in Nat /\ job[j].b \in 0..MaxBackups
                            /\ job[j].b \in Nat /\ job[j].todo \subseteq Backups
                            /\ job[j].slot \in 0..MaxDays
         /\ \A n \in Nat : n \in Backups <=> 1 <= n /\ n <= MaxBackups
         /\ \A b \in Backups : b \in Nat /\ b # 0 /\ b \in 0..MaxBackups
<1>1. job \in [Jobs -> JobRows]
  BY DEF BackupBase, BackupTypeOK, JobRows
<1>2. \A n \in Nat : n \in Backups <=> 1 <= n /\ n <= MaxBackups
  BY BackupAssumption DEF Backups
<1>3. \A b \in Backups : b \in Nat /\ b # 0 /\ b \in 0..MaxBackups
  BY BackupAssumption DEF Backups
<1>4. Scheduler \in Jobs /\ Free \notin Jobs /\ Other \notin Jobs
  BY BackupAssumption DEF Jobs, Scheduler, Free, Other
<1>5. \A j \in Jobs : /\ job[j].pc \in JobPcs /\ job[j].own \in 0..MaxBackups
                      /\ job[j].own \in Nat /\ job[j].b \in 0..MaxBackups
                      /\ job[j].b \in Nat /\ job[j].todo \subseteq Backups
                      /\ job[j].slot \in 0..MaxDays
  BY <1>1 DEF JobRows
<1>6. Manifests \subseteq Backups
  BY DEF Manifests
<1> QED
  BY <1>1, <1>2, <1>3, <1>4, <1>5, <1>6, BackupAssumption DEF BackupBase, BackupTypeOK

\* Sets of backups are finite.
LEMMA BackupSets ==
  ASSUME NEW S, S \subseteq Backups
  PROVE  /\ IsFiniteSet(S) /\ Cardinality(S) \in Nat
         /\ \A T \in SUBSET S : IsFiniteSet(T) /\ Cardinality(T) <= Cardinality(S)
<1>1. IsFiniteSet(Backups)
  BY FS_Interval, BackupAssumption DEF Backups
<1>2. IsFiniteSet(S)
  BY <1>1, FS_Subset
<1>3. \A T \in SUBSET S : IsFiniteSet(T) /\ Cardinality(T) <= Cardinality(S)
  BY <1>2, FS_Subset
<1> QED
  BY <1>2, <1>3, FS_CardinalityType

\* apply_retention keeps Keep backups when it has something to delete, and never more.
LEMMA RetentionTakes ==
  /\ Surplus \subseteq Listed
  /\ Cardinality(Listed \ Surplus) <= Keep
  /\ Surplus # {} => Cardinality(Listed \ Surplus) >= Keep
<1> DEFINE K == Listed \ Surplus
<1>1. /\ Surplus \subseteq Listed /\ Listed \subseteq Backups /\ Surplus \subseteq Backups
      /\ K \subseteq Backups /\ Keep \in Nat /\ Keep # 0
      /\ \A b \in Backups : b \in Nat
  BY BackupAssumption DEF Surplus, Listed, Manifests, Backups
<1>2. Cardinality(K) <= Keep
  <2>1. CASE K = {}
    BY <1>1, <2>1, FS_EmptySet
  <2>2. CASE K # {}
    <3>1. PICK m \in K : \A y \in K : m <= y
      BY <1>1, <2>2, OldestNewest
    <3>2. ~(Cardinality(Newer(m)) >= Keep) /\ m \in Listed
      BY <3>1 DEF Surplus
    <3>3. Newer(m) \subseteq Backups /\ m \in Backups
      BY <1>1, <3>2 DEF Newer
    <3>4. IsFiniteSet(Newer(m)) /\ Cardinality(Newer(m)) \in Nat
      BY <3>3, BackupSets
    <3>5. m \notin Newer(m)
      BY <1>1, <3>3 DEF Newer
    <3>6. Cardinality(Newer(m) \union {m}) = Cardinality(Newer(m)) + 1
      BY <3>4, <3>5, FS_AddElement
    <3>7. K \subseteq Newer(m) \union {m}
      BY <1>1, <3>1, <3>3 DEF Newer
    <3>8. Cardinality(K) <= Cardinality(Newer(m) \union {m})
      BY <3>3, <3>7, BackupSets
    <3>9. Cardinality(K) \in Nat
      BY <1>1, BackupSets
    <3> QED
      BY <1>1, <3>2, <3>4, <3>6, <3>8, <3>9
  <2> QED
    BY <2>1, <2>2
<1>3. ASSUME Surplus # {} PROVE Cardinality(K) >= Keep
  <2>1. PICK m \in Surplus : \A y \in Surplus : y <= m
    BY <1>1, <1>3, OldestNewest
  <2>2. Cardinality(Newer(m)) >= Keep /\ m \in Backups
    BY <1>1, <2>1 DEF Surplus
  <2>3. Newer(m) \subseteq K
    BY <1>1, <2>1, <2>2 DEF Newer
  <2>4. Cardinality(Newer(m)) <= Cardinality(K)
    BY <1>1, <2>3, BackupSets
  <2>5. Newer(m) \subseteq Backups
    BY <1>1, <2>3
  <2>6. Cardinality(K) \in Nat /\ Cardinality(Newer(m)) \in Nat
    BY <1>1, <2>5, BackupSets
  <2> QED
    BY <1>1, <2>2, <2>4, <2>6
<1> QED
  BY <1>1, <1>2, <1>3

\* A step that only makes more backups safe, and fewer of the others, keeps the counts.
LEMMA CountsKept ==
  ASSUME BackupInv, ~disturbed, Safe \subseteq Safe', Safe' \subseteq Backups,
         OnRequest' \subseteq OnRequest, (Manifests \ Going)' \subseteq Manifests \ Going,
         asked' = asked, finished' = finished,
         (\E j \in Jobs : Stored(j)') => \E j \in Jobs : Stored(j),
         (\A j \in Jobs : ~Unpruned(j)') => \A j \in Jobs : ~Unpruned(j)
  PROVE  (AskedCounted /\ SafeCounted /\ KeptFew)'
<1>1. /\ asked \in Nat /\ finished \in Nat /\ OnRequest \subseteq Backups
      /\ Manifests \ Going \subseteq Backups /\ Keep \in Nat
      /\ AskedCounted /\ SafeCounted /\ KeptFew
  BY BackupTypes, BackupAssumption DEF BackupInv, OnRequest
<1>2. /\ Cardinality(Safe) <= Cardinality(Safe') /\ Cardinality(Safe) \in Nat
      /\ Cardinality(Safe') \in Nat
  <2>1. Safe \subseteq Backups
    OBVIOUS
  <2> QED
    BY <2>1, BackupSets
<1>3. Cardinality(OnRequest)' <= Cardinality(OnRequest)
  BY <1>1, BackupSets
<1>4. Cardinality(Manifests \ Going)' <= Cardinality(Manifests \ Going)
  BY <1>1, BackupSets
<1>5. AskedCounted'
  <2>1. Cardinality(OnRequest) \in Nat /\ Cardinality(OnRequest)' \in Nat
    BY <1>1, BackupSets
  <2> QED
    BY <1>1, <1>3, <2>1 DEF AskedCounted
<1>6. SafeCounted'
  BY <1>1, <1>2 DEF SafeCounted
<1>7. KeptFew'
  <2>1. Cardinality(Manifests \ Going) \in Nat /\ Cardinality(Manifests \ Going)' \in Nat
    BY <1>1, BackupSets
  <2> QED
    BY <1>1, <1>4, <2>1 DEF KeptFew
<1> QED
  BY <1>5, <1>6, <1>7

\* Idle jobs.
LEMMA IdleRow ==
  /\ Idle \in JobRows /\ Idle.pc = "rest" /\ Idle.own = 0 /\ Idle.b = 0 /\ Idle.todo = {}
  /\ Idle.slot = 0
BY BackupAssumption DEF Idle, JobRows, JobPcs

\* record_backup_failure counts no more than the tries of a slot.
LEMMA FailureCounts ==
  ASSUME BackupBase, NEW j \in Jobs, RecordFailure(j),
         job[j].pc = "lock" \/ job[j].own # 0
  PROVE  attempts' \in [slot : 0..MaxDays, count : 0..MaxRetries]
<1>1. /\ attempts \in [slot : 0..MaxDays, count : 0..MaxRetries] /\ job[j].slot \in 0..MaxDays
      /\ MaxRetries \in Nat \ {0}
  BY BackupTypes, BackupAssumption DEF BackupBase, BackupTypeOK
<1>2. CASE j # Scheduler
  BY <1>1, <1>2 DEF RecordFailure
<1>3. CASE j = Scheduler
  BY <1>1, <1>3 DEF RecordFailure, TriesLeft, BackupBase
<1> QED
  BY <1>2, <1>3

\* A step of one job that leaves the dumps, the lock and what is to be deleted, and makes
\* or removes no manifest.
LEMMA QuietStep ==
  ASSUME BackupInv, NEW j \in Jobs, job' \in [Jobs -> JobRows],
         \A i \in Jobs : i # j => job'[i] = job[i],
         job'[j].own = job[j].own, job'[j].todo = job[j].todo, job'[j].b <= used,
         job[j].pc \in {"rest", "barred", "lock", "store", "test", "save", "write"},
         job'[j].pc \in IF job[j].own = 0 THEN {"rest", "barred", "lock", "test", "save", "write"}
                                         ELSE {"test", "save", "write", "list"},
         job'[j].pc \in {"test", "save", "write"} => job'[j].b # 0,
         manifest' \in [Backups -> {"none", "torn", "untested", "tested"}],
         Manifests' \subseteq Manifests \union {job[j].b},
         disturbed' \in BOOLEAN, disturbed => disturbed',
         ~disturbed' => /\ Manifests' = Manifests /\ Hand(j)' \subseteq Manifests
                        /\ \A i \in Jobs : i # j => Hand(i) \cap Hand(j)' = {},
         attempts' \in [slot : 0..MaxDays, count : 0..MaxRetries], TriesLeft',
         UNCHANGED <<day, reached, used, dumps, madeOn, locked, stops, finished, asked>>
  PROVE  BackupInv'
<1>0. BackupBase /\ Numbered /\ RunsOK /\ RunOK(j)
  BY DEF BackupInv, BackupBase, RunsOK
<1>1. job[j].todo = {} /\ Hand(j)' \subseteq {job'[j].b}
  BY <1>0 DEF RunOK, Hand
<1>2. BackupTypeOK'
  BY <1>0, BackupTypes, BackupAssumption DEF BackupTypeOK, JobRows, BackupBase
<1>3. Numbered'
  BY <1>0, BackupTypes DEF Numbered
<1>4. RunsOK'
  <2> SUFFICES ASSUME NEW i \in Jobs PROVE RunOK(i)'
    BY DEF RunsOK
  <2>1. RunOK(i)
    BY <1>0 DEF RunsOK
  <2>2. CASE i = j
    BY <1>0, <1>1, <2>1, <2>2, BackupTypes DEF RunOK
  <2>3. CASE i # j
    BY <2>1, <2>3 DEF RunOK
  <2> QED
    BY <2>2, <2>3
<1>5. ASSUME ~disturbed' PROVE (HandsOK /\ ListedHasDump)'
  <2>1. /\ ~disturbed /\ HandsOK /\ ListedHasDump /\ Manifests' = Manifests
        /\ \A k \in Jobs : k # j => Hand(k)' = Hand(k)
    BY <1>5 DEF BackupInv, Hand
  <2>2. ASSUME NEW i \in Jobs PROVE HandOK(i)'
    <3>1. HandOK(i)
      BY <2>1 DEF HandsOK
    <3>2. CASE i = j
      BY <1>0, <1>1, <1>5, <2>1, <3>2 DEF HandOK, Removes
    <3>3. CASE i # j
      BY <1>5, <2>1, <3>1, <3>3 DEF HandOK, Removes
    <3> QED
      BY <3>2, <3>3
  <2>3. \A b \in Backups : Deleting(b) => Deleting(b)'
    BY DEF Deleting
  <2> QED
    BY <1>0, <2>1, <2>2, <2>3, BackupTypes DEF HandsOK, ListedHasDump
<1>6. ASSUME ~disturbed' PROVE (AskedCounted /\ SafeCounted /\ KeptFew)'
  <2>1. ~disturbed /\ Manifests' = Manifests
    BY <1>6
  <2>2. Going' = Going /\ OnRequest' = OnRequest
    BY <1>0, <1>1 DEF Going, OnRequest, Removes
  <2>3. Safe \subseteq Safe' /\ Safe' \subseteq Backups
    BY <1>0, <2>1, <2>2, BackupTypes DEF Safe
  <2>4. \A i \in Jobs : (Stored(i)' => Stored(i)) /\ (Unpruned(i) => Unpruned(i)')
    BY <1>0 DEF Stored, Unpruned, RunOK
  <2> QED
    BY <2>1, <2>2, <2>3, <2>4, CountsKept
<1> QED
  BY <1>2, <1>3, <1>4, <1>5, <1>6 DEF BackupInv, BackupBase

\* What such a step finds.
LEMMA QuietFacts ==
  ASSUME BackupInv, NEW j \in Jobs
  PROVE  /\ job \in [Jobs -> JobRows] /\ job[j] \in JobRows /\ Scheduler \in Jobs
         /\ day \in 0..MaxDays /\ disturbed \in BOOLEAN /\ TriesLeft /\ RunOK(j)
         /\ attempts \in [slot : 0..MaxDays, count : 0..MaxRetries]
         /\ manifest \in [Backups -> {"none", "torn", "untested", "tested"}]
         /\ used \in Nat /\ job[j].b \in Nat /\ job[j].b <= used
         /\ \A b \in Manifests : b \in 0..MaxBackups /\ b # 0 /\ b <= used
         /\ \A b \in 0..MaxBackups : b # 0 => b \in Backups
BY BackupTypes DEF BackupInv, BackupBase, BackupTypeOK, RunsOK, Numbered

\* check_app_backup finds that a backup is due, or its round ends before.
LEMMA DueStep ==
  ASSUME BackupInv, RoundDue \/ RoundStops \/ RoundAgain
  PROVE  BackupInv'
<1> DEFINE j == Scheduler
<1>0. j \in Jobs
  BY DEF Jobs
<1>1. /\ UNCHANGED <<day, reached, used, manifest, dumps, madeOn, locked, attempts, stops,
                     finished, asked, disturbed>>
      /\ job' \in [Jobs -> JobRows] /\ \A i \in Jobs : i # j => job'[i] = job[i]
      /\ job'[j].own = 0 /\ job[j].own = 0 /\ job'[j].todo = {} /\ job[j].todo = {}
      /\ job'[j].b <= used
      /\ job[j].pc \in {"rest", "barred"} /\ job'[j].pc \in {"rest", "barred", "lock"}
      /\ job'[j].pc = "lock" => job'[j].slot = day /\ IsBackupDue
  <2>0. job[j].own = 0 /\ job[j].todo = {}
    BY <1>0, QuietFacts DEF RoundDue, RoundStops, RoundAgain, RunOK
  <2>1. CASE RoundDue
    <3>1. [Idle EXCEPT !.pc = "lock", !.slot = day] \in JobRows
      BY <1>0, QuietFacts, IdleRow DEF JobRows, JobPcs
    <3> QED
      BY <1>0, <2>0, <2>1, <3>1, QuietFacts DEF RoundDue, Idle
  <2>2. CASE RoundStops
    BY <1>0, <2>0, <2>2, QuietFacts DEF RoundStops, JobAt, JobRows, JobPcs
  <2>3. CASE RoundAgain
    BY <1>0, <2>0, <2>3, QuietFacts DEF RoundAgain, JobAt, JobRows, JobPcs
  <2> QED
    BY <2>1, <2>2, <2>3
<1>2. TriesLeft'
  BY <1>0, <1>1 DEF TriesLeft, IsBackupDue
<1>3. Hand(j)' = {} /\ Manifests' = Manifests
  BY <1>1 DEF Hand, Manifests
<1> QED
  BY <1>0, <1>1, <1>2, <1>3, QuietFacts, QuietStep

\* A scheduled backup that finds the app locked has failed.
LEMMA BusyStep ==
  ASSUME BackupInv, LockBusy
  PROVE  BackupInv'
<1> DEFINE j == Scheduler
<1>0. j \in Jobs
  BY DEF Jobs
<1>1. /\ UNCHANGED <<day, reached, used, manifest, dumps, madeOn, locked, stops, finished,
                     asked, disturbed>>
      /\ job' \in [Jobs -> JobRows] /\ \A i \in Jobs : i # j => job'[i] = job[i]
      /\ job'[j] = Idle /\ job[j].own = 0 /\ job[j].todo = {} /\ job[j].pc = "lock"
      /\ RecordFailure(j)
  BY <1>0, QuietFacts, IdleRow DEF LockBusy, RunOK
<1>2. attempts' \in [slot : 0..MaxDays, count : 0..MaxRetries]
  BY <1>0, <1>1, FailureCounts DEF BackupInv
<1>3. TriesLeft' /\ Hand(j)' = {} /\ Manifests' = Manifests
  BY <1>0, <1>1, IdleRow DEF TriesLeft, Hand, Manifests
<1>4. /\ job'[j].pc = "rest" /\ job'[j].own = 0 /\ job'[j].todo = {} /\ job'[j].b = 0
      /\ job'[j].b <= used
  BY <1>0, <1>1, IdleRow, QuietFacts
<1>5. disturbed' \in BOOLEAN /\ manifest' \in [Backups -> {"none", "torn", "untested", "tested"}]
  BY <1>0, <1>1, QuietFacts
<1> QED
  BY <1>0, <1>1, <1>2, <1>3, <1>4, <1>5, QuietStep

\* The scheduler or a request begins to verify a backup that is listed.
LEMMA VerifyStep ==
  ASSUME BackupInv, NEW j \in Jobs, NEW c \in Listed, job[j].pc = "rest",
         job' = [job EXCEPT ![j] = [Idle EXCEPT !.pc = "test", !.b = c]],
         UNCHANGED <<day, reached, used, manifest, dumps, madeOn, locked, attempts, stops,
                     finished, asked, disturbed>>
  PROVE  BackupInv'
<1>1. c \in Manifests /\ c \in 0..MaxBackups /\ c # 0 /\ c <= used
  BY QuietFacts DEF Listed
<1>2. [Idle EXCEPT !.pc = "test", !.b = c] \in JobRows
  BY <1>1, IdleRow DEF JobRows, JobPcs
<1>3. /\ job' \in [Jobs -> JobRows] /\ \A i \in Jobs : i # j => job'[i] = job[i]
      /\ job'[j].pc = "test" /\ job'[j].own = 0 /\ job'[j].b = c /\ job'[j].todo = {}
      /\ job[j].own = 0 /\ job[j].todo = {}
  BY <1>2, QuietFacts, IdleRow DEF RunOK, Idle
<1>4. TriesLeft' /\ Hand(j)' = {} /\ Manifests' = Manifests
  BY <1>3, QuietFacts DEF TriesLeft, Hand, Manifests
<1>5. /\ disturbed' \in BOOLEAN /\ (disturbed => disturbed')
      /\ job'[j].b <= used /\ job'[j].b # 0
      /\ manifest' \in [Backups -> {"none", "torn", "untested", "tested"}]
      /\ attempts' \in [slot : 0..MaxDays, count : 0..MaxRetries]
  BY <1>1, <1>3, QuietFacts
<1>6. ~disturbed' => /\ Manifests' = Manifests /\ Hand(j)' \subseteq Manifests
                     /\ \A i \in Jobs : i # j => Hand(i) \cap Hand(j)' = {}
  BY <1>4
<1>7. /\ job' \in [Jobs -> JobRows] /\ \A i \in Jobs : i # j => job'[i] = job[i]
      /\ job'[j].own = job[j].own /\ job'[j].todo = job[j].todo
      /\ job'[j].pc \in {"test", "save", "write"} => job'[j].b # 0
      /\ Manifests' \subseteq Manifests \union {job[j].b}
  BY <1>3, <1>4, <1>5
<1>8. job'[j].pc \in IF job[j].own = 0 THEN {"rest", "barred", "lock", "test", "save", "write"}
                                       ELSE {"test", "save", "write", "list"}
  BY <1>3
<1> QED
  BY <1>4, <1>5, <1>6, <1>7, <1>8, QuietStep

\* check_app_backup takes the newest backup that was not verified.
LEMMA VerifyDueStep ==
  ASSUME BackupInv, RoundVerify
  PROVE  BackupInv'
<1>1. PICK u \in SUBSET Backups : u = {b \in Listed : manifest[b] = "untested"} /\ u # {}
  BY DEF RoundVerify, Listed, Manifests
<1>2. Max(u) \in Listed /\ Scheduler \in Jobs
  BY <1>1, MaxIn DEF Jobs
<1> QED
  BY <1>1, <1>2, VerifyStep DEF RoundVerify

\* lock_app, of the scheduler or of a request.
LEMMA LockAppStep ==
  ASSUME BackupInv, NEW j \in Jobs, Lock(j)
  PROVE  BackupInv'
<1>1. /\ UNCHANGED <<day, reached, manifest, dumps, madeOn, attempts, stops, finished, asked,
                     disturbed>>
      /\ job' \in [Jobs -> JobRows]
      /\ job'[j].pc = "dump" /\ job'[j].own = used + 1 /\ job'[j].b = job[j].b
      /\ job'[j].todo = job[j].todo /\ job'[j].slot = job[j].slot
      /\ \A i \in Jobs : i # j => job'[i] = job[i]
      /\ job[j].pc \in {"rest", "lock"} /\ (j = Scheduler => job[j].pc = "lock")
      /\ locked = Free
      /\ locked' = j /\ used' = used + 1 /\ used < MaxBackups
  <2>1. job \in [Jobs -> JobRows] /\ job[j] \in JobRows
    BY BackupTypes DEF BackupInv
  <2>2. used + 1 \in 0..MaxBackups
    BY BackupTypes, BackupAssumption DEF Lock, BackupInv, BackupBase, BackupTypeOK
  <2> QED
    BY <2>1, <2>2 DEF Lock, JobRows, JobPcs
<1>0. BackupBase /\ Numbered /\ RunsOK /\ TriesLeft /\ RunOK(j)
  BY <1>1 DEF BackupInv, BackupBase, RunsOK
<1>2. BackupTypeOK'
  BY <1>0, <1>1, BackupTypes, BackupAssumption DEF BackupTypeOK, JobRows, BackupBase
<1>3. Numbered'
  BY <1>0, <1>1, BackupTypes DEF Numbered, Manifests
<1>4. RunsOK'
  <2> SUFFICES ASSUME NEW i \in Jobs PROVE RunOK(i)'
    BY DEF RunsOK
  <2>1. RunOK(i)
    BY <1>0 DEF RunsOK
  <2>2. CASE i = j
    BY <1>0, <1>1, <2>1, <2>2, BackupTypes DEF RunOK, Numbered
  <2>3. CASE i # j
    BY <1>0, <1>1, <2>1, <2>3, BackupTypes DEF RunOK, Numbered
  <2> QED
    BY <2>2, <2>3
<1>5. TriesLeft'
  BY <1>0, <1>1, BackupTypes DEF TriesLeft, RunOK
<1>6. ~disturbed' => HandsOK'
  <2> SUFFICES ASSUME ~disturbed', NEW i \in Jobs PROVE HandOK(i)'
    BY DEF HandsOK
  <2>1. /\ ~disturbed /\ HandsOK /\ ListedHasDump /\ HandOK(i) /\ HandOK(j)
    BY <1>1 DEF BackupInv, HandsOK
  <2>2. /\ Hand(j)' = Hand(j)
        /\ \A k \in Jobs : k # j => Hand(k)' = Hand(k)
    BY <1>0, <1>1 DEF Hand, RunOK
  <2>3. Manifests' = Manifests
    BY <1>0, <1>1 DEF Manifests
  <2>0. Hand(i) \subseteq Manifests
    BY <1>0, <1>1, <2>1, <2>2, BackupTypes DEF Meets, Hand, HandsOK, HandOK, RunOK
  <2>4. CASE i = j
    BY <1>0, <1>1, <2>0, <2>1, <2>2, <2>3, <2>4, BackupTypes
      DEF HandsOK, HandOK, Removes, RunOK, Numbered
  <2>5. CASE i # j
    BY <1>0, <1>1, <2>0, <2>1, <2>2, <2>3, <2>5, BackupTypes
      DEF HandsOK, HandOK, Removes, RunOK, Numbered
  <2> QED
    BY <2>4, <2>5
<1>7. ~disturbed' => ListedHasDump'
  <2> SUFFICES ASSUME ~disturbed' PROVE ListedHasDump'
    OBVIOUS
  <2>1. ~disturbed /\ ListedHasDump /\ HandsOK
    BY <1>1 DEF BackupInv
  <2>2. Manifests' = Manifests
    BY <1>0, <1>1 DEF Manifests
  <2>3. \A b \in Backups : Deleting(b) => Deleting(b)'
    BY <1>0, <1>1 DEF Deleting, RunOK
  <2> QED
    BY <1>0, <1>1, <2>1, <2>2, <2>3, BackupTypes DEF ListedHasDump
<1>8. ~disturbed' => (AskedCounted /\ SafeCounted /\ KeptFew)'
  <2> SUFFICES ASSUME ~disturbed' PROVE (AskedCounted /\ SafeCounted /\ KeptFew)'
    OBVIOUS
  <2>1. ~disturbed /\ HandsOK /\ HandOK(j)
    BY <1>1 DEF BackupInv, HandsOK
  <2>2. Manifests' = Manifests
    BY <1>0, <1>1, <2>1 DEF Manifests, HandOK
  <2>3. Going' = Going
    BY <1>0, <1>1, <2>1 DEF Going, Removes, RunOK, HandOK
  <2>4. OnRequest' = OnRequest
    BY <1>0, <1>1, <2>1 DEF OnRequest, Removes, RunOK, HandOK
  <2>5. Safe \subseteq Safe' /\ Safe' \subseteq Backups
    BY <1>0, <1>1, <2>1, <2>2, <2>3, <2>4, BackupTypes DEF Safe, HandOK
  <2>6. \A i \in Jobs : (Stored(i)' => Stored(i)) /\ (Unpruned(i) => Unpruned(i)')
    BY <1>0, <1>1, <2>1 DEF Stored, Unpruned, RunOK, HandOK
  <2> QED
    BY <1>1, <2>1, <2>2, <2>3, <2>4, <2>5, <2>6, CountsKept
<1> QED
  BY <1>0, <1>2, <1>3, <1>4, <1>5, <1>6, <1>7, <1>8 DEF BackupInv, BackupBase

\* capture_database_dump.
LEMMA DumpStep ==
  ASSUME BackupInv, NEW j \in Jobs, Dump(j)
  PROVE  BackupInv'
<1>1. /\ UNCHANGED <<day, reached, used, manifest, madeOn, locked, attempts, stops, finished,
                     asked, disturbed>>
      /\ job' \in [Jobs -> JobRows]
      /\ job'[j].pc = "manifest" /\ job'[j].own = job[j].own /\ job'[j].b = job[j].b
      /\ job'[j].todo = job[j].todo /\ job'[j].slot = job[j].slot
      /\ \A i \in Jobs : i # j => job'[i] = job[i]
      /\ job[j].pc = "dump" /\ dumps' = dumps \union {job[j].own}
  <2>1. job \in [Jobs -> JobRows] /\ job[j] \in JobRows
    BY BackupTypes DEF BackupInv
  <2> QED
    BY <2>1 DEF Dump, JobAt, JobRows, JobPcs
<1>0. BackupBase /\ Numbered /\ RunsOK /\ TriesLeft /\ RunOK(j)
  BY <1>1 DEF BackupInv, BackupBase, RunsOK
<1>2. BackupTypeOK'
  BY <1>0, <1>1, BackupTypes, BackupAssumption DEF BackupTypeOK, JobRows, BackupBase, RunOK
<1>3. Numbered'
  BY <1>0, <1>1, BackupTypes DEF Numbered, Manifests
<1>4. RunsOK'
  <2> SUFFICES ASSUME NEW i \in Jobs PROVE RunOK(i)'
    BY DEF RunsOK
  <2>1. RunOK(i)
    BY <1>0 DEF RunsOK
  <2>2. CASE i = j
    BY <1>0, <1>1, <2>1, <2>2, BackupTypes DEF RunOK
  <2>3. CASE i # j
    BY <1>0, <1>1, <2>1, <2>3, BackupTypes DEF RunOK
  <2> QED
    BY <2>2, <2>3
<1>5. TriesLeft'
  BY <1>0, <1>1, BackupTypes DEF TriesLeft, RunOK
<1>6. ~disturbed' => HandsOK'
  <2> SUFFICES ASSUME ~disturbed', NEW i \in Jobs PROVE HandOK(i)'
    BY DEF HandsOK
  <2>1. /\ ~disturbed /\ HandsOK /\ ListedHasDump /\ HandOK(i) /\ HandOK(j)
    BY <1>1 DEF BackupInv, HandsOK
  <2>2. /\ Hand(j)' = Hand(j)
        /\ \A k \in Jobs : k # j => Hand(k)' = Hand(k)
    BY <1>0, <1>1 DEF Hand, RunOK
  <2>3. Manifests' = Manifests
    BY <1>0, <1>1 DEF Manifests
  <2>0. job[j].own \notin Manifests /\ Hand(i) \subseteq Manifests
        /\ (job[i].pc = "rmmanifest" => job[i].b \in Hand(i))
    BY <1>0, <1>1, <2>1, <2>2, BackupTypes DEF Meets, Hand, HandsOK, HandOK, RunOK
  <2>4. CASE i = j
    BY <1>0, <1>1, <2>0, <2>1, <2>2, <2>3, <2>4, BackupTypes
      DEF HandsOK, HandOK, Removes, RunOK
  <2>5. CASE i # j
    BY <1>0, <1>1, <2>0, <2>1, <2>2, <2>3, <2>5, BackupTypes
      DEF HandsOK, HandOK, Removes, RunOK
  <2> QED
    BY <2>4, <2>5
<1>7. ~disturbed' => ListedHasDump'
  <2> SUFFICES ASSUME ~disturbed' PROVE ListedHasDump'
    OBVIOUS
  <2>1. ~disturbed /\ ListedHasDump /\ HandsOK
    BY <1>1 DEF BackupInv
  <2>2. Manifests' = Manifests
    BY <1>0, <1>1 DEF Manifests
  <2>3. \A b \in Backups : Deleting(b) => Deleting(b)'
    BY <1>0, <1>1 DEF Deleting, RunOK
  <2> QED
    BY <1>0, <1>1, <2>1, <2>2, <2>3, BackupTypes DEF ListedHasDump
<1>8. ~disturbed' => (AskedCounted /\ SafeCounted /\ KeptFew)'
  <2> SUFFICES ASSUME ~disturbed' PROVE (AskedCounted /\ SafeCounted /\ KeptFew)'
    OBVIOUS
  <2>1. ~disturbed /\ HandsOK /\ HandOK(j)
    BY <1>1 DEF BackupInv, HandsOK
  <2>2. Manifests' = Manifests
    BY <1>0, <1>1, <2>1 DEF Manifests, HandOK
  <2>3. Going' = Going
    BY <1>0, <1>1, <2>1 DEF Going, Removes, RunOK, HandOK
  <2>4. OnRequest' = OnRequest
    BY <1>0, <1>1, <2>1 DEF OnRequest, Removes, RunOK, HandOK
  <2>5. Safe \subseteq Safe' /\ Safe' \subseteq Backups
    BY <1>0, <1>1, <2>1, <2>2, <2>3, <2>4, BackupTypes DEF Safe, HandOK
  <2>6. \A i \in Jobs : (Stored(i)' => Stored(i)) /\ (Unpruned(i) => Unpruned(i)')
    BY <1>0, <1>1, <2>1 DEF Stored, Unpruned, RunOK, HandOK
  <2> QED
    BY <1>1, <2>1, <2>2, <2>3, <2>4, <2>5, <2>6, CountsKept
<1> QED
  BY <1>0, <1>2, <1>3, <1>4, <1>5, <1>6, <1>7, <1>8 DEF BackupInv, BackupBase

\* Where a verification ends: a request is over, and a run goes on.
LEMMA VerifiedStep ==
  ASSUME BackupInv, NEW j \in Jobs, job[j].pc \in {"test", "save", "write"},
         job' = [job EXCEPT ![j] = Return(j, "list")],
         manifest' \in [Backups -> {"none", "torn", "untested", "tested"}],
         Manifests' = Manifests, disturbed' \in BOOLEAN, disturbed => disturbed',
         UNCHANGED <<day, reached, used, dumps, madeOn, locked, attempts, stops, finished,
                     asked>>
  PROVE  BackupInv'
<1>1. /\ job' \in [Jobs -> JobRows] /\ \A i \in Jobs : i # j => job'[i] = job[i]
      /\ job'[j].own = job[j].own /\ job'[j].todo = job[j].todo /\ job'[j].b <= used
      /\ job'[j].pc = (IF job[j].own = 0 THEN "rest" ELSE "list")
      /\ job[j].own # 0 => job'[j].slot = job[j].slot
      /\ job[j].todo = {}
  <2>1. CASE job[j].own = 0
    <3>1. Return(j, "list") = Idle
      BY <2>1 DEF Return
    <3>2. job' \in [Jobs -> JobRows] /\ job'[j] = Idle /\ \A i \in Jobs : i # j => job'[i] = job[i]
      BY <3>1, QuietFacts, IdleRow
    <3>3. job[j].todo = {} /\ used \in Nat
      BY <2>1, QuietFacts DEF RunOK
    <3> QED
      BY <2>1, <3>2, <3>3, IdleRow
  <2>2. CASE job[j].own # 0
    BY <2>2, QuietFacts DEF Return, RunOK, JobRows, JobPcs
  <2> QED
    BY <2>1, <2>2
<1>2. TriesLeft'
  BY <1>1, QuietFacts DEF TriesLeft
<1>3. Hand(j)' = {}
  BY <1>1 DEF Hand
<1>4. attempts' \in [slot : 0..MaxDays, count : 0..MaxRetries]
  BY QuietFacts
<1>5. job'[j].pc \in IF job[j].own = 0 THEN {"rest", "barred", "lock", "test", "save", "write"}
                                       ELSE {"test", "save", "write", "list"}
  BY <1>1
<1>6. job'[j].pc \notin {"test", "save", "write"}
  BY <1>1
<1>7. ~disturbed' => /\ Manifests' = Manifests /\ Hand(j)' \subseteq Manifests
                     /\ \A i \in Jobs : i # j => Hand(i) \cap Hand(j)' = {}
  BY <1>3
<1> QED
  BY <1>1, <1>2, <1>4, <1>5, <1>6, <1>7, QuietStep

\* verify_backup has read the entry.
LEMMA ReadStep ==
  ASSUME BackupInv, NEW j \in Jobs, ReadEntry(j)
  PROVE  BackupInv'
<1>1. /\ job[j].pc = "test" /\ disturbed' = (disturbed \/ Meets(j, {job[j].b}))
      /\ UNCHANGED <<day, reached, used, manifest, dumps, madeOn, locked, attempts, stops,
                     finished, asked>>
      /\ disturbed' \in BOOLEAN /\ Manifests' = Manifests
  BY QuietFacts DEF ReadEntry, Manifests
<1>2. CASE job[j].b \in Listed
  <2>1. /\ job' = [job EXCEPT ![j].pc = "save"] /\ job[j].b \in Manifests
    BY <1>2 DEF ReadEntry, Listed
  <2>2. /\ job' \in [Jobs -> JobRows] /\ \A i \in Jobs : i # j => job'[i] = job[i]
        /\ job'[j].own = job[j].own /\ job'[j].todo = job[j].todo /\ job'[j].b = job[j].b
        /\ job'[j].pc = "save" /\ job'[j].slot = job[j].slot
        /\ job[j].todo = {} /\ job[j].b # 0
    BY <1>1, <2>1, QuietFacts DEF RunOK, JobRows, JobPcs
  <2>3. TriesLeft' /\ Hand(j)' = {job[j].b}
    BY <1>1, <2>2, QuietFacts DEF TriesLeft, Hand
  <2>4. ~disturbed' => \A i \in Jobs : i # j => Hand(i) \cap Hand(j)' = {}
    BY <1>1, <2>3 DEF Meets
  <2>5. /\ (disturbed => disturbed') /\ job'[j].b <= used
        /\ manifest' \in [Backups -> {"none", "torn", "untested", "tested"}]
        /\ attempts' \in [slot : 0..MaxDays, count : 0..MaxRetries]
    BY <1>1, <2>2, QuietFacts
  <2>6. job'[j].pc \in IF job[j].own = 0 THEN {"rest", "barred", "lock", "test", "save", "write"}
                                         ELSE {"test", "save", "write", "list"}
    BY <2>2
  <2>7. ~disturbed' => /\ Manifests' = Manifests /\ Hand(j)' \subseteq Manifests
                       /\ \A i \in Jobs : i # j => Hand(i) \cap Hand(j)' = {}
    BY <1>1, <2>1, <2>3, <2>4
  <2>8. UNCHANGED <<day, reached, used, dumps, madeOn, locked, stops, finished, asked>>
    BY <1>1
  <2>9. /\ job[j].pc = "test" /\ disturbed' \in BOOLEAN
        /\ Manifests' \subseteq Manifests \union {job[j].b}
    BY <1>1
  <2>10. /\ job' \in [Jobs -> JobRows] /\ \A i \in Jobs : i # j => job'[i] = job[i]
         /\ job'[j].own = job[j].own /\ job'[j].todo = job[j].todo
         /\ job'[j].pc \in {"test", "save", "write"} => job'[j].b # 0
    BY <2>2
  <2> QED
    BY <2>3, <2>5, <2>6, <2>7, <2>8, <2>9, <2>10, QuietStep
<1>3. CASE job[j].b \notin Listed
  BY <1>1, <1>3, QuietFacts, VerifiedStep DEF ReadEntry
<1> QED
  BY <1>2, <1>3

\* save_verification_result empties the manifest.
LEMMA SaveStep ==
  ASSUME BackupInv, NEW j \in Jobs, SaveResult(j)
  PROVE  BackupInv'
<1>1. /\ job[j].pc = "save" /\ manifest' = [manifest EXCEPT ![job[j].b] = "torn"]
      /\ job' = [job EXCEPT ![j].pc = "write"]
      /\ UNCHANGED <<day, reached, used, dumps, madeOn, locked, attempts, stops, finished,
                     asked, disturbed>>
  BY DEF SaveResult, JobAt
<1>2. /\ job' \in [Jobs -> JobRows] /\ \A i \in Jobs : i # j => job'[i] = job[i]
      /\ job'[j].own = job[j].own /\ job'[j].todo = job[j].todo /\ job'[j].b = job[j].b
      /\ job'[j].pc = "write" /\ job'[j].slot = job[j].slot
      /\ job[j].todo = {} /\ job[j].b # 0 /\ job[j].b \in Backups
  BY <1>1, QuietFacts DEF RunOK, JobRows, JobPcs
<1>3. /\ manifest' \in [Backups -> {"none", "torn", "untested", "tested"}]
      /\ Manifests' = Manifests \union {job[j].b}
  BY <1>1, <1>2, QuietFacts DEF Manifests
<1>4. TriesLeft' /\ Hand(j)' = {job[j].b} /\ Hand(j) = {job[j].b}
  BY <1>1, <1>2, QuietFacts DEF TriesLeft, Hand
<1>5. ~disturbed => /\ job[j].b \in Manifests
                    /\ \A i \in Jobs : i # j => Hand(i) \cap Hand(j) = {}
  BY <1>4 DEF BackupInv, HandsOK, HandOK
<1> QED
  BY <1>1, <1>2, <1>3, <1>4, <1>5, QuietFacts, QuietStep

\* ... and writes it.
LEMMA ResultStep ==
  ASSUME BackupInv, NEW j \in Jobs, WriteResult(j)
  PROVE  BackupInv'
<1>1. /\ job[j].pc = "write"
      /\ manifest' = [manifest EXCEPT ![job[j].b] = IF @ = "none" THEN @ ELSE "tested"]
      /\ job' = [job EXCEPT ![j] = Return(j, "list")]
      /\ UNCHANGED <<day, reached, used, dumps, madeOn, locked, attempts, stops, finished,
                     asked, disturbed>>
  BY DEF WriteResult
<1>2. job[j].b \in Backups
  BY <1>1, QuietFacts DEF RunOK, JobRows
<1>3. /\ manifest' \in [Backups -> {"none", "torn", "untested", "tested"}]
      /\ Manifests' = Manifests
  BY <1>1, <1>2, QuietFacts DEF Manifests
<1> QED
  BY <1>1, <1>3, QuietFacts, VerifiedStep

\* A verification that the disk fails.
LEMMA VerifyFailsStep ==
  ASSUME BackupInv, NEW j \in Jobs, VerifyFails(j)
  PROVE  BackupInv'
<1>1. /\ job[j].pc \in {"test", "save", "write"} /\ disturbed' \in BOOLEAN
      /\ disturbed => disturbed'
      /\ job' = [job EXCEPT ![j] = Return(j, "list")] /\ Manifests' = Manifests
      /\ UNCHANGED <<day, reached, used, manifest, dumps, madeOn, locked, attempts, stops,
                     finished, asked>>
  BY QuietFacts DEF VerifyFails, Manifests
<1> QED
  BY <1>1, QuietFacts, VerifiedStep

\* store_backup writes the manifest that it has made.
LEMMA WrittenStep ==
  ASSUME BackupInv, NEW j \in Jobs, WriteManifest(j)
  PROVE  BackupInv'
<1>1. /\ job[j].pc = "store" /\ manifest' = [manifest EXCEPT ![job[j].b] = "untested"]
      /\ job' = [job EXCEPT ![j].pc = IF RestoreTest THEN "test" ELSE "list"]
      /\ UNCHANGED <<day, reached, used, dumps, madeOn, locked, attempts, stops, finished,
                     asked, disturbed>>
  BY DEF WriteManifest, JobAt
<1>2. /\ job' \in [Jobs -> JobRows] /\ \A i \in Jobs : i # j => job'[i] = job[i]
      /\ job'[j].own = job[j].own /\ job'[j].todo = job[j].todo /\ job'[j].b = job[j].b
      /\ job'[j].pc \in {"test", "list"} /\ job'[j].slot = job[j].slot
      /\ job[j].todo = {} /\ job[j].own # 0 /\ job[j].b # 0 /\ job[j].b \in Backups
  BY <1>1, QuietFacts DEF RunOK, JobRows, JobPcs
<1>3. /\ manifest' \in [Backups -> {"none", "torn", "untested", "tested"}]
      /\ Manifests' = Manifests \union {job[j].b}
  BY <1>1, <1>2, QuietFacts DEF Manifests
<1>4. TriesLeft' /\ Hand(j)' = {} /\ Hand(j) = {job[j].b}
  BY <1>1, <1>2, QuietFacts DEF TriesLeft, Hand
<1>5. ~disturbed => job[j].b \in Manifests
  BY <1>4 DEF BackupInv, HandsOK, HandOK
<1> QED
  BY <1>1, <1>2, <1>3, <1>4, <1>5, QuietFacts, QuietStep

\* While a run has the lock, no other job is a run.
LEMMA OneRun ==
  ASSUME RunsOK, NEW j \in Jobs, job[j].own # 0
  PROVE  \A i \in Jobs : i # j => job[i].own = 0
BY DEF RunsOK, RunOK

\* store_backup makes the file of the manifest.
LEMMA StoreStep ==
  ASSUME BackupInv, NEW j \in Jobs, StoreBackup(j)
  PROVE  BackupInv'
<1>1. /\ UNCHANGED <<day, reached, used, dumps, locked, attempts, stops, finished, asked,
                     disturbed>>
      /\ job' \in [Jobs -> JobRows]
      /\ job'[j].pc = "store" /\ job'[j].own = job[j].own /\ job'[j].b = job[j].own
      /\ job'[j].todo = job[j].todo /\ job'[j].slot = job[j].slot
      /\ \A i \in Jobs : i # j => job'[i] = job[i]
      /\ job[j].pc = "manifest" /\ job[j].own \in Backups
      /\ Manifests' = Manifests \union {job[j].own}
      /\ manifest' \in [Backups -> {"none", "torn", "untested", "tested"}]
      /\ madeOn' \in [Backups -> 0..MaxDays]
  <2>1. job \in [Jobs -> JobRows] /\ job[j] \in JobRows
    BY BackupTypes DEF BackupInv
  <2>2. /\ job[j].pc = "manifest" /\ manifest' = [manifest EXCEPT ![job[j].own] = "torn"]
        /\ madeOn' = [madeOn EXCEPT ![job[j].own] = IF reached THEN day ELSE day - 1]
    BY DEF StoreBackup
  <2>3. job[j].own \in Backups
    BY <2>2, BackupTypes DEF BackupInv, BackupBase, RunsOK, RunOK
  <2>4. /\ manifest \in [Backups -> {"none", "torn", "untested", "tested"}]
        /\ manifest' \in [Backups -> {"none", "torn", "untested", "tested"}]
    BY <2>2, <2>3 DEF BackupInv, BackupBase, BackupTypeOK
  <2>5. Manifests' = Manifests \union {job[j].own}
    BY <2>2, <2>3, <2>4 DEF Manifests
  <2>6. madeOn' \in [Backups -> 0..MaxDays]
    <3>1. (IF reached THEN day ELSE day - 1) \in 0..MaxDays
      BY BackupAssumption DEF BackupInv, BackupBase, BackupTypeOK, Numbered
    <3> QED
      BY <2>2, <2>3, <3>1 DEF BackupInv, BackupBase, BackupTypeOK
  <2>7. /\ job' \in [Jobs -> JobRows] /\ job'[j].pc = "store"
        /\ job'[j].own = job[j].own /\ job'[j].b = job[j].own
        /\ job'[j].todo = job[j].todo /\ job'[j].slot = job[j].slot
        /\ \A i \in Jobs : i # j => job'[i] = job[i]
    BY <2>1 DEF StoreBackup, JobRows, JobPcs
  <2> QED
    BY <2>2, <2>3, <2>4, <2>5, <2>6, <2>7 DEF StoreBackup
<1>0. BackupBase /\ Numbered /\ RunsOK /\ TriesLeft /\ RunOK(j)
  BY <1>1 DEF BackupInv, BackupBase, RunsOK
<1>2. BackupTypeOK'
  BY <1>0, <1>1, BackupTypes, BackupAssumption DEF BackupTypeOK, JobRows, BackupBase
<1>3. Numbered'
  BY <1>0, <1>1, BackupTypes DEF Numbered
<1>4. RunsOK'
  <2> SUFFICES ASSUME NEW i \in Jobs PROVE RunOK(i)'
    BY DEF RunsOK
  <2>1. RunOK(i)
    BY <1>0 DEF RunsOK
  <2>2. CASE i = j
    BY <1>0, <1>1, <2>1, <2>2, BackupTypes DEF RunOK
  <2>3. CASE i # j
    BY <1>0, <1>1, <2>1, <2>3, BackupTypes DEF RunOK
  <2> QED
    BY <2>2, <2>3
<1>5. TriesLeft'
  BY <1>0, <1>1, BackupTypes DEF TriesLeft, RunOK
<1>6. ~disturbed' => HandsOK'
  <2> SUFFICES ASSUME ~disturbed', NEW i \in Jobs PROVE HandOK(i)'
    BY DEF HandsOK
  <2>1. /\ ~disturbed /\ HandsOK /\ ListedHasDump /\ HandOK(i) /\ HandOK(j)
    BY <1>1 DEF BackupInv, HandsOK
  <2>2. /\ Hand(j)' = {job[j].own} /\ Hand(j) = {}
        /\ \A k \in Jobs : k # j => Hand(k)' = Hand(k)
    BY <1>0, <1>1 DEF Hand, RunOK
  <2>3. Manifests' = Manifests \union {job[j].own}
    BY <1>0, <1>1 DEF Manifests
  <2>0. \A k \in Jobs : k # j => job[k].own = 0
    BY <1>0, <1>1, BackupTypes, OneRun
  <2>4. CASE i = j
    BY <1>0, <1>1, <2>0, <2>1, <2>2, <2>3, <2>4, BackupTypes
      DEF HandsOK, HandOK, Removes, RunOK
  <2>5. CASE i # j
    BY <1>0, <1>1, <2>0, <2>1, <2>2, <2>3, <2>5, BackupTypes
      DEF HandsOK, HandOK, Removes, RunOK
  <2> QED
    BY <2>4, <2>5
<1>7. ~disturbed' => ListedHasDump'
  <2> SUFFICES ASSUME ~disturbed' PROVE ListedHasDump'
    OBVIOUS
  <2>1. ~disturbed /\ ListedHasDump /\ HandOK(j)
    BY <1>1 DEF BackupInv, HandsOK
  <2>2. \A b \in Backups : Deleting(b) => Deleting(b)'
    BY <1>0, <1>1 DEF Deleting, RunOK
  <2> QED
    BY <1>0, <1>1, <2>1, <2>2, BackupTypes DEF ListedHasDump, HandOK
<1>8. ~disturbed' => (AskedCounted /\ SafeCounted /\ KeptFew)'
  <2> SUFFICES ASSUME ~disturbed' PROVE (AskedCounted /\ SafeCounted /\ KeptFew)'
    OBVIOUS
  <2>1. /\ ~disturbed /\ HandsOK /\ HandOK(j) /\ SafeCounted /\ AskedCounted
    BY <1>1 DEF BackupInv, HandsOK
  <2>2. Going' = Going /\ OnRequest' = OnRequest
    BY <1>0, <1>1, <2>1 DEF Going, OnRequest, Removes, RunOK, HandOK
  <2>3. job[j].own \notin Manifests /\ job[j].own \in dumps
    BY <1>1, <2>1 DEF HandOK
  <2>4. Going \subseteq Manifests /\ OnRequest \subseteq Manifests
    BY <2>1 DEF Going, OnRequest, HandsOK, HandOK, Hand, Removes
  <2>5. /\ Safe' = Safe \union {job[j].own} /\ job[j].own \notin Safe /\ Safe \subseteq Backups
    BY <1>0, <1>1, <2>2, <2>3, <2>4, BackupTypes DEF Safe
  <2>6. IsFiniteSet(Safe) /\ Cardinality(Safe) \in Nat
    BY <2>5, BackupSets
  <2>7. Cardinality(Safe') = Cardinality(Safe) + 1
    BY <2>5, <2>6, FS_AddElement
  <2>8. asked \in Nat /\ finished \in Nat /\ Keep \in Nat /\ asked' = asked
        /\ finished' = finished
    BY <1>0, <1>1, BackupTypes, BackupAssumption
  <2>9. SafeCounted'
    BY <2>1, <2>6, <2>7, <2>8 DEF SafeCounted
  <2>10. Unpruned(j)'
    BY <1>0, <1>1, BackupTypes DEF Unpruned
  <2> QED
    BY <1>1, <2>1, <2>2, <2>9, <2>10 DEF AskedCounted, KeptFew
<1> QED
  BY <1>0, <1>2, <1>3, <1>4, <1>5, <1>6, <1>7, <1>8 DEF BackupInv, BackupBase

\* apply_retention reads what there is.
LEMMA RetentionStep ==
  ASSUME BackupInv, NEW j \in Jobs, ApplyRetention(j)
  PROVE  BackupInv'
<1>1. /\ UNCHANGED <<day, reached, used, manifest, dumps, madeOn, locked, attempts, stops,
                     finished, asked>>
      /\ job' \in [Jobs -> JobRows]
      /\ job'[j].pc = "prune" /\ job'[j].own = job[j].own /\ job'[j].b = job[j].b
      /\ job'[j].todo = Surplus /\ job'[j].slot = job[j].slot
      /\ \A i \in Jobs : i # j => job'[i] = job[i]
      /\ job[j].pc = "list"
      /\ disturbed' = (disturbed \/ Meets(j, Surplus) \/ Manifests # Listed)
      /\ disturbed \in BOOLEAN
      /\ Surplus \subseteq Manifests
  <2>1. job \in [Jobs -> JobRows] /\ job[j] \in JobRows
    BY BackupTypes DEF BackupInv
  <2>2. disturbed \in BOOLEAN /\ Surplus \subseteq Backups
    BY RetentionTakes, BackupTypes DEF BackupInv, BackupBase, BackupTypeOK, Listed
  <2> QED
    BY <2>1, <2>2, RetentionTakes DEF ApplyRetention, JobRows, JobPcs, Listed
<1>0. BackupBase /\ Numbered /\ RunsOK /\ TriesLeft /\ RunOK(j)
  BY <1>1 DEF BackupInv, BackupBase, RunsOK
<1>2. BackupTypeOK'
  BY <1>0, <1>1, BackupTypes, BackupAssumption DEF BackupTypeOK, JobRows, BackupBase
<1>3. Numbered'
  BY <1>0, <1>1, BackupTypes DEF Numbered, Manifests
<1>4. RunsOK'
  <2> SUFFICES ASSUME NEW i \in Jobs PROVE RunOK(i)'
    BY DEF RunsOK
  <2>1. RunOK(i)
    BY <1>0 DEF RunsOK
  <2>2. CASE i = j
    BY <1>0, <1>1, <2>1, <2>2, BackupTypes DEF RunOK
  <2>3. CASE i # j
    BY <1>0, <1>1, <2>1, <2>3, BackupTypes DEF RunOK
  <2> QED
    BY <2>2, <2>3
<1>5. TriesLeft'
  BY <1>0, <1>1, BackupTypes DEF TriesLeft, RunOK
<1>6. ~disturbed' => HandsOK'
  <2> SUFFICES ASSUME ~disturbed', NEW i \in Jobs PROVE HandOK(i)'
    BY DEF HandsOK
  <2>1. /\ ~disturbed /\ HandsOK /\ ListedHasDump /\ HandOK(i) /\ HandOK(j)
    BY <1>1 DEF BackupInv, HandsOK
  <2>2. /\ Hand(j)' = Surplus
        /\ \A k \in Jobs : k # j => Hand(k)' = Hand(k)
    BY <1>0, <1>1 DEF Hand, RunOK
  <2>3. Manifests' = Manifests
    BY <1>0, <1>1 DEF Manifests
  <2>0. /\ \A k \in Jobs : k # j => Surplus \cap Hand(k) = {}
        /\ \A b \in Manifests : b \in Surplus => b \in dumps
    <3>1. \A k \in Jobs : k # j => Surplus \cap Hand(k) = {}
      BY <1>1, <2>1 DEF Meets
    <3>2. ASSUME NEW b \in Surplus PROVE b \in dumps
      <4>1. CASE Deleting(b)
        <5>1. PICK k \in Jobs : job[k].pc = "rmmanifest" /\ job[k].b = b
          BY <4>1 DEF Deleting
        <5>2. k # j /\ b \in Hand(k)
          BY <1>1, <5>1 DEF Hand
        <5> QED
          BY <3>1, <3>2, <5>2
      <4>2. CASE ~Deleting(b)
        BY <1>1, <2>1, <3>2, <4>2 DEF ListedHasDump
      <4> QED
        BY <4>1, <4>2
    <3> QED
      BY <3>1, <3>2
  <2>4. CASE i = j
    BY <1>0, <1>1, <2>0, <2>1, <2>2, <2>3, <2>4, BackupTypes
      DEF HandsOK, HandOK, Removes, RunOK
  <2>5. CASE i # j
    BY <1>0, <1>1, <2>0, <2>1, <2>2, <2>3, <2>5, BackupTypes
      DEF HandsOK, HandOK, Removes, RunOK
  <2> QED
    BY <2>4, <2>5
<1>7. ~disturbed' => ListedHasDump'
  <2> SUFFICES ASSUME ~disturbed' PROVE ListedHasDump'
    OBVIOUS
  <2>1. ~disturbed /\ ListedHasDump /\ HandsOK
    BY <1>1 DEF BackupInv
  <2>2. Manifests' = Manifests
    BY <1>0, <1>1 DEF Manifests
  <2>3. \A b \in Backups : Deleting(b) => Deleting(b)'
    BY <1>0, <1>1 DEF Deleting, RunOK
  <2> QED
    BY <1>0, <1>1, <2>1, <2>2, <2>3, BackupTypes DEF ListedHasDump
<1>8. ~disturbed' => (AskedCounted /\ SafeCounted /\ KeptFew)'
  <2> SUFFICES ASSUME ~disturbed' PROVE (AskedCounted /\ SafeCounted /\ KeptFew)'
    OBVIOUS
  <2>1. /\ ~disturbed /\ HandsOK /\ HandOK(j) /\ SafeCounted /\ AskedCounted /\ ListedHasDump
    BY <1>1 DEF BackupInv, HandsOK
  <2>2. Stored(j) /\ job[j].own # 0 /\ \A i \in Jobs : i # j => job[i].own = 0
    BY <1>0, <1>1, OneRun DEF Stored, RunOK
  <2>3. Manifests' = Manifests /\ OnRequest' = OnRequest /\ Going = {} /\ Going' = Surplus
    BY <1>0, <1>1, <2>2, BackupTypes DEF Manifests, Going, OnRequest, Removes, RunOK
  <2>4. Safe' = Safe \ Surplus /\ Safe \subseteq Backups /\ Safe' \subseteq Backups
    BY <1>0, <1>1, <2>3, BackupTypes DEF Safe
  <2>5. /\ asked \in Nat /\ finished \in Nat /\ Keep \in Nat /\ asked' = asked
        /\ finished' = finished /\ Cardinality(Safe') \in Nat
    BY <1>0, <1>1, <2>4, BackupTypes, BackupAssumption, BackupSets
  <2>0. Listed = Manifests
    BY <1>1
  <2>6. KeptFew'
    BY <2>0, <2>3, RetentionTakes DEF KeptFew
  <2>7. SafeCounted'
    <3>1. CASE Surplus = {}
      BY <2>1, <2>2, <2>4, <2>5, <3>1 DEF SafeCounted
    <3>2. CASE Surplus # {}
      <4> DEFINE K == Manifests \ Surplus
      <4>1. Cardinality(K) >= Keep /\ K \subseteq Backups
        BY <1>0, <2>0, <3>2, RetentionTakes, BackupTypes
      <4>2. K \subseteq Safe' \union OnRequest
        <5> SUFFICES ASSUME NEW x \in Manifests, x \notin Surplus,
           x \notin OnRequest PROVE x \in Safe'
          OBVIOUS
        <5>1. ~Deleting(x)
          BY <1>0, <1>1, <2>2, BackupTypes DEF Deleting, OnRequest, Removes
        <5> QED
          BY <1>1, <2>1, <2>3, <5>1 DEF ListedHasDump, Safe
      <4>3. OnRequest \subseteq Backups
        BY DEF OnRequest
      <4>4. /\ IsFiniteSet(Safe') /\ IsFiniteSet(OnRequest) /\ Cardinality(OnRequest) \in Nat
            /\ IsFiniteSet(Safe' \union OnRequest)
            /\ Cardinality(K) <= Cardinality(Safe' \union OnRequest)
            /\ Cardinality(Safe' \union OnRequest) \in Nat /\ Cardinality(K) \in Nat
        <5>1. Safe' \union OnRequest \subseteq Backups
          BY <2>4, <4>3
        <5> QED
          BY <2>4, <4>1, <4>2, <4>3, <5>1, BackupSets
      <4>5. Cardinality(Safe' \union OnRequest) <= Cardinality(Safe') + Cardinality(OnRequest)
        <5>1. Cardinality(Safe' \union OnRequest) =
                Cardinality(Safe') + Cardinality(OnRequest) - Cardinality(Safe' \cap OnRequest)
          BY <4>4, FS_Union
        <5>2. Cardinality(Safe' \cap OnRequest) \in Nat
          BY <4>3, BackupSets
        <5> QED
          BY <2>5, <4>4, <5>1, <5>2
      <4>6. Cardinality(OnRequest) <= asked
        BY <2>1 DEF AskedCounted
      <4> HIDE DEF K
      <4>7. Cardinality(Safe') + asked >= Keep
        BY <2>5, <4>1, <4>4, <4>5, <4>6
      <4> QED
        BY <2>5, <4>7 DEF SafeCounted
    <3> QED
      BY <3>1, <3>2
  <2> QED
    BY <2>1, <2>3, <2>5, <2>6, <2>7 DEF AskedCounted
<1> QED
  BY <1>0, <1>2, <1>3, <1>4, <1>5, <1>6, <1>7, <1>8 DEF BackupInv, BackupBase

\* The retention takes the next backup that it has to delete.
LEMMA PruneStep ==
  ASSUME BackupInv, NEW j \in Jobs, Prune(j), NEW c, c = Max(job[j].todo), c \in Listed
  PROVE  BackupInv'
<1>1. /\ UNCHANGED <<day, reached, used, manifest, dumps, madeOn, locked, attempts, stops,
                     finished, asked, disturbed>>
      /\ job' \in [Jobs -> JobRows]
      /\ job'[j].pc = "rmdump" /\ job'[j].own = job[j].own /\ job'[j].b = c
      /\ job'[j].todo = job[j].todo \ {c} /\ job'[j].slot = job[j].slot
      /\ \A i \in Jobs : i # j => job'[i] = job[i]
      /\ job[j].pc = "prune" /\ c \in job[j].todo /\ c \in Backups
  <2>1. job \in [Jobs -> JobRows] /\ job[j] \in JobRows
    BY BackupTypes DEF BackupInv
  <2>2. /\ job[j].pc = "prune" /\ job[j].todo # {}
        /\ job' = [job EXCEPT ![j].pc = "rmdump", ![j].b = c, ![j].todo = @ \ {c}]
    BY DEF Prune
  <2>3. c \in job[j].todo /\ c \in Backups /\ c \in 0..MaxBackups
        /\ job[j].todo \subseteq Backups
    <3>1. job[j].todo \subseteq Backups /\ job[j].todo # {}
      BY <2>2, BackupTypes DEF BackupInv
    <3>2. c \in job[j].todo
      BY <3>1, MaxIn
    <3> QED
      BY <3>1, <3>2, BackupTypes DEF BackupInv
  <2>4. job' \in [Jobs -> JobRows]
        /\ (job'[j].pc = "rmdump" /\ job'[j].own = job[j].own /\ job'[j].b = c
      /\ job'[j].todo = job[j].todo \ {c} /\ job'[j].slot = job[j].slot)
      /\ (\A i \in Jobs : i # j => job'[i] = job[i])
    BY <2>1, <2>2, <2>3 DEF JobRows, JobPcs
  <2> QED
    BY <2>2, <2>3, <2>4 DEF Prune
<1>0. BackupBase /\ Numbered /\ RunsOK /\ TriesLeft /\ RunOK(j)
  BY <1>1 DEF BackupInv, BackupBase, RunsOK
<1>2. BackupTypeOK'
  BY <1>0, <1>1, BackupTypes, BackupAssumption DEF BackupTypeOK, JobRows, BackupBase
<1>3. Numbered'
  BY <1>0, <1>1, BackupTypes DEF Numbered, Manifests
<1>4. RunsOK'
  <2> SUFFICES ASSUME NEW i \in Jobs PROVE RunOK(i)'
    BY DEF RunsOK
  <2>1. RunOK(i)
    BY <1>0 DEF RunsOK
  <2>2. CASE i = j
    BY <1>0, <1>1, <2>1, <2>2, BackupTypes DEF RunOK
  <2>3. CASE i # j
    BY <1>0, <1>1, <2>1, <2>3, BackupTypes DEF RunOK
  <2> QED
    BY <2>2, <2>3
<1>5. TriesLeft'
  BY <1>0, <1>1, BackupTypes DEF TriesLeft, RunOK
<1>6. ~disturbed' => HandsOK'
  <2> SUFFICES ASSUME ~disturbed', NEW i \in Jobs PROVE HandOK(i)'
    BY DEF HandsOK
  <2>1. /\ ~disturbed /\ HandsOK /\ ListedHasDump /\ HandOK(i) /\ HandOK(j)
    BY <1>1 DEF BackupInv, HandsOK
  <2>2. /\ Hand(j)' = Hand(j)
        /\ \A k \in Jobs : k # j => Hand(k)' = Hand(k)
    BY <1>0, <1>1 DEF Hand, RunOK
  <2>3. Manifests' = Manifests
    BY <1>0, <1>1 DEF Manifests
  <2>0. Hand(i) \subseteq Manifests
    BY <1>0, <1>1, <2>1, <2>2, BackupTypes DEF Meets, Hand, HandsOK, HandOK, RunOK
  <2>4. CASE i = j
    BY <1>0, <1>1, <2>0, <2>1, <2>2, <2>3, <2>4, BackupTypes
      DEF HandsOK, HandOK, Removes, RunOK
  <2>5. CASE i # j
    BY <1>0, <1>1, <2>0, <2>1, <2>2, <2>3, <2>5, BackupTypes
      DEF HandsOK, HandOK, Removes, RunOK
  <2> QED
    BY <2>4, <2>5
<1>7. ~disturbed' => ListedHasDump'
  <2> SUFFICES ASSUME ~disturbed' PROVE ListedHasDump'
    OBVIOUS
  <2>1. ~disturbed /\ ListedHasDump /\ HandsOK
    BY <1>1 DEF BackupInv
  <2>2. Manifests' = Manifests
    BY <1>0, <1>1 DEF Manifests
  <2>3. \A b \in Backups : Deleting(b) => Deleting(b)'
    BY <1>0, <1>1 DEF Deleting, RunOK
  <2> QED
    BY <1>0, <1>1, <2>1, <2>2, <2>3, BackupTypes DEF ListedHasDump
<1>8. ~disturbed' => (AskedCounted /\ SafeCounted /\ KeptFew)'
  <2> SUFFICES ASSUME ~disturbed' PROVE (AskedCounted /\ SafeCounted /\ KeptFew)'
    OBVIOUS
  <2>1. ~disturbed /\ HandsOK /\ HandOK(j)
    BY <1>1 DEF BackupInv, HandsOK
  <2>2. Manifests' = Manifests
    BY <1>0, <1>1, <2>1 DEF Manifests, HandOK
  <2>3. Going' = Going
    BY <1>0, <1>1, <2>1 DEF Going, Removes, RunOK, HandOK
  <2>4. OnRequest' = OnRequest
    BY <1>0, <1>1, <2>1 DEF OnRequest, Removes, RunOK, HandOK
  <2>5. Safe \subseteq Safe' /\ Safe' \subseteq Backups
    BY <1>0, <1>1, <2>1, <2>2, <2>3, <2>4, BackupTypes DEF Safe, HandOK
  <2>6. \A i \in Jobs : (Stored(i)' => Stored(i)) /\ (Unpruned(i) => Unpruned(i)')
    BY <1>0, <1>1, <2>1 DEF Stored, Unpruned, RunOK, HandOK
  <2> QED
    BY <1>1, <2>1, <2>2, <2>3, <2>4, <2>5, <2>6, CountsKept
<1> QED
  BY <1>0, <1>2, <1>3, <1>4, <1>5, <1>6, <1>7, <1>8 DEF BackupInv, BackupBase

\* The retention finds that somebody else has deleted a backup.
LEMMA PruneGoneStep ==
  ASSUME BackupInv, ManifestsWhole, NEW j \in Jobs, Prune(j), NEW c, c = Max(job[j].todo),
         c \notin Listed
  PROVE  BackupInv'
<1>1. /\ UNCHANGED <<day, reached, used, manifest, dumps, madeOn, locked, attempts, stops,
                     finished, asked, disturbed>>
      /\ job' \in [Jobs -> JobRows]
      /\ job'[j].pc = "undo" /\ job'[j].own = job[j].own /\ job'[j].b = c
      /\ job'[j].todo = job[j].todo \ {c} /\ job'[j].slot = job[j].slot
      /\ \A i \in Jobs : i # j => job'[i] = job[i]
      /\ job[j].pc = "prune" /\ c \in job[j].todo /\ c \in Backups
  <2>1. job \in [Jobs -> JobRows] /\ job[j] \in JobRows
    BY BackupTypes DEF BackupInv
  <2>2. /\ job[j].pc = "prune" /\ job[j].todo # {}
        /\ job' = [job EXCEPT ![j].pc = "undo", ![j].b = c, ![j].todo = @ \ {c}]
    BY DEF Prune
  <2>3. c \in job[j].todo /\ c \in Backups /\ c \in 0..MaxBackups
        /\ job[j].todo \subseteq Backups
    <3>1. job[j].todo \subseteq Backups /\ job[j].todo # {}
      BY <2>2, BackupTypes DEF BackupInv
    <3>2. c \in job[j].todo
      BY <3>1, MaxIn
    <3> QED
      BY <3>1, <3>2, BackupTypes DEF BackupInv
  <2>4. job' \in [Jobs -> JobRows]
        /\ (job'[j].pc = "undo" /\ job'[j].own = job[j].own /\ job'[j].b = c
      /\ job'[j].todo = job[j].todo \ {c} /\ job'[j].slot = job[j].slot)
      /\ (\A i \in Jobs : i # j => job'[i] = job[i])
    BY <2>1, <2>2, <2>3 DEF JobRows, JobPcs
  <2> QED
    BY <2>2, <2>3, <2>4 DEF Prune
<1>0. BackupBase /\ Numbered /\ RunsOK /\ TriesLeft /\ RunOK(j)
  BY <1>1 DEF BackupInv, BackupBase, RunsOK
<1>2. BackupTypeOK'
  BY <1>0, <1>1, BackupTypes, BackupAssumption DEF BackupTypeOK, JobRows, BackupBase
<1>3. Numbered'
  BY <1>0, <1>1, BackupTypes DEF Numbered, Manifests
<1>4. RunsOK'
  <2> SUFFICES ASSUME NEW i \in Jobs PROVE RunOK(i)'
    BY DEF RunsOK
  <2>1. RunOK(i)
    BY <1>0 DEF RunsOK
  <2>2. CASE i = j
    BY <1>0, <1>1, <2>1, <2>2, BackupTypes DEF RunOK
  <2>3. CASE i # j
    BY <1>0, <1>1, <2>1, <2>3, BackupTypes DEF RunOK
  <2> QED
    BY <2>2, <2>3
<1>5. TriesLeft'
  BY <1>0, <1>1, BackupTypes DEF TriesLeft, RunOK
<1>6. disturbed'
  <2> SUFFICES ASSUME ~disturbed PROVE FALSE
    BY <1>1
  <2>1. HandsOK /\ c \in Hand(j) /\ c \in Manifests
    BY <1>1 DEF BackupInv, HandsOK, HandOK, Hand
  <2>2. PICK i \in Jobs : job[i].pc \in {"store", "write"} /\ job[i].b = c
    BY <2>1 DEF ManifestsWhole, Writing
  <2>3. i # j /\ c \in Hand(i)
    BY <1>1, <2>2 DEF Hand
  <2> QED
    BY <2>1, <2>3 DEF HandsOK, HandOK
<1> QED
  BY <1>2, <1>3, <1>4, <1>5, <1>6 DEF BackupInv, BackupBase

\* A run whose retention is done has ended well.
LEMMA FinishRunStep ==
  ASSUME BackupInv, NEW j \in Jobs, FinishBackup(j)
  PROVE  BackupInv'
<1>1. /\ UNCHANGED <<day, reached, used, manifest, dumps, madeOn, stops, asked, disturbed>>
      /\ job' \in [Jobs -> JobRows]
      /\ job'[j].pc = "rest" /\ job'[j].own = 0 /\ job'[j].b = 0
      /\ job'[j].todo = {} /\ job'[j].slot = 0
      /\ \A i \in Jobs : i # j => job'[i] = job[i]
      /\ job[j].pc = "prune" /\ job[j].todo = {} /\ RecordSuccess(j) /\ locked' = Free
      /\ finished' = finished + 1
  <2>1. job \in [Jobs -> JobRows] /\ job[j] \in JobRows
    BY BackupTypes DEF BackupInv
  <2> QED
    BY <2>1, IdleRow DEF FinishBackup
<1>0. BackupBase /\ Numbered /\ RunsOK /\ TriesLeft /\ RunOK(j)
  BY <1>1 DEF BackupInv, BackupBase, RunsOK
<1>2. BackupTypeOK'
  <2>1. attempts' \in [slot : 0..MaxDays, count : 0..MaxRetries]
    BY <1>0, <1>1, BackupAssumption DEF RecordSuccess, BackupBase, BackupTypeOK
  <2>2. finished + 1 \in 0..MaxBackups
    <3>1. finished < used /\ used \in 0..MaxBackups /\ finished \in 0..MaxBackups
      BY <1>0, <1>1 DEF RunOK, BackupBase, BackupTypeOK
    <3> QED
      BY <3>1, BackupAssumption
  <2> QED
    BY <1>0, <1>1, <2>1, <2>2, BackupTypes DEF BackupTypeOK, JobRows, BackupBase
<1>3. Numbered'
  BY <1>0, <1>1, BackupTypes DEF Numbered, Manifests, RunOK
<1>4. RunsOK'
  <2> SUFFICES ASSUME NEW i \in Jobs PROVE RunOK(i)'
    BY DEF RunsOK
  <2>1. RunOK(i)
    BY <1>0 DEF RunsOK
  <2>2. CASE i = j
    BY <1>0, <1>1, <2>1, <2>2, BackupTypes, OneRun DEF RunOK
  <2>3. CASE i # j
    BY <1>0, <1>1, <2>1, <2>3, BackupTypes, OneRun DEF RunOK
  <2> QED
    BY <2>2, <2>3
<1>5. TriesLeft'
  BY <1>0, <1>1, BackupTypes DEF TriesLeft, RunOK, RecordSuccess
<1>6. ~disturbed' => HandsOK'
  <2> SUFFICES ASSUME ~disturbed', NEW i \in Jobs PROVE HandOK(i)'
    BY DEF HandsOK
  <2>1. /\ ~disturbed /\ HandsOK /\ ListedHasDump /\ HandOK(i) /\ HandOK(j)
    BY <1>1 DEF BackupInv, HandsOK
  <2>2. /\ Hand(j)' = Hand(j)
        /\ \A k \in Jobs : k # j => Hand(k)' = Hand(k)
    BY <1>0, <1>1 DEF Hand, RunOK
  <2>3. Manifests' = Manifests
    BY <1>0, <1>1 DEF Manifests
  <2>0. Hand(i) \subseteq Manifests
    BY <1>0, <1>1, <2>1, <2>2, BackupTypes DEF Meets, Hand, HandsOK, HandOK, RunOK
  <2>4. CASE i = j
    BY <1>0, <1>1, <2>0, <2>1, <2>2, <2>3, <2>4, BackupTypes
      DEF HandsOK, HandOK, Removes, RunOK
  <2>5. CASE i # j
    BY <1>0, <1>1, <2>0, <2>1, <2>2, <2>3, <2>5, BackupTypes
      DEF HandsOK, HandOK, Removes, RunOK
  <2> QED
    BY <2>4, <2>5
<1>7. ~disturbed' => ListedHasDump'
  <2> SUFFICES ASSUME ~disturbed' PROVE ListedHasDump'
    OBVIOUS
  <2>1. ~disturbed /\ ListedHasDump /\ HandsOK
    BY <1>1 DEF BackupInv
  <2>2. Manifests' = Manifests
    BY <1>0, <1>1 DEF Manifests
  <2>3. \A b \in Backups : Deleting(b) => Deleting(b)'
    BY <1>0, <1>1 DEF Deleting, RunOK
  <2> QED
    BY <1>0, <1>1, <2>1, <2>2, <2>3, BackupTypes DEF ListedHasDump
<1>8. ~disturbed' => (AskedCounted /\ SafeCounted /\ KeptFew)'
  <2> SUFFICES ASSUME ~disturbed' PROVE (AskedCounted /\ SafeCounted /\ KeptFew)'
    OBVIOUS
  <2>1. ~disturbed /\ SafeCounted /\ AskedCounted /\ KeptFew
    BY <1>1 DEF BackupInv
  <2>2. \A i \in Jobs : i # j => job[i].own = 0
    BY <1>0, <1>1, OneRun DEF RunOK
  <2>3. Manifests' = Manifests /\ Going' = Going /\ OnRequest' = OnRequest
    BY <1>0, <1>1, <2>2 DEF Manifests, Going, OnRequest, Removes, RunOK
  <2>4. Safe' = Safe /\ Safe \subseteq Backups
    BY <1>0, <1>1, <2>3, BackupTypes DEF Safe
  <2>5. /\ asked \in Nat /\ finished \in Nat /\ Keep \in Nat /\ asked' = asked
        /\ finished' = finished + 1 /\ Cardinality(Safe) \in Nat
    BY <1>0, <1>1, <2>4, BackupTypes, BackupAssumption, BackupSets
  <2>6. Stored(j) /\ (\A i \in Jobs : ~Stored(i)') /\ (\A i \in Jobs : ~Unpruned(i))
    BY <1>0, <1>1, <2>2 DEF Stored, Unpruned, RunOK
  <2>7. SafeCounted'
    BY <2>1, <2>4, <2>5, <2>6 DEF SafeCounted
  <2> QED
    BY <2>1, <2>3, <2>5, <2>6, <2>7 DEF AskedCounted, KeptFew
<1> QED
  BY <1>0, <1>2, <1>3, <1>4, <1>5, <1>6, <1>7, <1>8 DEF BackupInv, BackupBase

\* A run that has failed removes its dump.
LEMMA UndoStep ==
  ASSUME BackupInv, NEW j \in Jobs, Undo(j)
  PROVE  BackupInv'
<1>1. /\ UNCHANGED <<day, reached, used, manifest, madeOn, stops, finished, asked, disturbed>>
      /\ job' \in [Jobs -> JobRows]
      /\ job'[j].pc = "rest" /\ job'[j].own = 0 /\ job'[j].b = 0
      /\ job'[j].todo = {} /\ job'[j].slot = 0
      /\ \A i \in Jobs : i # j => job'[i] = job[i]
      /\ job[j].pc = "undo" /\ RecordFailure(j) /\ locked' = Free
      /\ dumps' = dumps \ {job[j].own}
  <2>1. job \in [Jobs -> JobRows] /\ job[j] \in JobRows
    BY BackupTypes DEF BackupInv
  <2> QED
    BY <2>1, IdleRow DEF Undo
<1>0. BackupBase /\ Numbered /\ RunsOK /\ TriesLeft /\ RunOK(j)
  BY <1>1 DEF BackupInv, BackupBase, RunsOK
<1>2. BackupTypeOK'
  <2>1. attempts' \in [slot : 0..MaxDays, count : 0..MaxRetries]
    BY <1>0, <1>1, FailureCounts DEF RunOK
  <2> QED
    BY <1>0, <1>1, <2>1, BackupTypes DEF BackupTypeOK, JobRows, BackupBase
<1>3. Numbered'
  BY <1>0, <1>1, BackupTypes DEF Numbered, Manifests
<1>4. RunsOK'
  <2> SUFFICES ASSUME NEW i \in Jobs PROVE RunOK(i)'
    BY DEF RunsOK
  <2>1. RunOK(i)
    BY <1>0 DEF RunsOK
  <2>2. CASE i = j
    BY <1>0, <1>1, <2>1, <2>2, BackupTypes, OneRun DEF RunOK
  <2>3. CASE i # j
    BY <1>0, <1>1, <2>1, <2>3, BackupTypes, OneRun DEF RunOK
  <2> QED
    BY <2>2, <2>3
<1>5. TriesLeft'
  BY <1>0, <1>1, BackupTypes DEF TriesLeft, RunOK, RecordFailure
<1>6. ~disturbed' => HandsOK'
  <2> SUFFICES ASSUME ~disturbed', NEW i \in Jobs PROVE HandOK(i)'
    BY DEF HandsOK
  <2>1. /\ ~disturbed /\ HandsOK /\ ListedHasDump /\ HandOK(i) /\ HandOK(j)
    BY <1>1 DEF BackupInv, HandsOK
  <2>2. /\ Hand(j)' = {}
        /\ \A k \in Jobs : k # j => Hand(k)' = Hand(k)
    BY <1>0, <1>1 DEF Hand, RunOK
  <2>3. Manifests' = Manifests
    BY <1>0, <1>1 DEF Manifests
  <2>0. /\ job[j].own \notin Manifests /\ Hand(i) \subseteq Manifests
        /\ job[i].todo \subseteq Hand(i)
        /\ (job[i].pc = "rmdump" => job[i].b \in Hand(i))
        /\ (i # j => job[i].own = 0)
    BY <1>0, <1>1, <2>1, OneRun DEF Hand, HandOK, RunOK
  <2>4. CASE i = j
    BY <1>0, <1>1, <2>0, <2>1, <2>2, <2>3, <2>4, BackupTypes
      DEF HandsOK, HandOK, Removes, RunOK, Hand
  <2>5. CASE i # j
    BY <1>0, <1>1, <2>0, <2>1, <2>2, <2>3, <2>5, BackupTypes
      DEF HandsOK, HandOK, Removes, RunOK, Hand
  <2> QED
    BY <2>4, <2>5
<1>7. ~disturbed' => ListedHasDump'
  <2> SUFFICES ASSUME ~disturbed' PROVE ListedHasDump'
    OBVIOUS
  <2>1. ~disturbed /\ ListedHasDump /\ HandOK(j)
    BY <1>1 DEF BackupInv, HandsOK
  <2>2. Manifests' = Manifests /\ job[j].own \notin Manifests
    BY <1>1, <2>1 DEF Manifests, HandOK
  <2>3. \A b \in Backups : Deleting(b) => Deleting(b)'
    BY <1>0, <1>1 DEF Deleting, RunOK
  <2> QED
    BY <1>0, <1>1, <2>1, <2>2, <2>3, BackupTypes DEF ListedHasDump
<1>8. ~disturbed' => (AskedCounted /\ SafeCounted /\ KeptFew)'
  <2> SUFFICES ASSUME ~disturbed' PROVE (AskedCounted /\ SafeCounted /\ KeptFew)'
    OBVIOUS
  <2>1. ~disturbed /\ HandsOK /\ HandOK(j)
    BY <1>1 DEF BackupInv, HandsOK
  <2>2. Manifests' = Manifests
    BY <1>0, <1>1, <2>1 DEF Manifests, HandOK
  <2>3. Going' = Going
    BY <1>0, <1>1, <2>1 DEF Going, Removes, RunOK, HandOK
  <2>4. OnRequest' = OnRequest
    BY <1>0, <1>1, <2>1 DEF OnRequest, Removes, RunOK, HandOK
  <2>5. Safe \subseteq Safe' /\ Safe' \subseteq Backups
    BY <1>0, <1>1, <2>1, <2>2, <2>3, <2>4, BackupTypes DEF Safe, HandOK
  <2>6. \A i \in Jobs : (Stored(i)' => Stored(i)) /\ (Unpruned(i) => Unpruned(i)')
    BY <1>0, <1>1, <2>1 DEF Stored, Unpruned, RunOK, HandOK
  <2> QED
    BY <1>1, <2>1, <2>2, <2>3, <2>4, <2>5, <2>6, CountsKept
<1> QED
  BY <1>0, <1>2, <1>3, <1>4, <1>5, <1>6, <1>7, <1>8 DEF BackupInv, BackupBase

\* delete_backup removes the dump.
LEMMA RemoveDumpStep ==
  ASSUME BackupInv, NEW j \in Jobs, RemoveDump(j), job[j].b \in dumps
  PROVE  BackupInv'
<1>1. /\ UNCHANGED <<day, reached, used, manifest, madeOn, locked, attempts, stops, finished,
                     asked, disturbed>>
      /\ job' \in [Jobs -> JobRows]
      /\ job'[j].pc = "rmmanifest" /\ job'[j].own = job[j].own /\ job'[j].b = job[j].b
      /\ job'[j].todo = job[j].todo /\ job'[j].slot = job[j].slot
      /\ \A i \in Jobs : i # j => job'[i] = job[i]
      /\ job[j].pc = "rmdump" /\ dumps' = dumps \ {job[j].b} /\ job[j].b \in Backups
  <2>1. job \in [Jobs -> JobRows] /\ job[j] \in JobRows
    BY BackupTypes DEF BackupInv
  <2>2. job[j].b \in Backups
    BY BackupTypes DEF RemoveDump, BackupInv, BackupBase, RunsOK, RunOK
  <2> QED
    BY <2>1, <2>2 DEF RemoveDump, JobRows, JobPcs
<1>0. BackupBase /\ Numbered /\ RunsOK /\ TriesLeft /\ RunOK(j)
  BY <1>1 DEF BackupInv, BackupBase, RunsOK
<1>2. BackupTypeOK'
  BY <1>0, <1>1, BackupTypes, BackupAssumption DEF BackupTypeOK, JobRows, BackupBase
<1>3. Numbered'
  BY <1>0, <1>1, BackupTypes DEF Numbered, Manifests
<1>4. RunsOK'
  <2> SUFFICES ASSUME NEW i \in Jobs PROVE RunOK(i)'
    BY DEF RunsOK
  <2>1. RunOK(i)
    BY <1>0 DEF RunsOK
  <2>2. CASE i = j
    BY <1>0, <1>1, <2>1, <2>2, BackupTypes DEF RunOK
  <2>3. CASE i # j
    BY <1>0, <1>1, <2>1, <2>3, BackupTypes DEF RunOK
  <2> QED
    BY <2>2, <2>3
<1>5. TriesLeft'
  BY <1>0, <1>1, BackupTypes DEF TriesLeft, RunOK
<1>6. ~disturbed' => HandsOK'
  <2> SUFFICES ASSUME ~disturbed', NEW i \in Jobs PROVE HandOK(i)'
    BY DEF HandsOK
  <2>1. /\ ~disturbed /\ HandsOK /\ ListedHasDump /\ HandOK(i) /\ HandOK(j)
    BY <1>1 DEF BackupInv, HandsOK
  <2>2. /\ Hand(j)' = Hand(j)
        /\ \A k \in Jobs : k # j => Hand(k)' = Hand(k)
    BY <1>0, <1>1 DEF Hand, RunOK
  <2>3. Manifests' = Manifests
    BY <1>0, <1>1 DEF Manifests
  <2>0. /\ job[j].b \in Manifests /\ Hand(i) \subseteq Manifests /\ job[i].todo \subseteq Hand(i)
        /\ (i # j => job[j].b \notin Hand(i)) /\ (job[i].pc = "rmdump" => job[i].b \in Hand(i))
    BY <1>0, <1>1, <2>1 DEF Hand, HandOK, RunOK
  <2>4. CASE i = j
    BY <1>0, <1>1, <2>0, <2>1, <2>2, <2>3, <2>4, BackupTypes
      DEF HandsOK, HandOK, Removes, RunOK
  <2>5. CASE i # j
    BY <1>0, <1>1, <2>0, <2>1, <2>2, <2>3, <2>5, BackupTypes
      DEF HandsOK, HandOK, Removes, RunOK
  <2> QED
    BY <2>4, <2>5
<1>7. ~disturbed' => ListedHasDump'
  <2> SUFFICES ASSUME ~disturbed' PROVE ListedHasDump'
    OBVIOUS
  <2>1. ~disturbed /\ ListedHasDump
    BY <1>1 DEF BackupInv
  <2>2. Manifests' = Manifests
    BY <1>1 DEF Manifests
  <2>3. \A b \in Backups : Deleting(b) \/ b = job[j].b => Deleting(b)'
    BY <1>0, <1>1 DEF Deleting
  <2> QED
    BY <1>0, <1>1, <2>1, <2>2, <2>3, BackupTypes DEF ListedHasDump
<1>8. ~disturbed' => (AskedCounted /\ SafeCounted /\ KeptFew)'
  <2> SUFFICES ASSUME ~disturbed' PROVE (AskedCounted /\ SafeCounted /\ KeptFew)'
    OBVIOUS
  <2>1. ~disturbed /\ HandsOK /\ HandOK(j)
    BY <1>1 DEF BackupInv, HandsOK
  <2>2. Manifests' = Manifests
    BY <1>0, <1>1, <2>1 DEF Manifests, HandOK
  <2>3. Going' = Going
    BY <1>0, <1>1, <2>1 DEF Going, Removes, RunOK, HandOK
  <2>4. OnRequest' = OnRequest
    BY <1>0, <1>1, <2>1 DEF OnRequest, Removes, RunOK, HandOK
  <2>5. Safe \subseteq Safe' /\ Safe' \subseteq Backups
    BY <1>0, <1>1, <2>1, <2>2, <2>3, <2>4, BackupTypes
      DEF Safe, HandOK, Going, OnRequest, Removes
  <2>6. \A i \in Jobs : (Stored(i)' => Stored(i)) /\ (Unpruned(i) => Unpruned(i)')
    BY <1>0, <1>1, <2>1 DEF Stored, Unpruned, RunOK, HandOK
  <2> QED
    BY <1>1, <2>1, <2>2, <2>3, <2>4, <2>5, <2>6, CountsKept
<1> QED
  BY <1>0, <1>2, <1>3, <1>4, <1>5, <1>6, <1>7, <1>8 DEF BackupInv, BackupBase

\* delete_backup of a request finds no dump.
LEMMA DumpGoneStep ==
  ASSUME BackupInv, NEW j \in Jobs, RemoveDump(j), job[j].b \notin dumps, job[j].own = 0
  PROVE  BackupInv'
<1>1. /\ UNCHANGED <<day, reached, used, manifest, madeOn, locked, attempts, stops, finished,
                     asked, disturbed>>
      /\ job' \in [Jobs -> JobRows]
      /\ job'[j].pc = "rest" /\ job'[j].own = 0 /\ job'[j].b = 0
      /\ job'[j].todo = {} /\ job'[j].slot = 0
      /\ \A i \in Jobs : i # j => job'[i] = job[i]
      /\ job[j].pc = "rmdump" /\ dumps' = dumps \ {job[j].b}
  <2>1. job \in [Jobs -> JobRows] /\ job[j] \in JobRows
    BY BackupTypes DEF BackupInv
  <2> QED
    BY <2>1, IdleRow DEF RemoveDump, Return
<1>0. BackupBase /\ Numbered /\ RunsOK /\ TriesLeft /\ RunOK(j)
  BY <1>1 DEF BackupInv, BackupBase, RunsOK
<1>2. BackupTypeOK'
  BY <1>0, <1>1, BackupTypes, BackupAssumption DEF BackupTypeOK, JobRows, BackupBase
<1>3. Numbered'
  BY <1>0, <1>1, BackupTypes DEF Numbered, Manifests
<1>4. RunsOK'
  <2> SUFFICES ASSUME NEW i \in Jobs PROVE RunOK(i)'
    BY DEF RunsOK
  <2>1. RunOK(i)
    BY <1>0 DEF RunsOK
  <2>2. CASE i = j
    BY <1>0, <1>1, <2>1, <2>2, BackupTypes DEF RunOK
  <2>3. CASE i # j
    BY <1>0, <1>1, <2>1, <2>3, BackupTypes DEF RunOK
  <2> QED
    BY <2>2, <2>3
<1>5. TriesLeft'
  BY <1>0, <1>1, BackupTypes DEF TriesLeft, RunOK
<1>6. ~disturbed' => HandsOK'
  <2>1. disturbed'
    BY <1>0, <1>1 DEF BackupInv, HandsOK, HandOK, Hand
  <2> QED
    BY <2>1
<1>7. ~disturbed' => ListedHasDump'
  <2>1. disturbed'
    BY <1>0, <1>1 DEF BackupInv, HandsOK, HandOK, Hand
  <2> QED
    BY <2>1
<1>8. ~disturbed' => (AskedCounted /\ SafeCounted /\ KeptFew)'
  <2>1. disturbed'
    BY <1>0, <1>1 DEF BackupInv, HandsOK, HandOK, Hand
  <2> QED
    BY <2>1
<1> QED
  BY <1>0, <1>2, <1>3, <1>4, <1>5, <1>6, <1>7, <1>8 DEF BackupInv, BackupBase

\* The retention finds no dump.
LEMMA DumpGoneRunStep ==
  ASSUME BackupInv, NEW j \in Jobs, RemoveDump(j), job[j].b \notin dumps, job[j].own # 0
  PROVE  BackupInv'
<1>1. /\ UNCHANGED <<day, reached, used, manifest, madeOn, locked, attempts, stops, finished,
                     asked, disturbed>>
      /\ job' \in [Jobs -> JobRows]
      /\ job'[j].pc = "undo" /\ job'[j].own = job[j].own /\ job'[j].b = job[j].b
      /\ job'[j].todo = job[j].todo /\ job'[j].slot = job[j].slot
      /\ \A i \in Jobs : i # j => job'[i] = job[i]
      /\ job[j].pc = "rmdump" /\ dumps' = dumps \ {job[j].b}
  <2>1. job \in [Jobs -> JobRows] /\ job[j] \in JobRows
    BY BackupTypes DEF BackupInv
  <2> QED
    BY <2>1, IdleRow DEF RemoveDump, Return, JobRows, JobPcs
<1>0. BackupBase /\ Numbered /\ RunsOK /\ TriesLeft /\ RunOK(j)
  BY <1>1 DEF BackupInv, BackupBase, RunsOK
<1>2. BackupTypeOK'
  BY <1>0, <1>1, BackupTypes, BackupAssumption DEF BackupTypeOK, JobRows, BackupBase
<1>3. Numbered'
  BY <1>0, <1>1, BackupTypes DEF Numbered, Manifests
<1>4. RunsOK'
  <2> SUFFICES ASSUME NEW i \in Jobs PROVE RunOK(i)'
    BY DEF RunsOK
  <2>1. RunOK(i)
    BY <1>0 DEF RunsOK
  <2>2. CASE i = j
    BY <1>0, <1>1, <2>1, <2>2, BackupTypes DEF RunOK
  <2>3. CASE i # j
    BY <1>0, <1>1, <2>1, <2>3, BackupTypes DEF RunOK
  <2> QED
    BY <2>2, <2>3
<1>5. TriesLeft'
  BY <1>0, <1>1, BackupTypes DEF TriesLeft, RunOK
<1>6. ~disturbed' => HandsOK'
  <2>1. disturbed'
    BY <1>0, <1>1 DEF BackupInv, HandsOK, HandOK, Hand
  <2> QED
    BY <2>1
<1>7. ~disturbed' => ListedHasDump'
  <2>1. disturbed'
    BY <1>0, <1>1 DEF BackupInv, HandsOK, HandOK, Hand
  <2> QED
    BY <2>1
<1>8. ~disturbed' => (AskedCounted /\ SafeCounted /\ KeptFew)'
  <2>1. disturbed'
    BY <1>0, <1>1 DEF BackupInv, HandsOK, HandOK, Hand
  <2> QED
    BY <2>1
<1> QED
  BY <1>0, <1>2, <1>3, <1>4, <1>5, <1>6, <1>7, <1>8 DEF BackupInv, BackupBase

\* delete_backup of a request removes the manifest.
LEMMA RemoveManifestStep ==
  ASSUME BackupInv, NEW j \in Jobs, RemoveManifest(j), job[j].b \in Manifests, job[j].own = 0
  PROVE  BackupInv'
<1>1. /\ UNCHANGED <<day, reached, used, dumps, madeOn, locked, attempts, stops, finished,
                     asked, disturbed>>
      /\ job' \in [Jobs -> JobRows]
      /\ job'[j].pc = "rest" /\ job'[j].own = 0 /\ job'[j].b = 0
      /\ job'[j].todo = {} /\ job'[j].slot = 0
      /\ \A i \in Jobs : i # j => job'[i] = job[i]
      /\ job[j].pc = "rmmanifest" /\ job[j].b \in Backups /\ Manifests' = Manifests \ {job[j].b}
      /\ manifest' \in [Backups -> {"none", "torn", "untested", "tested"}]
  <2>1. job \in [Jobs -> JobRows] /\ job[j] \in JobRows
    BY BackupTypes DEF BackupInv
  <2>2. job[j].pc = "rmmanifest" /\ manifest' = [manifest EXCEPT ![job[j].b] = "none"]
    BY DEF RemoveManifest
  <2>3. job[j].b \in Backups
    BY <2>2, BackupTypes DEF BackupInv, BackupBase, RunsOK, RunOK
  <2>4. /\ manifest \in [Backups -> {"none", "torn", "untested", "tested"}]
        /\ manifest' \in [Backups -> {"none", "torn", "untested", "tested"}]
    BY <2>2, <2>3 DEF BackupInv, BackupBase, BackupTypeOK
  <2>5. Manifests' = Manifests \ {job[j].b}
    BY <2>2, <2>3, <2>4 DEF Manifests
  <2>6. job' \in [Jobs -> JobRows] /\ (job'[j].pc = "rest" /\ job'[j].own = 0 /\ job'[j].b = 0
      /\ job'[j].todo = {} /\ job'[j].slot = 0) /\ (\A i \in Jobs : i # j => job'[i] = job[i])
    BY <2>1, <2>2, IdleRow DEF RemoveManifest, Return
  <2> QED
    BY <2>2, <2>3, <2>4, <2>5, <2>6 DEF RemoveManifest
<1>0. BackupBase /\ Numbered /\ RunsOK /\ TriesLeft /\ RunOK(j)
  BY <1>1 DEF BackupInv, BackupBase, RunsOK
<1>2. BackupTypeOK'
  BY <1>0, <1>1, BackupTypes, BackupAssumption DEF BackupTypeOK, JobRows, BackupBase
<1>3. Numbered'
  BY <1>0, <1>1, BackupTypes DEF Numbered
<1>4. RunsOK'
  <2> SUFFICES ASSUME NEW i \in Jobs PROVE RunOK(i)'
    BY DEF RunsOK
  <2>1. RunOK(i)
    BY <1>0 DEF RunsOK
  <2>2. CASE i = j
    BY <1>0, <1>1, <2>1, <2>2, BackupTypes DEF RunOK
  <2>3. CASE i # j
    BY <1>0, <1>1, <2>1, <2>3, BackupTypes DEF RunOK
  <2> QED
    BY <2>2, <2>3
<1>5. TriesLeft'
  BY <1>0, <1>1, BackupTypes DEF TriesLeft, RunOK
<1>6. ~disturbed' => HandsOK'
  <2> SUFFICES ASSUME ~disturbed', NEW i \in Jobs PROVE HandOK(i)'
    BY DEF HandsOK
  <2>1. /\ ~disturbed /\ HandsOK /\ ListedHasDump /\ HandOK(i) /\ HandOK(j)
    BY <1>1 DEF BackupInv, HandsOK
  <2>2. /\ Hand(j)' = {}
        /\ \A k \in Jobs : k # j => Hand(k)' = Hand(k)
    BY <1>0, <1>1 DEF Hand, RunOK
  <2>3. Manifests' = Manifests \ {job[j].b}
    BY <1>0, <1>1 DEF Manifests
  <2>0. i # j => job[j].b \notin Hand(i)
    BY <1>1, <2>1 DEF HandOK, Hand
  <2>4. CASE i = j
    BY <1>0, <1>1, <2>0, <2>1, <2>2, <2>3, <2>4, BackupTypes
      DEF HandsOK, HandOK, Removes, RunOK
  <2>5. CASE i # j
    BY <1>0, <1>1, <2>0, <2>1, <2>2, <2>3, <2>5, BackupTypes
      DEF HandsOK, HandOK, Removes, RunOK
  <2> QED
    BY <2>4, <2>5
<1>7. ~disturbed' => ListedHasDump'
  <2> SUFFICES ASSUME ~disturbed' PROVE ListedHasDump'
    OBVIOUS
  <2>1. ~disturbed /\ ListedHasDump
    BY <1>1 DEF BackupInv
  <2>2. \A b \in Backups : b # job[j].b /\ Deleting(b) => Deleting(b)'
    BY <1>0, <1>1 DEF Deleting
  <2> QED
    BY <1>0, <1>1, <2>1, <2>2, BackupTypes DEF ListedHasDump
<1>8. ~disturbed' => (AskedCounted /\ SafeCounted /\ KeptFew)'
  <2> SUFFICES ASSUME ~disturbed' PROVE (AskedCounted /\ SafeCounted /\ KeptFew)'
    OBVIOUS
  <2>1. ~disturbed /\ HandsOK /\ HandOK(j)
    BY <1>1 DEF BackupInv, HandsOK
  <2>2. \A i \in Jobs : i # j => job[j].b \notin Hand(i)
    BY <1>1, <2>1 DEF HandOK, Hand
  <2>3. job[j].b \notin dumps /\ job[j].b \notin job[j].todo
    BY <1>1, <2>1 DEF HandOK, Removes
  <2>4. Going' = Going
    BY <1>0, <1>1, <2>2, <2>3, BackupTypes DEF Going, Hand, Removes, RunOK
  <2>5. OnRequest' \subseteq OnRequest
    BY <1>0, <1>1 DEF OnRequest, Removes, RunOK
  <2>6. Safe \subseteq Safe' /\ Safe' \subseteq Backups
    BY <1>0, <1>1, <2>3, <2>4, <2>5, BackupTypes DEF Safe
  <2>7. (Manifests \ Going)' \subseteq Manifests \ Going
    BY <1>1, <2>4
  <2>8. \A i \in Jobs : (Stored(i)' => Stored(i)) /\ (Unpruned(i) => Unpruned(i)')
    BY <1>0, <1>1 DEF Stored, Unpruned, RunOK
  <2> QED
    BY <1>1, <2>1, <2>5, <2>6, <2>7, <2>8, CountsKept
<1> QED
  BY <1>0, <1>2, <1>3, <1>4, <1>5, <1>6, <1>7, <1>8 DEF BackupInv, BackupBase

\* The retention removes the manifest.
LEMMA RemoveManifestRunStep ==
  ASSUME BackupInv, NEW j \in Jobs, RemoveManifest(j), job[j].b \in Manifests, job[j].own # 0
  PROVE  BackupInv'
<1>1. /\ UNCHANGED <<day, reached, used, dumps, madeOn, locked, attempts, stops, finished,
                     asked, disturbed>>
      /\ job' \in [Jobs -> JobRows]
      /\ job'[j].pc = "prune" /\ job'[j].own = job[j].own /\ job'[j].b = job[j].b
      /\ job'[j].todo = job[j].todo /\ job'[j].slot = job[j].slot
      /\ \A i \in Jobs : i # j => job'[i] = job[i]
      /\ job[j].pc = "rmmanifest" /\ job[j].b \in Backups /\ Manifests' = Manifests \ {job[j].b}
      /\ manifest' \in [Backups -> {"none", "torn", "untested", "tested"}]
  <2>1. job \in [Jobs -> JobRows] /\ job[j] \in JobRows
    BY BackupTypes DEF BackupInv
  <2>2. job[j].pc = "rmmanifest" /\ manifest' = [manifest EXCEPT ![job[j].b] = "none"]
    BY DEF RemoveManifest
  <2>3. job[j].b \in Backups
    BY <2>2, BackupTypes DEF BackupInv, BackupBase, RunsOK, RunOK
  <2>4. /\ manifest \in [Backups -> {"none", "torn", "untested", "tested"}]
        /\ manifest' \in [Backups -> {"none", "torn", "untested", "tested"}]
    BY <2>2, <2>3 DEF BackupInv, BackupBase, BackupTypeOK
  <2>5. Manifests' = Manifests \ {job[j].b}
    BY <2>2, <2>3, <2>4 DEF Manifests
  <2>6. job' \in [Jobs -> JobRows]
        /\ (job'[j].pc = "prune" /\ job'[j].own = job[j].own /\ job'[j].b = job[j].b
      /\ job'[j].todo = job[j].todo /\ job'[j].slot = job[j].slot)
      /\ (\A i \in Jobs : i # j => job'[i] = job[i])
    BY <2>1, <2>2, IdleRow DEF RemoveManifest, Return, JobRows, JobPcs
  <2> QED
    BY <2>2, <2>3, <2>4, <2>5, <2>6 DEF RemoveManifest
<1>0. BackupBase /\ Numbered /\ RunsOK /\ TriesLeft /\ RunOK(j)
  BY <1>1 DEF BackupInv, BackupBase, RunsOK
<1>2. BackupTypeOK'
  BY <1>0, <1>1, BackupTypes, BackupAssumption DEF BackupTypeOK, JobRows, BackupBase
<1>3. Numbered'
  BY <1>0, <1>1, BackupTypes DEF Numbered
<1>4. RunsOK'
  <2> SUFFICES ASSUME NEW i \in Jobs PROVE RunOK(i)'
    BY DEF RunsOK
  <2>1. RunOK(i)
    BY <1>0 DEF RunsOK
  <2>2. CASE i = j
    BY <1>0, <1>1, <2>1, <2>2, BackupTypes DEF RunOK
  <2>3. CASE i # j
    BY <1>0, <1>1, <2>1, <2>3, BackupTypes DEF RunOK
  <2> QED
    BY <2>2, <2>3
<1>5. TriesLeft'
  BY <1>0, <1>1, BackupTypes DEF TriesLeft, RunOK
<1>6. ~disturbed' => HandsOK'
  <2> SUFFICES ASSUME ~disturbed', NEW i \in Jobs PROVE HandOK(i)'
    BY DEF HandsOK
  <2>1. /\ ~disturbed /\ HandsOK /\ ListedHasDump /\ HandOK(i) /\ HandOK(j)
    BY <1>1 DEF BackupInv, HandsOK
  <2>2. /\ Hand(j)' = job[j].todo /\ Hand(j) = job[j].todo \union {job[j].b}
        /\ \A k \in Jobs : k # j => Hand(k)' = Hand(k)
    BY <1>0, <1>1 DEF Hand, RunOK
  <2>3. Manifests' = Manifests \ {job[j].b}
    BY <1>0, <1>1 DEF Manifests
  <2>0. i # j => job[j].b \notin Hand(i)
    BY <1>1, <2>1 DEF HandOK, Hand
  <2>4. CASE i = j
    BY <1>0, <1>1, <2>0, <2>1, <2>2, <2>3, <2>4, BackupTypes
      DEF HandsOK, HandOK, Removes, RunOK
  <2>5. CASE i # j
    BY <1>0, <1>1, <2>0, <2>1, <2>2, <2>3, <2>5, BackupTypes
      DEF HandsOK, HandOK, Removes, RunOK
  <2> QED
    BY <2>4, <2>5
<1>7. ~disturbed' => ListedHasDump'
  <2> SUFFICES ASSUME ~disturbed' PROVE ListedHasDump'
    OBVIOUS
  <2>1. ~disturbed /\ ListedHasDump
    BY <1>1 DEF BackupInv
  <2>2. \A b \in Backups : b # job[j].b /\ Deleting(b) => Deleting(b)'
    BY <1>0, <1>1 DEF Deleting
  <2> QED
    BY <1>0, <1>1, <2>1, <2>2, BackupTypes DEF ListedHasDump
<1>8. ~disturbed' => (AskedCounted /\ SafeCounted /\ KeptFew)'
  <2> SUFFICES ASSUME ~disturbed' PROVE (AskedCounted /\ SafeCounted /\ KeptFew)'
    OBVIOUS
  <2>1. ~disturbed /\ HandsOK /\ HandOK(j)
    BY <1>1 DEF BackupInv, HandsOK
  <2>2. \A i \in Jobs : i # j => job[j].b \notin Hand(i)
    BY <1>1, <2>1 DEF HandOK, Hand
  <2>3. job[j].b \notin dumps /\ job[j].b \notin job[j].todo
    BY <1>1, <2>1 DEF HandOK, Removes
  <2>4. Going' = Going \ {job[j].b}
    BY <1>0, <1>1, <2>2, <2>3, BackupTypes DEF Going, Hand, Removes, RunOK
  <2>5. OnRequest' \subseteq OnRequest
    BY <1>0, <1>1 DEF OnRequest, Removes, RunOK
  <2>6. Safe \subseteq Safe' /\ Safe' \subseteq Backups
    BY <1>0, <1>1, <2>3, <2>4, <2>5, BackupTypes DEF Safe
  <2>7. (Manifests \ Going)' \subseteq Manifests \ Going
    BY <1>1, <2>4
  <2>8. \A i \in Jobs : (Stored(i)' => Stored(i)) /\ (Unpruned(i) => Unpruned(i)')
    BY <1>0, <1>1 DEF Stored, Unpruned, RunOK
  <2> QED
    BY <1>1, <2>1, <2>5, <2>6, <2>7, <2>8, CountsKept
<1> QED
  BY <1>0, <1>2, <1>3, <1>4, <1>5, <1>6, <1>7, <1>8 DEF BackupInv, BackupBase

\* delete_backup of a request finds no manifest.
LEMMA ManifestGoneStep ==
  ASSUME BackupInv, NEW j \in Jobs, RemoveManifest(j), job[j].b \notin Manifests, job[j].own = 0
  PROVE  BackupInv'
<1>1. /\ UNCHANGED <<day, reached, used, dumps, madeOn, locked, attempts, stops, finished,
                     asked, disturbed>>
      /\ job' \in [Jobs -> JobRows]
      /\ job'[j].pc = "rest" /\ job'[j].own = 0 /\ job'[j].b = 0
      /\ job'[j].todo = {} /\ job'[j].slot = 0
      /\ \A i \in Jobs : i # j => job'[i] = job[i]
      /\ job[j].pc = "rmmanifest" /\ job[j].b \in Backups /\ Manifests' = Manifests \ {job[j].b}
      /\ manifest' \in [Backups -> {"none", "torn", "untested", "tested"}]
  <2>1. job \in [Jobs -> JobRows] /\ job[j] \in JobRows
    BY BackupTypes DEF BackupInv
  <2>2. job[j].pc = "rmmanifest" /\ manifest' = [manifest EXCEPT ![job[j].b] = "none"]
    BY DEF RemoveManifest
  <2>3. job[j].b \in Backups
    BY <2>2, BackupTypes DEF BackupInv, BackupBase, RunsOK, RunOK
  <2>4. /\ manifest \in [Backups -> {"none", "torn", "untested", "tested"}]
        /\ manifest' \in [Backups -> {"none", "torn", "untested", "tested"}]
    BY <2>2, <2>3 DEF BackupInv, BackupBase, BackupTypeOK
  <2>5. Manifests' = Manifests \ {job[j].b}
    BY <2>2, <2>3, <2>4 DEF Manifests
  <2>6. job' \in [Jobs -> JobRows] /\ (job'[j].pc = "rest" /\ job'[j].own = 0 /\ job'[j].b = 0
      /\ job'[j].todo = {} /\ job'[j].slot = 0) /\ (\A i \in Jobs : i # j => job'[i] = job[i])
    BY <2>1, <2>2, IdleRow DEF RemoveManifest, Return
  <2> QED
    BY <2>2, <2>3, <2>4, <2>5, <2>6 DEF RemoveManifest
<1>0. BackupBase /\ Numbered /\ RunsOK /\ TriesLeft /\ RunOK(j)
  BY <1>1 DEF BackupInv, BackupBase, RunsOK
<1>2. BackupTypeOK'
  BY <1>0, <1>1, BackupTypes, BackupAssumption DEF BackupTypeOK, JobRows, BackupBase
<1>3. Numbered'
  BY <1>0, <1>1, BackupTypes DEF Numbered
<1>4. RunsOK'
  <2> SUFFICES ASSUME NEW i \in Jobs PROVE RunOK(i)'
    BY DEF RunsOK
  <2>1. RunOK(i)
    BY <1>0 DEF RunsOK
  <2>2. CASE i = j
    BY <1>0, <1>1, <2>1, <2>2, BackupTypes DEF RunOK
  <2>3. CASE i # j
    BY <1>0, <1>1, <2>1, <2>3, BackupTypes DEF RunOK
  <2> QED
    BY <2>2, <2>3
<1>5. TriesLeft'
  BY <1>0, <1>1, BackupTypes DEF TriesLeft, RunOK
<1>6. ~disturbed' => HandsOK'
  <2>1. disturbed'
    BY <1>0, <1>1 DEF BackupInv, HandsOK, HandOK, Hand
  <2> QED
    BY <2>1
<1>7. ~disturbed' => ListedHasDump'
  <2>1. disturbed'
    BY <1>0, <1>1 DEF BackupInv, HandsOK, HandOK, Hand
  <2> QED
    BY <2>1
<1>8. ~disturbed' => (AskedCounted /\ SafeCounted /\ KeptFew)'
  <2>1. disturbed'
    BY <1>0, <1>1 DEF BackupInv, HandsOK, HandOK, Hand
  <2> QED
    BY <2>1
<1> QED
  BY <1>0, <1>2, <1>3, <1>4, <1>5, <1>6, <1>7, <1>8 DEF BackupInv, BackupBase

\* The retention finds no manifest.
LEMMA ManifestGoneRunStep ==
  ASSUME BackupInv, NEW j \in Jobs, RemoveManifest(j), job[j].b \notin Manifests, job[j].own # 0
  PROVE  BackupInv'
<1>1. /\ UNCHANGED <<day, reached, used, dumps, madeOn, locked, attempts, stops, finished,
                     asked, disturbed>>
      /\ job' \in [Jobs -> JobRows]
      /\ job'[j].pc = "undo" /\ job'[j].own = job[j].own /\ job'[j].b = job[j].b
      /\ job'[j].todo = job[j].todo /\ job'[j].slot = job[j].slot
      /\ \A i \in Jobs : i # j => job'[i] = job[i]
      /\ job[j].pc = "rmmanifest" /\ job[j].b \in Backups /\ Manifests' = Manifests \ {job[j].b}
      /\ manifest' \in [Backups -> {"none", "torn", "untested", "tested"}]
  <2>1. job \in [Jobs -> JobRows] /\ job[j] \in JobRows
    BY BackupTypes DEF BackupInv
  <2>2. job[j].pc = "rmmanifest" /\ manifest' = [manifest EXCEPT ![job[j].b] = "none"]
    BY DEF RemoveManifest
  <2>3. job[j].b \in Backups
    BY <2>2, BackupTypes DEF BackupInv, BackupBase, RunsOK, RunOK
  <2>4. /\ manifest \in [Backups -> {"none", "torn", "untested", "tested"}]
        /\ manifest' \in [Backups -> {"none", "torn", "untested", "tested"}]
    BY <2>2, <2>3 DEF BackupInv, BackupBase, BackupTypeOK
  <2>5. Manifests' = Manifests \ {job[j].b}
    BY <2>2, <2>3, <2>4 DEF Manifests
  <2>6. job' \in [Jobs -> JobRows]
        /\ (job'[j].pc = "undo" /\ job'[j].own = job[j].own /\ job'[j].b = job[j].b
      /\ job'[j].todo = job[j].todo /\ job'[j].slot = job[j].slot)
      /\ (\A i \in Jobs : i # j => job'[i] = job[i])
    BY <2>1, <2>2, IdleRow DEF RemoveManifest, Return, JobRows, JobPcs
  <2> QED
    BY <2>2, <2>3, <2>4, <2>5, <2>6 DEF RemoveManifest
<1>0. BackupBase /\ Numbered /\ RunsOK /\ TriesLeft /\ RunOK(j)
  BY <1>1 DEF BackupInv, BackupBase, RunsOK
<1>2. BackupTypeOK'
  BY <1>0, <1>1, BackupTypes, BackupAssumption DEF BackupTypeOK, JobRows, BackupBase
<1>3. Numbered'
  BY <1>0, <1>1, BackupTypes DEF Numbered
<1>4. RunsOK'
  <2> SUFFICES ASSUME NEW i \in Jobs PROVE RunOK(i)'
    BY DEF RunsOK
  <2>1. RunOK(i)
    BY <1>0 DEF RunsOK
  <2>2. CASE i = j
    BY <1>0, <1>1, <2>1, <2>2, BackupTypes DEF RunOK
  <2>3. CASE i # j
    BY <1>0, <1>1, <2>1, <2>3, BackupTypes DEF RunOK
  <2> QED
    BY <2>2, <2>3
<1>5. TriesLeft'
  BY <1>0, <1>1, BackupTypes DEF TriesLeft, RunOK
<1>6. ~disturbed' => HandsOK'
  <2>1. disturbed'
    BY <1>0, <1>1 DEF BackupInv, HandsOK, HandOK, Hand
  <2> QED
    BY <2>1
<1>7. ~disturbed' => ListedHasDump'
  <2>1. disturbed'
    BY <1>0, <1>1 DEF BackupInv, HandsOK, HandOK, Hand
  <2> QED
    BY <2>1
<1>8. ~disturbed' => (AskedCounted /\ SafeCounted /\ KeptFew)'
  <2>1. disturbed'
    BY <1>0, <1>1 DEF BackupInv, HandsOK, HandOK, Hand
  <2> QED
    BY <2>1
<1> QED
  BY <1>0, <1>2, <1>3, <1>4, <1>5, <1>6, <1>7, <1>8 DEF BackupInv, BackupBase

\* A deletion of a request has failed.
LEMMA FailsStep ==
  ASSUME BackupInv, NEW j \in Jobs, Fails(j), job[j].own = 0
  PROVE  BackupInv'
<1>1. /\ UNCHANGED <<day, reached, used, manifest, dumps, madeOn, locked, attempts, stops,
                     finished, asked>>
      /\ job' \in [Jobs -> JobRows]
      /\ job'[j].pc = "rest" /\ job'[j].own = 0 /\ job'[j].b = 0
      /\ job'[j].todo = {} /\ job'[j].slot = 0
      /\ \A i \in Jobs : i # j => job'[i] = job[i]
      /\ disturbed' \in BOOLEAN /\ (disturbed => disturbed')
      /\ (~disturbed' => job[j].pc = "rmdump")
  <2>1. job \in [Jobs -> JobRows] /\ job[j] \in JobRows
    BY BackupTypes DEF BackupInv
  <2>2. disturbed \in BOOLEAN
    BY DEF BackupInv, BackupBase, BackupTypeOK
  <2>3. RunOK(j)
    BY DEF BackupInv, BackupBase, RunsOK
  <2> QED
    BY <2>1, <2>2, <2>3, IdleRow DEF Fails, CutOff, RunOK, Return
<1>0. BackupBase /\ Numbered /\ RunsOK /\ TriesLeft /\ RunOK(j)
  BY <1>1 DEF BackupInv, BackupBase, RunsOK
<1>2. BackupTypeOK'
  BY <1>0, <1>1, BackupTypes, BackupAssumption DEF BackupTypeOK, JobRows, BackupBase
<1>3. Numbered'
  BY <1>0, <1>1, BackupTypes DEF Numbered, Manifests
<1>4. RunsOK'
  <2> SUFFICES ASSUME NEW i \in Jobs PROVE RunOK(i)'
    BY DEF RunsOK
  <2>1. RunOK(i)
    BY <1>0 DEF RunsOK
  <2>2. CASE i = j
    BY <1>0, <1>1, <2>1, <2>2, BackupTypes DEF RunOK
  <2>3. CASE i # j
    BY <1>0, <1>1, <2>1, <2>3, BackupTypes DEF RunOK
  <2> QED
    BY <2>2, <2>3
<1>5. TriesLeft'
  BY <1>0, <1>1, BackupTypes DEF TriesLeft, RunOK
<1>6. ~disturbed' => HandsOK'
  <2> SUFFICES ASSUME ~disturbed', NEW i \in Jobs PROVE HandOK(i)'
    BY DEF HandsOK
  <2>1. /\ ~disturbed /\ HandsOK /\ ListedHasDump /\ HandOK(i) /\ HandOK(j)
    BY <1>1 DEF BackupInv, HandsOK
  <2>2. /\ Hand(j)' = {}
        /\ \A k \in Jobs : k # j => Hand(k)' = Hand(k)
    BY <1>0, <1>1 DEF Hand, RunOK
  <2>3. Manifests' = Manifests
    BY <1>0, <1>1 DEF Manifests
  <2>0. Hand(i) \subseteq Manifests
    BY <1>0, <1>1, <2>1, <2>2, BackupTypes DEF Meets, Hand, HandsOK, HandOK, RunOK
  <2>4. CASE i = j
    BY <1>0, <1>1, <2>0, <2>1, <2>2, <2>3, <2>4, BackupTypes
      DEF HandsOK, HandOK, Removes, RunOK
  <2>5. CASE i # j
    BY <1>0, <1>1, <2>0, <2>1, <2>2, <2>3, <2>5, BackupTypes
      DEF HandsOK, HandOK, Removes, RunOK
  <2> QED
    BY <2>4, <2>5
<1>7. ~disturbed' => ListedHasDump'
  <2> SUFFICES ASSUME ~disturbed' PROVE ListedHasDump'
    OBVIOUS
  <2>1. ~disturbed /\ ListedHasDump /\ HandsOK
    BY <1>1 DEF BackupInv
  <2>2. Manifests' = Manifests
    BY <1>0, <1>1 DEF Manifests
  <2>3. \A b \in Backups : Deleting(b) => Deleting(b)'
    BY <1>0, <1>1 DEF Deleting, RunOK
  <2> QED
    BY <1>0, <1>1, <2>1, <2>2, <2>3, BackupTypes DEF ListedHasDump
<1>8. ~disturbed' => (AskedCounted /\ SafeCounted /\ KeptFew)'
  <2> SUFFICES ASSUME ~disturbed' PROVE (AskedCounted /\ SafeCounted /\ KeptFew)'
    OBVIOUS
  <2>1. ~disturbed /\ HandsOK /\ HandOK(j)
    BY <1>1 DEF BackupInv, HandsOK
  <2>2. Manifests' = Manifests
    BY <1>0, <1>1, <2>1 DEF Manifests, HandOK
  <2>3. Going' = Going
    BY <1>0, <1>1, <2>1 DEF Going, Removes, RunOK, HandOK
  <2>4. OnRequest' \subseteq OnRequest
    BY <1>0, <1>1, <2>1 DEF OnRequest, Removes, RunOK, HandOK
  <2>5. Safe \subseteq Safe' /\ Safe' \subseteq Backups
    BY <1>0, <1>1, <2>1, <2>2, <2>3, <2>4, BackupTypes DEF Safe, HandOK
  <2>6. \A i \in Jobs : (Stored(i)' => Stored(i)) /\ (Unpruned(i) => Unpruned(i)')
    BY <1>0, <1>1, <2>1 DEF Stored, Unpruned, RunOK, HandOK
  <2> QED
    BY <1>1, <2>1, <2>2, <2>3, <2>4, <2>5, <2>6, CountsKept
<1> QED
  BY <1>0, <1>2, <1>3, <1>4, <1>5, <1>6, <1>7, <1>8 DEF BackupInv, BackupBase

\* A run has failed.
LEMMA FailsRunStep ==
  ASSUME BackupInv, NEW j \in Jobs, Fails(j), job[j].own # 0
  PROVE  BackupInv'
<1>1. /\ UNCHANGED <<day, reached, used, manifest, dumps, madeOn, locked, attempts, stops,
                     finished, asked>>
      /\ job' \in [Jobs -> JobRows]
      /\ job'[j].pc = "undo" /\ job'[j].own = job[j].own /\ job'[j].b = job[j].b
      /\ job'[j].todo = job[j].todo /\ job'[j].slot = job[j].slot
      /\ \A i \in Jobs : i # j => job'[i] = job[i]
      /\ disturbed' \in BOOLEAN /\ (disturbed => disturbed')
      /\ (~disturbed' => job[j].pc \in {"dump", "manifest"})
  <2>1. job \in [Jobs -> JobRows] /\ job[j] \in JobRows
    BY BackupTypes DEF BackupInv
  <2>2. disturbed \in BOOLEAN
    BY DEF BackupInv, BackupBase, BackupTypeOK
  <2>3. RunOK(j)
    BY DEF BackupInv, BackupBase, RunsOK
  <2> QED
    BY <2>1, <2>2, <2>3, IdleRow DEF Fails, CutOff, RunOK, Return, JobRows, JobPcs
<1>0. BackupBase /\ Numbered /\ RunsOK /\ TriesLeft /\ RunOK(j)
  BY <1>1 DEF BackupInv, BackupBase, RunsOK
<1>2. BackupTypeOK'
  BY <1>0, <1>1, BackupTypes, BackupAssumption DEF BackupTypeOK, JobRows, BackupBase
<1>3. Numbered'
  BY <1>0, <1>1, BackupTypes DEF Numbered, Manifests
<1>4. RunsOK'
  <2> SUFFICES ASSUME NEW i \in Jobs PROVE RunOK(i)'
    BY DEF RunsOK
  <2>1. RunOK(i)
    BY <1>0 DEF RunsOK
  <2>2. CASE i = j
    BY <1>0, <1>1, <2>1, <2>2, BackupTypes DEF RunOK
  <2>3. CASE i # j
    BY <1>0, <1>1, <2>1, <2>3, BackupTypes DEF RunOK
  <2> QED
    BY <2>2, <2>3
<1>5. TriesLeft'
  BY <1>0, <1>1, BackupTypes DEF TriesLeft, RunOK
<1>6. ~disturbed' => HandsOK'
  <2> SUFFICES ASSUME ~disturbed', NEW i \in Jobs PROVE HandOK(i)'
    BY DEF HandsOK
  <2>1. /\ ~disturbed /\ HandsOK /\ ListedHasDump /\ HandOK(i) /\ HandOK(j)
    BY <1>1 DEF BackupInv, HandsOK
  <2>2. /\ Hand(j)' = Hand(j)
        /\ \A k \in Jobs : k # j => Hand(k)' = Hand(k)
    BY <1>0, <1>1 DEF Hand, RunOK
  <2>3. Manifests' = Manifests
    BY <1>0, <1>1 DEF Manifests
  <2>0. Hand(i) \subseteq Manifests
    BY <1>0, <1>1, <2>1, <2>2, BackupTypes DEF Meets, Hand, HandsOK, HandOK, RunOK
  <2>4. CASE i = j
    BY <1>0, <1>1, <2>0, <2>1, <2>2, <2>3, <2>4, BackupTypes
      DEF HandsOK, HandOK, Removes, RunOK
  <2>5. CASE i # j
    BY <1>0, <1>1, <2>0, <2>1, <2>2, <2>3, <2>5, BackupTypes
      DEF HandsOK, HandOK, Removes, RunOK
  <2> QED
    BY <2>4, <2>5
<1>7. ~disturbed' => ListedHasDump'
  <2> SUFFICES ASSUME ~disturbed' PROVE ListedHasDump'
    OBVIOUS
  <2>1. ~disturbed /\ ListedHasDump /\ HandsOK
    BY <1>1 DEF BackupInv
  <2>2. Manifests' = Manifests
    BY <1>0, <1>1 DEF Manifests
  <2>3. \A b \in Backups : Deleting(b) => Deleting(b)'
    BY <1>0, <1>1 DEF Deleting, RunOK
  <2> QED
    BY <1>0, <1>1, <2>1, <2>2, <2>3, BackupTypes DEF ListedHasDump
<1>8. ~disturbed' => (AskedCounted /\ SafeCounted /\ KeptFew)'
  <2> SUFFICES ASSUME ~disturbed' PROVE (AskedCounted /\ SafeCounted /\ KeptFew)'
    OBVIOUS
  <2>1. ~disturbed /\ HandsOK /\ HandOK(j)
    BY <1>1 DEF BackupInv, HandsOK
  <2>2. Manifests' = Manifests
    BY <1>0, <1>1, <2>1 DEF Manifests, HandOK
  <2>3. Going' = Going
    BY <1>0, <1>1, <2>1 DEF Going, Removes, RunOK, HandOK
  <2>4. OnRequest' = OnRequest
    BY <1>0, <1>1, <2>1 DEF OnRequest, Removes, RunOK, HandOK
  <2>5. Safe \subseteq Safe' /\ Safe' \subseteq Backups
    BY <1>0, <1>1, <2>1, <2>2, <2>3, <2>4, BackupTypes DEF Safe, HandOK
  <2>6. \A i \in Jobs : (Stored(i)' => Stored(i)) /\ (Unpruned(i) => Unpruned(i)')
    BY <1>0, <1>1, <2>1 DEF Stored, Unpruned, RunOK, HandOK
  <2> QED
    BY <1>1, <2>1, <2>2, <2>3, <2>4, <2>5, <2>6, CountsKept
<1> QED
  BY <1>0, <1>2, <1>3, <1>4, <1>5, <1>6, <1>7, <1>8 DEF BackupInv, BackupBase

\* A request begins to delete a backup.
LEMMA DeleteStep ==
  ASSUME BackupInv, NEW j \in Jobs, NEW c \in Backups, StartDelete(j, c)
  PROVE  BackupInv'
<1>1. /\ UNCHANGED <<day, reached, used, manifest, dumps, madeOn, locked, attempts, stops,
                     finished>>
      /\ job' \in [Jobs -> JobRows]
      /\ job'[j].pc = "rmdump" /\ job'[j].own = 0 /\ job'[j].b = c
      /\ job'[j].todo = {} /\ job'[j].slot = 0
      /\ \A i \in Jobs : i # j => job'[i] = job[i]
      /\ job[j].pc = "rest" /\ j # Scheduler /\ c \in Manifests /\ asked < MaxDeletes
      /\ asked' = asked + 1
      /\ disturbed' = (disturbed \/ Meets(j, {c})) /\ disturbed \in BOOLEAN
  <2>1. job \in [Jobs -> JobRows] /\ c \in 0..MaxBackups
    BY BackupTypes DEF BackupInv
  <2>2. [Idle EXCEPT !.pc = "rmdump", !.b = c] \in JobRows
    BY <2>1, IdleRow DEF JobRows, JobPcs
  <2>3. disturbed \in BOOLEAN
    BY DEF BackupInv, BackupBase, BackupTypeOK
  <2> QED
    BY <2>1, <2>2, <2>3 DEF StartDelete, Idle, Listed
<1>0. BackupBase /\ Numbered /\ RunsOK /\ TriesLeft /\ RunOK(j)
  BY <1>1 DEF BackupInv, BackupBase, RunsOK
<1>2. BackupTypeOK'
  BY <1>0, <1>1, BackupTypes, BackupAssumption DEF BackupTypeOK, JobRows, BackupBase
<1>3. Numbered'
  BY <1>0, <1>1, BackupTypes DEF Numbered, Manifests, Numbered
<1>4. RunsOK'
  <2> SUFFICES ASSUME NEW i \in Jobs PROVE RunOK(i)'
    BY DEF RunsOK
  <2>1. RunOK(i)
    BY <1>0 DEF RunsOK
  <2>2. CASE i = j
    BY <1>0, <1>1, <2>1, <2>2, BackupTypes DEF RunOK
  <2>3. CASE i # j
    BY <1>0, <1>1, <2>1, <2>3, BackupTypes DEF RunOK
  <2> QED
    BY <2>2, <2>3
<1>5. TriesLeft'
  BY <1>0, <1>1, BackupTypes DEF TriesLeft, RunOK
<1>6. ~disturbed' => HandsOK'
  <2> SUFFICES ASSUME ~disturbed', NEW i \in Jobs PROVE HandOK(i)'
    BY DEF HandsOK
  <2>1. /\ ~disturbed /\ HandsOK /\ ListedHasDump /\ HandOK(i) /\ HandOK(j)
    BY <1>1 DEF BackupInv, HandsOK
  <2>2. /\ Hand(j)' = {c}
        /\ \A k \in Jobs : k # j => Hand(k)' = Hand(k)
    BY <1>0, <1>1 DEF Hand, RunOK
  <2>3. Manifests' = Manifests
    BY <1>0, <1>1 DEF Manifests
  <2>0. (\A k \in Jobs : k # j => c \notin Hand(k)) /\ c \in dumps
    <3>1. \A k \in Jobs : k # j => c \notin Hand(k)
      BY <1>1, <2>1 DEF Meets
    <3>2. ~Deleting(c)
      BY <1>1, <3>1 DEF Deleting, Hand
    <3> QED
      BY <1>1, <2>1, <3>1, <3>2 DEF ListedHasDump
  <2>4. CASE i = j
    BY <1>0, <1>1, <2>0, <2>1, <2>2, <2>3, <2>4, BackupTypes
      DEF HandsOK, HandOK, Removes, RunOK
  <2>5. CASE i # j
    BY <1>0, <1>1, <2>0, <2>1, <2>2, <2>3, <2>5, BackupTypes
      DEF HandsOK, HandOK, Removes, RunOK
  <2> QED
    BY <2>4, <2>5
<1>7. ~disturbed' => ListedHasDump'
  <2> SUFFICES ASSUME ~disturbed' PROVE ListedHasDump'
    OBVIOUS
  <2>1. ~disturbed /\ ListedHasDump /\ HandsOK
    BY <1>1 DEF BackupInv
  <2>2. Manifests' = Manifests
    BY <1>0, <1>1 DEF Manifests
  <2>3. \A b \in Backups : Deleting(b) => Deleting(b)'
    BY <1>0, <1>1 DEF Deleting, RunOK
  <2> QED
    BY <1>0, <1>1, <2>1, <2>2, <2>3, BackupTypes DEF ListedHasDump
<1>8. ~disturbed' => (AskedCounted /\ SafeCounted /\ KeptFew)'
  <2> SUFFICES ASSUME ~disturbed' PROVE (AskedCounted /\ SafeCounted /\ KeptFew)'
    OBVIOUS
  <2>1. ~disturbed /\ SafeCounted /\ AskedCounted /\ KeptFew
    BY <1>1 DEF BackupInv
  <2>2. \A k \in Jobs : k # j => c \notin Hand(k)
    BY <1>1, <2>1 DEF Meets
  <2>3. Manifests' = Manifests /\ Going' = Going /\ OnRequest' = OnRequest \union {c}
    BY <1>0, <1>1, BackupTypes DEF Manifests, Going, OnRequest, Removes, RunOK
  <2>4. c \notin OnRequest
    BY <1>0, <1>1, <2>2 DEF OnRequest, Removes, Hand
  <2>5. Safe' = Safe \ {c} /\ Safe \subseteq Backups
    BY <1>0, <1>1, <2>3, BackupTypes DEF Safe
  <2>6. /\ asked \in Nat /\ finished \in Nat /\ Keep \in Nat /\ asked' = asked + 1
        /\ finished' = finished
    BY <1>0, <1>1, BackupTypes, BackupAssumption
  <2>7. OnRequest \subseteq Backups
    BY DEF OnRequest
  <2>8. Cardinality(OnRequest') = Cardinality(OnRequest) + 1 /\ Cardinality(OnRequest) \in Nat
    BY <2>3, <2>4, <2>7, BackupSets, FS_AddElement
  <2>9. Cardinality(Safe') + 1 >= Cardinality(Safe) /\ Cardinality(Safe) \in Nat
        /\ Cardinality(Safe') \in Nat
    <3>1. IsFiniteSet(Safe) /\ Cardinality(Safe) \in Nat
      BY <2>5, BackupSets
    <3>2. Cardinality(Safe \ {c}) =
                  IF c \in Safe THEN Cardinality(Safe) - 1 ELSE Cardinality(Safe)
      BY <3>1, FS_RemoveElement
    <3>3. Cardinality(Safe') \in Nat
      <4>1. Safe' \subseteq Backups
        BY <2>5
      <4> QED
        BY <4>1, BackupSets
    <3> QED
      BY <2>5, <3>1, <3>2, <3>3
  <2>10. AskedCounted'
    BY <2>1, <2>6, <2>8 DEF AskedCounted
  <2>11. \A i \in Jobs : (Stored(i)' => Stored(i)) /\ (Unpruned(i) => Unpruned(i)')
    BY <1>0, <1>1 DEF Stored, Unpruned, RunOK
  <2>12. SafeCounted'
    BY <2>1, <2>6, <2>9, <2>11 DEF SafeCounted
  <2> QED
    BY <2>1, <2>3, <2>10, <2>11, <2>12 DEF KeptFew
<1> QED
  BY <1>0, <1>2, <1>3, <1>4, <1>5, <1>6, <1>7, <1>8 DEF BackupInv, BackupBase

\* A crash drops the jobs; without a cut none of them had listed or begun to delete.
LEMMA BackupCrashStep ==
  ASSUME BackupInv, Crash
  PROVE  BackupInv'
<1>0. BackupBase /\ Numbered /\ RunsOK
  BY DEF BackupInv, BackupBase
<1>1. /\ UNCHANGED <<day, reached, used, manifest, dumps, madeOn, finished, asked>>
      /\ job' \in [Jobs -> JobRows] /\ \A j \in Jobs : job'[j] = Idle
      /\ locked' = Free /\ attempts' = [slot |-> 0, count |-> 0]
      /\ stops' = stops + 1 /\ stops < MaxStops
      /\ disturbed' \in BOOLEAN /\ (~disturbed' => ~disturbed /\ \A j \in Jobs : ~CutOff(j))
  BY IdleRow DEF Crash, BackupInv, BackupBase, BackupTypeOK
<1>2. BackupTypeOK'
  <2>1. stops + 1 \in 0..MaxStops
    BY <1>0, <1>1, BackupAssumption DEF BackupBase, BackupTypeOK
  <2>2. attempts' \in [slot : 0..MaxDays, count : 0..MaxRetries]
    BY <1>1, BackupAssumption
  <2> QED
    BY <1>0, <1>1, <2>1, <2>2 DEF BackupBase, BackupTypeOK, JobRows
<1>3. Numbered'
  BY <1>0, <1>1, BackupTypes, IdleRow DEF Numbered, Manifests
<1>4. RunsOK' /\ TriesLeft'
  BY <1>0, <1>1, IdleRow, BackupTypes DEF RunsOK, RunOK, TriesLeft
<1>5. ASSUME ~disturbed' PROVE (HandsOK /\ ListedHasDump)'
  <2>1. ~disturbed /\ ListedHasDump /\ \A j \in Jobs : ~CutOff(j)
    BY <1>1, <1>5 DEF BackupInv
  <2>2. Manifests' = Manifests
    BY <1>1 DEF Manifests
  <2>3. \A b \in Backups : ~Deleting(b)
    BY <2>1 DEF Deleting, CutOff
  <2>4. ListedHasDump'
    BY <1>0, <1>1, <2>1, <2>2, <2>3, BackupTypes DEF ListedHasDump
  <2>5. \A j \in Jobs : Hand(j)' = {}
    BY <1>1, IdleRow DEF Hand
  <2>6. HandsOK'
    BY <1>1, <2>5, IdleRow DEF HandsOK, HandOK, Removes
  <2> QED
    BY <2>4, <2>6
<1>6. ASSUME ~disturbed' PROVE (AskedCounted /\ SafeCounted /\ KeptFew)'
  <2>1. ~disturbed /\ HandsOK /\ \A j \in Jobs : ~CutOff(j)
    BY <1>1, <1>6 DEF BackupInv
  <2>2. Manifests' = Manifests /\ Going' = {} /\ OnRequest' = {}
    BY <1>1, IdleRow DEF Manifests, Going, OnRequest, Removes
  <2>3. Going = {}
    BY <2>1 DEF Going, CutOff, HandsOK, HandOK, Removes
  <2>4. Safe \subseteq Safe' /\ Safe' \subseteq Backups
    BY <1>0, <1>1, <2>2, <2>3, BackupTypes DEF Safe
  <2>5. \A j \in Jobs : ~Stored(j)' /\ ~Unpruned(j)
    BY <1>1, <2>1, IdleRow DEF Stored, Unpruned, CutOff
  <2> QED
    BY <1>1, <2>1, <2>2, <2>3, <2>4, <2>5, CountsKept
<1> QED
  BY <1>2, <1>3, <1>4, <1>5, <1>6 DEF BackupInv, BackupBase

\* The clock and the other operations touch neither the files nor the jobs; they take the
\* lock of no run and give back none.
LEMMA AroundStep ==
  ASSUME BackupInv,
         UNCHANGED <<used, manifest, dumps, madeOn, attempts, job, stops, finished, asked,
                     disturbed>>,
         day' \in 0..MaxDays, day' >= 1, reached' \in BOOLEAN,
         \/ locked' = locked
         \/ locked \in {Free, Other} /\ locked' \in {Free, Other}
  PROVE  BackupInv'
<1>0. BackupBase /\ Numbered /\ RunsOK /\ TriesLeft
  BY DEF BackupInv, BackupBase
<1>1. BackupTypeOK'
  BY <1>0 DEF BackupBase, BackupTypeOK
<1>2. Numbered' /\ TriesLeft'
  BY <1>0, BackupTypes DEF Numbered, Manifests, TriesLeft
<1>3. RunsOK'
  BY <1>0, BackupTypes DEF RunsOK, RunOK
<1>4. /\ Manifests' = Manifests /\ Going' = Going /\ OnRequest' = OnRequest /\ Safe' = Safe
      /\ \A j \in Jobs : Hand(j)' = Hand(j)
  BY DEF Manifests, Going, OnRequest, Safe, Removes, Hand
<1>5. HandsOK => HandsOK'
  BY <1>4 DEF HandsOK, HandOK, Removes
<1>6. ListedHasDump => ListedHasDump'
  BY <1>4 DEF ListedHasDump, Deleting
<1>7. (AskedCounted /\ SafeCounted /\ KeptFew) => (AskedCounted /\ SafeCounted /\ KeptFew)'
  BY <1>4 DEF AskedCounted, SafeCounted, KeptFew, Stored, Unpruned
<1> QED
  BY <1>1, <1>2, <1>3, <1>5, <1>6, <1>7 DEF BackupInv, BackupBase

\* The initial state.
LEMMA BackupInitInv == BackupInit => BackupInv
<1> SUFFICES ASSUME BackupInit PROVE BackupInv
  OBVIOUS
<1>1. /\ job = [j \in Jobs |-> Idle] /\ \A j \in Jobs : job[j] = Idle
      /\ manifest = [b \in Backups |-> "none"] /\ dumps = {} /\ finished = 0 /\ asked = 0
      /\ used = 0 /\ day = 1 /\ Keep \in Nat
  BY BackupAssumption DEF BackupInit
<1>2. Manifests = {} /\ Going = {} /\ OnRequest = {} /\ Safe = {}
  BY <1>1, IdleRow DEF Manifests, Going, OnRequest, Safe, Removes
<1>3. BackupTypeOK
  <2>1. job \in [Jobs -> JobRows]
    BY <1>1, IdleRow
  <2>2. attempts \in [slot : 0..MaxDays, count : 0..MaxRetries]
        /\ madeOn \in [Backups -> 0..MaxDays]
    BY BackupAssumption DEF BackupInit
  <2>3. /\ day \in 0..MaxDays /\ used \in 0..MaxBackups /\ stops \in 0..MaxStops
        /\ finished \in 0..MaxBackups /\ asked \in 0..MaxDeletes
    BY <1>1, BackupAssumption DEF BackupInit
  <2>4. /\ manifest \in [Backups -> {"none", "torn", "untested", "tested"}] /\ dumps \subseteq Backups
        /\ locked \in Jobs \union {Free, Other} /\ reached \in BOOLEAN /\ disturbed \in BOOLEAN
    BY <1>1 DEF BackupInit
  <2> QED
    BY <2>1, <2>2, <2>3, <2>4 DEF BackupTypeOK, JobRows
<1>4. Numbered /\ RunsOK /\ TriesLeft
  <2>1. Scheduler \in Jobs
    BY DEF Jobs
  <2> QED
    BY <1>1, <1>2, <2>1, IdleRow DEF Numbered, RunsOK, RunOK, TriesLeft
<1>5. \A j \in Jobs : Hand(j) = {} /\ ~Removes(j) /\ ~Stored(j)
  BY <1>1, IdleRow DEF Hand, Removes, Stored
<1>6. HandsOK /\ ListedHasDump
  BY <1>1, <1>2, <1>5, IdleRow DEF HandsOK, HandOK, ListedHasDump
<1>7. AskedCounted /\ SafeCounted /\ KeptFew
  <2>1. Manifests \ Going = {} /\ Cardinality({}) = 0
    BY <1>2, FS_EmptySet
  <2>2. Cardinality(Safe) = 0 /\ Cardinality(OnRequest) = 0 /\ Cardinality(Manifests \ Going) = 0
    BY <1>2, <2>1
  <2> QED
    BY <1>1, <1>5, <2>2 DEF AskedCounted, SafeCounted, KeptFew
<1> QED
  BY <1>3, <1>4, <1>6, <1>7 DEF BackupInv, BackupBase

\* Every step of a job that has begun.
LEMMA JobStepInv ==
  ASSUME BackupInv, ManifestsWhole, NEW j \in Jobs, JobStep(j)
  PROVE  BackupInv'
<1>1. CASE Dump(j) \/ StoreBackup(j) \/ WriteManifest(j)
  BY <1>1, DumpStep, StoreStep, WrittenStep
<1>2. CASE ApplyRetention(j) \/ FinishBackup(j) \/ Undo(j)
  BY <1>2, RetentionStep, FinishRunStep, UndoStep
<1>3. CASE Prune(j)
  BY <1>3, PruneStep, PruneGoneStep
<1>4. CASE ReadEntry(j) \/ SaveResult(j) \/ WriteResult(j)
  BY <1>4, ReadStep, SaveStep, ResultStep
<1>5. CASE RemoveDump(j)
  BY <1>5, RemoveDumpStep, DumpGoneStep, DumpGoneRunStep
<1>6. CASE RemoveManifest(j)
  BY <1>6, RemoveManifestStep, RemoveManifestRunStep, ManifestGoneStep, ManifestGoneRunStep
<1> QED
  BY <1>1, <1>2, <1>3, <1>4, <1>5, <1>6 DEF JobStep

\* A manifest that cannot be read is being written: a job that empties one goes on to write
\* it, and what is cut off there counts as disturbed.
LEMMA WholeStep ==
  ASSUME BackupInv, ManifestsWhole, [BackupNext]_backupVars
  PROVE  ManifestsWhole'
<1> SUFFICES ASSUME ~disturbed', NEW b \in Backups, manifest'[b] = "torn"
             PROVE  Writing(b)'
  BY DEF ManifestsWhole, Manifests, Listed
<1>1. ~disturbed => (manifest[b] = "torn" => Writing(b))
  BY DEF ManifestsWhole, Manifests, Listed
<1>2. \A j \in Jobs : /\ job \in [Jobs -> JobRows] /\ RunOK(j) /\ disturbed \in BOOLEAN
                        /\ manifest \in [Backups -> {"none", "torn", "untested", "tested"}]
                        /\ Scheduler \in Jobs /\ job[j].own \in 0..MaxBackups
                        /\ job[j].b \in 0..MaxBackups
                        /\ \A n \in 0..MaxBackups : n # 0 => n \in Backups
  BY QuietFacts, BackupTypes DEF BackupInv
\* A job that writes nothing moves, and no manifest is emptied.
<1>3. ASSUME NEW j \in Jobs, job[j].pc \notin {"store", "write"}, ~disturbed,
             manifest'[b] = manifest[b], \A i \in Jobs : i # j => job'[i] = job[i]
      PROVE  Writing(b)'
  BY <1>1, <1>3 DEF Writing
\* A job leaves its manifest written.
<1>4. ASSUME NEW j \in Jobs, job[j].b # b, ~disturbed,
             manifest'[b] = manifest[b], \A i \in Jobs : i # j => job'[i] = job[i]
      PROVE  Writing(b)'
  BY <1>1, <1>4 DEF Writing
<1>5. CASE RoundDue \/ RoundVerify \/ RoundStops \/ RoundAgain \/ LockBusy
  <2>1. Scheduler \in Jobs
    BY DEF Jobs
  <2> QED
    BY <1>2, <1>3, <1>5, <2>1 DEF RoundDue, RoundVerify, RoundStops, RoundAgain, LockBusy, JobAt
<1>6. ASSUME NEW j \in Jobs, Lock(j) \/ Dump(j) \/ ApplyRetention(j) \/ Prune(j)
                             \/ FinishBackup(j) \/ Undo(j) \/ ReadEntry(j) \/ RemoveDump(j)
      PROVE  Writing(b)'
  BY <1>2, <1>3, <1>6 DEF Lock, Dump, ApplyRetention, Prune, FinishBackup, Undo, ReadEntry,
     RemoveDump, JobAt
<1>7. ASSUME NEW j \in Jobs, RemoveManifest(j) PROVE Writing(b)'
  BY <1>2, <1>3, <1>7 DEF RemoveManifest
<1>8. ASSUME NEW j \in Jobs, StoreBackup(j) PROVE Writing(b)'
  <2>1. /\ job' = [job EXCEPT ![j].pc = "store", ![j].b = job[j].own] /\ ~disturbed
        /\ job[j].pc = "manifest" /\ manifest' = [manifest EXCEPT ![job[j].own] = "torn"]
    BY <1>8 DEF StoreBackup
  <2>2. CASE job[j].own = b
    BY <1>2, <2>1, <2>2 DEF Writing, JobRows
  <2>3. CASE job[j].own # b
    BY <1>2, <1>3, <2>1, <2>3
  <2> QED
    BY <2>2, <2>3
<1>9. ASSUME NEW j \in Jobs, SaveResult(j) PROVE Writing(b)'
  <2>1. /\ job' = [job EXCEPT ![j].pc = "write"] /\ ~disturbed
        /\ job[j].pc = "save" /\ manifest' = [manifest EXCEPT ![job[j].b] = "torn"]
    BY <1>9 DEF SaveResult, JobAt
  <2>2. CASE job[j].b = b
    BY <1>2, <2>1, <2>2 DEF Writing, JobRows
  <2>3. CASE job[j].b # b
    BY <1>2, <1>3, <2>1, <2>3
  <2> QED
    BY <2>2, <2>3
<1>10. ASSUME NEW j \in Jobs, WriteManifest(j) \/ WriteResult(j) PROVE Writing(b)'
  <2>1. /\ ~disturbed /\ \A i \in Jobs : i # j => job'[i] = job[i]
        /\ \E v \in {"none", "untested", "tested"} : manifest' = [manifest EXCEPT ![job[j].b] = v]
    BY <1>2, <1>10 DEF WriteManifest, WriteResult, JobAt
  <2>2. job[j].b # b
    BY <1>2, <2>1
  <2> QED
    BY <1>2, <1>4, <2>1, <2>2
<1>11. ASSUME NEW j \in Jobs, Fails(j) \/ VerifyFails(j) PROVE Writing(b)'
  <2>1. /\ ~disturbed /\ job[j].pc \notin {"store", "write"} /\ manifest' = manifest
        /\ \A i \in Jobs : i # j => job'[i] = job[i]
    BY <1>2, <1>11 DEF Fails, VerifyFails, CutOff, RunOK
  <2> QED
    BY <1>3, <2>1
<1>12. ASSUME NEW j \in Jobs, NEW c \in Backups, StartDelete(j, c) \/ StartVerify(j, c)
       PROVE  Writing(b)'
  BY <1>2, <1>3, <1>12 DEF StartDelete, StartVerify
<1>13. CASE Crash
  <2>1. ~disturbed /\ manifest' = manifest /\ \A j \in Jobs : ~CutOff(j)
    BY <1>13 DEF Crash
  <2>2. PICK j \in Jobs : job[j].pc \in {"store", "write"} /\ job[j].b = b
    BY <1>1, <2>1 DEF Writing
  <2> QED
    BY <1>2, <2>1, <2>2 DEF CutOff, RunOK
<1>14. CASE SlotComes \/ NextDay \/ OtherLocks \/ OtherUnlocks \/ UNCHANGED backupVars
  <2>1. UNCHANGED <<job, manifest, disturbed>>
    BY <1>14 DEF SlotComes, NextDay, OtherLocks, OtherUnlocks, backupVars
  <2> QED
    BY <1>1, <2>1 DEF Writing
<1> QED
  BY <1>5, <1>6, <1>7, <1>8, <1>9, <1>10, <1>11, <1>12, <1>13, <1>14 DEF BackupNext, JobStep

\* Every step keeps the invariant.
LEMMA BackupStepInv ==
  BackupInv /\ ManifestsWhole /\ [BackupNext]_backupVars => BackupInv' /\ ManifestsWhole'
<1> SUFFICES ASSUME BackupInv, ManifestsWhole, [BackupNext]_backupVars PROVE BackupInv'
  BY WholeStep
<1>0. /\ day \in 0..MaxDays /\ day >= 1 /\ reached \in BOOLEAN /\ MaxDays \in Nat
  BY BackupAssumption DEF BackupInv, BackupBase, BackupTypeOK, Numbered
<1>1. CASE RoundDue \/ RoundVerify \/ RoundStops \/ RoundAgain \/ LockBusy
  BY <1>1, DueStep, VerifyDueStep, BusyStep
<1>2. CASE \E j \in Jobs : Lock(j) \/ JobStep(j) \/ Fails(j) \/ VerifyFails(j)
  BY <1>2, LockAppStep, JobStepInv, FailsStep, FailsRunStep, VerifyFailsStep
<1>3. CASE \E j \in Jobs : \E c \in Backups : StartDelete(j, c) \/ StartVerify(j, c)
  BY <1>3, DeleteStep, VerifyStep DEF StartVerify
<1>4. CASE Crash
  BY <1>4, BackupCrashStep
<1>5. CASE SlotComes
  BY <1>0, <1>5, AroundStep DEF SlotComes
<1>6. CASE NextDay
  <2>1. day' \in 0..MaxDays /\ day' >= 1 /\ reached' = FALSE
    BY <1>0, <1>6 DEF NextDay
  <2> QED
    BY <1>6, <2>1, AroundStep DEF NextDay
<1>7. CASE OtherLocks
  BY <1>0, <1>7, AroundStep DEF OtherLocks
<1>8. CASE OtherUnlocks
  BY <1>0, <1>8, AroundStep DEF OtherUnlocks
<1>9. CASE UNCHANGED backupVars
  BY <1>0, <1>9, AroundStep DEF backupVars
<1> QED
  BY <1>1, <1>2, <1>3, <1>4, <1>5, <1>6, <1>7, <1>8, <1>9 DEF BackupNext

\* The counts give what the runs promise: without a run nothing is on its way out by the
\* retention, and what is safe is among what can be restored.
LEMMA BackupInvKept == BackupInv /\ ManifestsWhole => BackupsKept
<1> SUFFICES ASSUME BackupInv, ManifestsWhole PROVE BackupsKept
  OBVIOUS
<1>0. BackupBase /\ RunsOK /\ BackupTypeOK
  BY DEF BackupInv, BackupBase
<1>1. ListedHasDump
  BY DEF BackupInv, ListedHasDump
<1>2. RetentionHolds
  <2> SUFFICES ASSUME locked \notin Jobs, ~disturbed PROVE Cardinality(Manifests) <= Keep
    BY DEF RetentionHolds
  <2>1. \A j \in Jobs : job[j].own = 0
    BY <1>0 DEF RunsOK, RunOK
  <2>2. Going = {} /\ \A j \in Jobs : ~Unpruned(j)
    BY <2>1 DEF Going, Unpruned
  <2>3. Cardinality(Manifests \ Going) <= Keep
    BY <2>2 DEF BackupInv, KeptFew
  <2>4. Manifests \ Going = Manifests
    BY <2>2
  <2> QED
    BY <2>3, <2>4
<1>3. Survivors
  <2> SUFFICES ASSUME ~disturbed
               PROVE  Cardinality(Manifests \cap dumps) + asked >= Min({Keep, finished})
    BY DEF Survivors
  <2>1. /\ Safe \subseteq Manifests \cap dumps /\ Manifests \cap dumps \subseteq Backups
        /\ Keep \in Nat /\ finished \in Nat /\ asked \in Nat
    BY <1>0, BackupTypes, BackupAssumption DEF Safe
  <2>2. Safe \subseteq Backups
    BY <2>1
  <2>3. /\ Cardinality(Safe) <= Cardinality(Manifests \cap dumps)
        /\ Cardinality(Safe) \in Nat /\ Cardinality(Manifests \cap dumps) \in Nat
    BY <2>1, <2>2, BackupSets
  <2>4. \/ Cardinality(Safe) + asked >= Keep
        \/ Cardinality(Safe) + asked >= finished
    BY DEF BackupInv, SafeCounted
  <2>5. Min({Keep, finished}) = IF Keep <= finished THEN Keep ELSE finished
    BY <2>1, MinOf
  <2> QED
    BY <2>1, <2>3, <2>4, <2>5
<1> QED
  BY <1>0, <1>1, <1>2, <1>3 DEF BackupsKept

\* The backup files of backup.rs: as long as no two operations met on one backup, none was
\* cut off between the two files of one or in a write of a manifest, and no retention ran
\* during such a write, what has a manifest can be restored, and listed but for the moment
\* of the write; without a run at most Keep backups are left; and of the runs that ended well
\* as many as Keep have both files, less those whose deletion was requested.
THEOREM BackupsSurvive == BackupSpec => []BackupsKept
<1>1. BackupInit => BackupInv /\ ManifestsWhole
  BY BackupInitInv DEF BackupInit, ManifestsWhole, Manifests
<1>2. BackupInv /\ ManifestsWhole /\ [BackupNext]_backupVars => BackupInv' /\ ManifestsWhole'
  BY BackupStepInv
<1>3. BackupInv /\ ManifestsWhole => BackupsKept
  BY BackupInvKept
<1> QED
  BY <1>1, <1>2, <1>3, PTL DEF BackupSpec
=============================================================================
