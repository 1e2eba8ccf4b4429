------------------------- MODULE ScheduledCommands -------------------------
(***************************************************************************)
(* The runs of one scheduled command of an app: the loop that reads which  *)
(* commands are due, the lock that keeps two runs of a command apart, and  *)
(* the run itself.  Source: r3v3rs3/src/platform/scheduler.rs,             *)
(* lock_scheduled_command of platform/mod.rs and store/commands.rs.        *)
(*                                                                         *)
(* The loop decides with the last_run_at that it has read, takes the lock  *)
(* later, and does not read again.  A run notes its start and stores it    *)
(* only when the command has ended or was given up; a command that was     *)
(* given up goes on in its container.  Times are numbers of the slots of   *)
(* the schedule, the last one that has come being the current one; it is   *)
(* due from then on for its minute (cron), for the rest of its day (HH:MM) *)
(* or until the next one (an interval).                                    *)
(***************************************************************************)
EXTENDS Naturals

CONSTANTS
  MaxSlots,  \* bound on the slots of the schedule
  MaxRuns,   \* bound on the runs
  MaxKills   \* bound on the crashes

ASSUME CommandAssumption == MaxSlots \in Nat /\ MaxRuns \in Nat /\ MaxKills \in Nat

Slots  == 0..MaxSlots
RunIds == 1..MaxRuns
NoRun  == 0

VARIABLES
  slot,       \* the current slot
  inTime,     \* whether the current slot may still be run
  command,    \* the row: "on", "off" or "deleted"
  lastRun,    \* last_run_at
  deployed,   \* the app has a running deployment
  loop,       \* the loop: "sleep", or "due" with the lastRun that it has read
  runLock,    \* running_commands: the run that has the lock, or NoRun
  started,    \* how many runs were started
  run,        \* [RunIds -> the run]
  process,    \* [RunIds -> the process in the container: "none", "runs", or "left" when
              \*  it runs and its run waits for it no more]
  ranIn,      \* history: [Slots -> how many runs of the loop executed in it]
  kills,      \* how many crashes there were
  excused     \* history: a run is not in the row that the loop decided with

commandVars == <<slot, inTime, command, lastRun, deployed, loop, runLock, started, run,
                 process, ranIn, kills, excused>>

RunPcs == {"none", "read", "exec", "record"}
NotRun == [pc |-> "none", byLoop |-> FALSE, at |-> 0]
Asleep == [pc |-> "sleep", saw |-> 0]

-----------------------------------------------------------------------------
(* The loop.                                                                *)

\* list_all_enabled_scheduled_commands and is_schedule_due.
ListDue ==
  /\ loop.pc = "sleep" /\ command = "on" /\ lastRun < slot /\ inTime
  /\ loop' = [pc |-> "due", saw |-> lastRun]
  /\ UNCHANGED <<slot, inTime, command, lastRun, deployed, runLock, started, run, process,
                 ranIn, kills, excused>>

StartRun(byLoop) ==
  /\ runLock' = started + 1
  /\ started' = started + 1
  /\ run' = [run EXCEPT ![started + 1] = [NotRun EXCEPT !.pc = "read", !.byLoop = byLoop]]

MayLockAnyway == started < MaxRuns

\* lock_scheduled_command.
MayLock == runLock = NoRun /\ started < MaxRuns

LockDue ==
  /\ loop.pc = "due" /\ MayLock
  /\ StartRun(TRUE)
  /\ loop' = Asleep
  /\ excused' = (excused \/ loop.saw # lastRun)
  /\ UNCHANGED <<slot, inTime, command, lastRun, process, deployed, ranIn, kills>>

\* The command still runs: the loop goes on without it.
SkipDue ==
  /\ loop.pc = "due" /\ runLock # NoRun
  /\ loop' = Asleep
  /\ UNCHANGED <<slot, inTime, command, lastRun, deployed, runLock, started, run, process,
                 ranIn, kills, excused>>

\* execute_scheduled_command of a request, whatever the schedule says.
RunNow ==
  /\ command # "deleted" /\ MayLock
  /\ StartRun(FALSE)
  /\ UNCHANGED <<slot, inTime, command, lastRun, process, deployed, loop, ranIn, kills,
                 excused>>

-----------------------------------------------------------------------------
(* execute_scheduled_command_impl.                                          *)

\* The end of the run drops the lock.
EndRun(r) ==
  /\ runLock' = NoRun
  /\ run' = [run EXCEPT ![r] = NotRun]

ExecuteLate(r) ==
  /\ run[r].pc = "read" /\ command # "deleted" /\ deployed
  /\ run' = [run EXCEPT ![r].pc = "exec", ![r].at = slot + 1]
  /\ process' = [process EXCEPT ![r] = "runs"]
  /\ ranIn' = [ranIn EXCEPT ![slot] = @ + (IF run[r].byLoop THEN 1 ELSE 0)]
  /\ UNCHANGED <<slot, inTime, command, lastRun, deployed, loop, runLock, started, kills,
                 excused>>

\* The command and its app are there: it is executed, from now on.
Execute(r) ==
  /\ run[r].pc = "read" /\ command # "deleted" /\ deployed
  /\ run' = [run EXCEPT ![r].pc = "exec", ![r].at = slot]
  /\ process' = [process EXCEPT ![r] = "runs"]
  /\ ranIn' = [ranIn EXCEPT ![slot] = @ + (IF run[r].byLoop THEN 1 ELSE 0)]
  /\ UNCHANGED <<slot, inTime, command, lastRun, deployed, loop, runLock, started, kills,
                 excused>>

KeepLock(r) ==
  /\ run[r].pc = "read" /\ ~(command # "deleted" /\ deployed)
  /\ run' = [run EXCEPT ![r] = NotRun]
  /\ UNCHANGED <<slot, inTime, command, lastRun, deployed, loop, runLock, started, process,
                 ranIn, kills, excused>>

\* It is not: the run ends, and nothing is recorded.
CannotExecute(r) ==
  /\ run[r].pc = "read" /\ ~(command # "deleted" /\ deployed)
  /\ EndRun(r)
  /\ UNCHANGED <<slot, inTime, command, lastRun, deployed, loop, started, process, ranIn,
                 kills, excused>>

\* exec_capture returns after the command, which has ended or failed.
CommandEnds(r) ==
  /\ run[r].pc = "exec"
  /\ run' = [run EXCEPT ![r].pc = "record"]
  /\ process' = [process EXCEPT ![r] = "none"]
  /\ UNCHANGED <<slot, inTime, command, lastRun, deployed, loop, runLock, started, ranIn,
                 kills, excused>>

\* COMMAND_TIMEOUT, or no output for RESPONSE_TIMEOUT: the run goes on as if the command
\* were over.  Nothing ends the process.
LeaveProcess(r) ==
  /\ run[r].pc = "exec"
  /\ run' = [run EXCEPT ![r].pc = "record"]
  /\ process' = [process EXCEPT ![r] = "left"]
  /\ UNCHANGED <<slot, inTime, command, lastRun, deployed, loop, runLock, started, ranIn,
                 kills, excused>>

\* The command that nobody waits for ends, or its container.
ProcessEnds(r) ==
  /\ process[r] = "left"
  /\ process' = [process EXCEPT ![r] = "none"]
  /\ UNCHANGED <<slot, inTime, command, lastRun, deployed, loop, runLock, started, run,
                 ranIn, kills, excused>>

\* record_scheduled_command_run.
RecordRun(r) ==
  /\ run[r].pc = "record"
  /\ lastRun' = IF command # "deleted" THEN run[r].at ELSE lastRun
  /\ EndRun(r)
  /\ UNCHANGED <<slot, inTime, command, deployed, loop, started, process, ranIn, kills,
                 excused>>

\* The database fails.
RecordFails(r) ==
  /\ run[r].pc = "record"
  /\ EndRun(r)
  /\ excused' = TRUE
  /\ UNCHANGED <<slot, inTime, command, lastRun, deployed, loop, started, process, ranIn,
                 kills>>

-----------------------------------------------------------------------------
(* The time, the requests and the process.                                  *)

SlotPasses ==
  /\ slot < MaxSlots
  /\ slot' = slot + 1
  /\ inTime' = TRUE
  /\ UNCHANGED <<command, lastRun, deployed, loop, runLock, started, run, process, ranIn,
                 kills, excused>>

\* is_schedule_due: the minute of a cron schedule, or the day of a time of day, is over.
TimeIsUp ==
  /\ inTime
  /\ inTime' = FALSE
  /\ UNCHANGED <<slot, command, lastRun, deployed, loop, runLock, started, run, process,
                 ranIn, kills, excused>>

UpdateAsNew ==
  /\ command \in {"on", "off"}
  /\ command' = IF command = "on" THEN "off" ELSE "on"
  /\ lastRun' = 0
  /\ UNCHANGED <<slot, inTime, deployed, loop, runLock, started, run, process, ranIn, kills,
                 excused>>

\* update_scheduled_command keeps last_run_at.
UpdateCommand ==
  /\ command \in {"on", "off"}
  /\ command' = IF command = "on" THEN "off" ELSE "on"
  /\ UNCHANGED <<slot, inTime, lastRun, deployed, loop, runLock, started, run, process,
                 ranIn, kills, excused>>

DeleteCommand ==
  /\ command' = "deleted"
  /\ UNCHANGED <<slot, inTime, lastRun, deployed, loop, runLock, started, run, process,
                 ranIn, kills, excused>>

\* The app is deployed, stopped or fails.
AppChanges ==
  /\ deployed' = ~deployed
  /\ UNCHANGED <<slot, inTime, command, lastRun, loop, runLock, started, run, process,
                 ranIn, kills, excused>>

\* The program ends, also by a panic: the locks and the runs are only in memory, the
\* processes are in the containers.
Killed ==
  /\ kills < MaxKills
  /\ kills' = kills + 1
  /\ loop' = Asleep
  /\ runLock' = NoRun
  /\ run' = [r \in RunIds |-> NotRun]
  /\ process' = [r \in RunIds |-> IF process[r] = "runs" THEN "left" ELSE process[r]]
  /\ excused' = (excused \/ \E r \in RunIds : run[r].pc \in {"exec", "record"})
  /\ UNCHANGED <<slot, inTime, command, lastRun, deployed, started, ranIn>>

-----------------------------------------------------------------------------
CommandInit ==
  /\ slot = 0 /\ inTime = FALSE /\ command = "on" /\ lastRun = 0 /\ deployed = TRUE
  /\ loop = Asleep /\ runLock = NoRun /\ started = 0
  /\ run = [r \in RunIds |-> NotRun] /\ process = [r \in RunIds |-> "none"]
  /\ ranIn = [s \in Slots |-> 0]
  /\ kills = 0 /\ excused = FALSE

LoopRound == ListDue \/ LockDue \/ SkipDue
RunStep(r) ==
  Execute(r) \/ CannotExecute(r) \/ CommandEnds(r) \/ LeaveProcess(r) \/ RecordRun(r)

CommandNext ==
  \/ LoopRound \/ RunNow
  \/ \E r \in RunIds : RunStep(r) \/ RecordFails(r) \/ ProcessEnds(r)
  \/ SlotPasses \/ TimeIsUp \/ UpdateCommand \/ DeleteCommand \/ AppChanges \/ Killed

\* The loop wakes up every SCHEDULER_INTERVAL, and a run has a timeout.
CommandFairness ==
  WF_commandVars(LoopRound) /\ \A r \in RunIds : WF_commandVars(RunStep(r))

CommandSpec == CommandInit /\ [][CommandNext]_commandVars /\ CommandFairness

-----------------------------------------------------------------------------
CommandTypeOK ==
  /\ slot \in Slots /\ inTime \in BOOLEAN /\ command \in {"on", "off", "deleted"}
  /\ lastRun \in Slots /\ deployed \in BOOLEAN /\ loop \in [pc : {"sleep", "due"}, saw : Slots]
  /\ runLock \in RunIds \union {NoRun} /\ started \in 0..MaxRuns
  /\ run \in [RunIds -> [pc : RunPcs, byLoop : BOOLEAN, at : Slots]]
  /\ process \in [RunIds -> {"none", "runs", "left"}]
  /\ ranIn \in [Slots -> 0..MaxRuns] /\ kills \in 0..MaxKills /\ excused \in BOOLEAN

\* One run of a command at a time, by the loop or by a request, and the lock is held
\* exactly as long as it runs, whatever way it ends.
OneInstance == \A r \in RunIds : run[r].pc # "none" <=> runLock = r

\* The loop executes a command at most once in a slot, also after a request ran it, the
\* command was changed or a run took longer than a slot.  The exceptions are a run whose
\* end is not recorded, and one that ended after the loop had read the row.
OncePerSlot == ~excused => \A s \in Slots : ranIn[s] <= 1

\* A process that somebody waits for is that of the run that has the lock.  So the command
\* runs beside itself only when a process of it was given up, after a timeout or by the
\* end of the program, and lives on in its container.
OneProcess == \A r \in RunIds : process[r] = "runs" => runLock = r

\* The three together: neither beside itself nor twice in a slot.
NeverTwice == CommandTypeOK /\ OneInstance /\ OneProcess /\ OncePerSlot

\* The comment of ScheduledCommandLock: only one instance of the command runs at a time.
OneProcessAtAll ==
  \A r, s \in RunIds : process[r] # "none" /\ process[s] # "none" => r = s

\* A command that is due comes to run, as long as its slot may still be run, it is on and
\* its app runs.  A run that has the lock for the whole minute of a cron schedule takes
\* the slot away.
DueRuns ==
  \A s \in Slots :
    (slot = s /\ lastRun < s) ~>
      (lastRun >= s \/ slot # s \/ ~inTime \/ command # "on" \/ ~deployed \/ started = MaxRuns)
=============================================================================
