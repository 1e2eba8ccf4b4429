---------------------------- MODULE BackupFiles ----------------------------
(***************************************************************************)
(* The local backups of one database: the daily scheduler with its         *)
(* retries, the backups, deletions and verifications that requests start,  *)
(* and the two files of a backup, the dump and its manifest.  Source:      *)
(* r3v3rs3/src/platform/backup.rs.                                         *)
(*                                                                         *)
(* Only a backup run takes the lock of the app.  A deletion and a          *)
(* verification read the manifest, and go on with what they read while     *)
(* others change the files.  tokio::fs::write empties a manifest before it *)
(* writes it, and list_backups passes over one that it cannot parse.  The  *)
(* backups are numbered in the order of their creation.                    *)
(***************************************************************************)
EXTENDS Naturals, FiniteSets, FiniteSetsExt

CONSTANTS
  Callers,      \* the requests that run at a time
  Keep,         \* BackupConfig::keep, at least 1
  RestoreTest,  \* BackupConfig::restore_test_enabled
  MaxRetries,   \* MAX_BACKUP_RETRIES
  MaxBackups,   \* bound on the backups
  MaxDays,      \* bound on the days
  MaxDeletes,   \* bound on the deletions that requests begin
  MaxStops      \* bound on the crashes

Scheduler == "scheduler"
Free      == "free"
Other     == "other"

ASSUME BackupAssumption ==
  /\ Keep \in Nat \ {0} /\ RestoreTest \in BOOLEAN /\ MaxRetries \in Nat \ {0}
  /\ MaxBackups \in Nat /\ MaxDays \in Nat \ {0} /\ MaxDeletes \in Nat /\ MaxStops \in Nat
  /\ Callers \cap {Scheduler, Free, Other} = {}

Jobs      == Callers \union {Scheduler}
Backups   == 1..MaxBackups

VARIABLES
  day,        \* the day, and with it the slot of the schedule
  reached,    \* the time of the slot has come
  used,       \* how many backups were begun
  manifest,   \* [Backups -> {"none", "torn", "untested", "tested"}]
  dumps,      \* the backups whose dump file exists
  madeOn,     \* [Backups -> 0..MaxDays], the last slot before created_at
  locked,     \* who has the lock of the app: a job, another operation, or Free
  attempts,   \* backup_attempts: the slot and how many runs failed in it
  job,        \* [Jobs -> what it does]
  stops,      \* how many crashes there were
  finished,   \* history: how many runs ended well
  asked,      \* history: how many deletions requests have begun
  disturbed   \* history: two operations met on one backup, one was cut off, or the
              \* retention missed a manifest that was just written

backupVars == <<day, reached, used, manifest, dumps, madeOn, locked, attempts, job,
                stops, finished, asked, disturbed>>

\* own: the backup that a run makes; b: the one it verifies or deletes; todo: what the
\* retention has still to delete; slot: of the scheduler's round.
Idle    == [pc |-> "rest", own |-> 0, b |-> 0, todo |-> {}, slot |-> 0]
JobPcs  == {"rest", "barred", "lock", "dump", "manifest", "store", "test", "save", "write",
            "list", "prune", "rmdump", "rmmanifest", "undo"}

\* The manifests that are there, and those that list_backups can read.
Manifests == {b \in Backups : manifest[b] # "none"}
Listed    == {b \in Manifests : manifest[b] # "torn"}

Writing(b)  == \E j \in Jobs : job[j].pc \in {"store", "write"} /\ job[j].b = b
Deleting(b) == \E j \in Jobs : job[j].pc = "rmmanifest" /\ job[j].b = b

\* What a job has read or made and is not done with.
Hand(j) ==
  job[j].todo \union
  (IF job[j].pc \in {"store", "save", "write", "rmdump", "rmmanifest"} THEN {job[j].b} ELSE {})
Meets(j, S) == \E i \in Jobs \ {j} : Hand(i) \cap S # {}

JobAt(j, pc) == job' = [job EXCEPT ![j].pc = pc]

-----------------------------------------------------------------------------
(* The scheduler.                                                           *)

IsBackupDueOnceMore == attempts.slot # day \/ attempts.count <= MaxRetries

\* is_backup_due: the wait after a failure may always be over.
IsBackupDue == attempts.slot # day \/ attempts.count < MaxRetries

Covered == \E b \in Listed : madeOn[b] >= day

\* check_app_backup finds the slot without a backup ...
RoundDue ==
  /\ job[Scheduler].pc = "rest" /\ reached /\ ~Covered /\ IsBackupDue
  /\ job' = [job EXCEPT ![Scheduler] = [Idle EXCEPT !.pc = "lock", !.slot = day]]
  /\ UNCHANGED <<day, reached, used, manifest, dumps, madeOn, locked, attempts, stops,
                 finished, asked, disturbed>>

\* ... or verifies the newest backup that was not verified yet.
RoundVerify ==
  LET untested == {b \in Listed : manifest[b] = "untested"} IN
  /\ job[Scheduler].pc = "rest" /\ ~(reached /\ ~Covered)
  /\ RestoreTest /\ untested # {}
  /\ job' = [job EXCEPT ![Scheduler] = [Idle EXCEPT !.pc = "test", !.b = Max(untested)]]
  /\ UNCHANGED <<day, reached, used, manifest, dumps, madeOn, locked, attempts, stops,
                 finished, asked, disturbed>>

\* The directory of a database that comes first in the list cannot be read: the round ends
\* there, and the backup that is due has to wait for the next one.
RoundStops ==
  /\ job[Scheduler].pc = "rest" /\ reached /\ ~Covered /\ IsBackupDue
  /\ JobAt(Scheduler, "barred")
  /\ UNCHANGED <<day, reached, used, manifest, dumps, madeOn, locked, attempts, stops,
                 finished, asked, disturbed>>

RoundAgain ==
  /\ job[Scheduler].pc = "barred"
  /\ JobAt(Scheduler, "rest")
  /\ UNCHANGED <<day, reached, used, manifest, dumps, madeOn, locked, attempts, stops,
                 finished, asked, disturbed>>

\* record_backup_failure and record_backup_success, after a run of the scheduler.
RecordFailure(j) ==
  attempts' = IF j # Scheduler THEN attempts
              ELSE [slot |-> job[j].slot,
                    count |-> IF attempts.slot = job[j].slot THEN attempts.count + 1 ELSE 1]
RecordSuccess(j) ==
  attempts' = IF j # Scheduler THEN attempts ELSE [slot |-> 0, count |-> 0]

-----------------------------------------------------------------------------
(* run_backup.                                                              *)

\* lock_app, of the scheduler or of a request.
Lock(j) ==
  /\ job[j].pc = IF j = Scheduler THEN "lock" ELSE "rest"
  /\ locked = Free /\ used < MaxBackups
  /\ locked' = j
  /\ used' = used + 1
  /\ job' = [job EXCEPT ![j].pc = "dump", ![j].own = used + 1]
  /\ UNCHANGED <<day, reached, manifest, dumps, madeOn, attempts, stops, finished,
                 asked, disturbed>>

LockBusyWaits ==
  job[Scheduler].pc = "lock" /\ locked # Free /\ UNCHANGED backupVars

\* Another operation has the lock: the scheduled backup has failed.
LockBusy ==
  /\ job[Scheduler].pc = "lock" /\ locked # Free
  /\ RecordFailure(Scheduler)
  /\ job' = [job EXCEPT ![Scheduler] = Idle]
  /\ UNCHANGED <<day, reached, used, manifest, dumps, madeOn, locked, stops, finished,
                 asked, disturbed>>

NoDump(j) ==
  /\ job[j].pc = "dump"
  /\ JobAt(j, "manifest")
  /\ UNCHANGED <<day, reached, used, manifest, dumps, madeOn, locked, attempts, stops,
                 finished, asked, disturbed>>

\* capture_database_dump.
Dump(j) ==
  /\ job[j].pc = "dump"
  /\ dumps' = dumps \union {job[j].own}
  /\ JobAt(j, "manifest")
  /\ UNCHANGED <<day, reached, used, manifest, madeOn, locked, attempts, stops, finished,
                 asked, disturbed>>

\* store_backup makes the file of the manifest ...
StoreBackup(j) ==
  /\ job[j].pc = "manifest"
  /\ manifest' = [manifest EXCEPT ![job[j].own] = "torn"]
  /\ madeOn' = [madeOn EXCEPT ![job[j].own] = IF reached THEN day ELSE day - 1]
  /\ job' = [job EXCEPT ![j].pc = "store", ![j].b = job[j].own]
  /\ UNCHANGED <<day, reached, used, dumps, locked, attempts, stops, finished,
                 asked, disturbed>>

\* ... writes it, and goes on with the uploads and the first verification.
WriteManifest(j) ==
  /\ job[j].pc = "store"
  /\ manifest' = [manifest EXCEPT ![job[j].b] = "untested"]
  /\ JobAt(j, IF RestoreTest THEN "test" ELSE "list")
  /\ UNCHANGED <<day, reached, used, dumps, madeOn, locked, attempts, stops, finished,
                 asked, disturbed>>

Newer(b) == {c \in Listed : c > b}

SurplusOneLess == {b \in Listed : Cardinality(Newer(b)) > Keep}

SurplusOneMore == {b \in Listed : Cardinality(Newer(b)) + 1 >= Keep}

\* What is beyond the Keep newest.
Surplus == {b \in Listed : Cardinality(Newer(b)) >= Keep}

\* apply_retention reads what there is, without the manifests that are being written ...
ApplyRetention(j) ==
  /\ job[j].pc = "list"
  /\ job' = [job EXCEPT ![j].pc = "prune", ![j].todo = Surplus]
  /\ disturbed' = (disturbed \/ Meets(j, Surplus) \/ Manifests # Listed)
  /\ UNCHANGED <<day, reached, used, manifest, dumps, madeOn, locked, attempts, stops,
                 finished, asked>>

\* ... and deletes the rest one by one.
Prune(j) ==
  LET b == Max(job[j].todo) IN
  /\ job[j].pc = "prune" /\ job[j].todo # {}
  /\ job' = [job EXCEPT ![j].pc = IF b \in Listed THEN "rmdump" ELSE "undo",
                        ![j].b = b, ![j].todo = @ \ {b}]
  /\ UNCHANGED <<day, reached, used, manifest, dumps, madeOn, locked, attempts, stops,
                 finished, asked, disturbed>>

FinishBackup(j) ==
  /\ job[j].pc = "prune" /\ job[j].todo = {}
  /\ RecordSuccess(j)
  /\ locked' = Free
  /\ finished' = finished + 1
  /\ job' = [job EXCEPT ![j] = Idle]
  /\ UNCHANGED <<day, reached, used, manifest, dumps, madeOn, stops, asked, disturbed>>

\* A run that has failed removes its dump, whatever it had stored by then.
Undo(j) ==
  /\ job[j].pc = "undo"
  /\ dumps' = dumps \ {job[j].own}
  /\ RecordFailure(j)
  /\ locked' = Free
  /\ job' = [job EXCEPT ![j] = Idle]
  /\ UNCHANGED <<day, reached, used, manifest, madeOn, stops, finished,
                 asked, disturbed>>

-----------------------------------------------------------------------------
(* verify_backup and delete_backup, of a request or within a run.           *)

\* backup_entry of a request.
StartDelete(j, b) ==
  /\ j # Scheduler /\ job[j].pc = "rest" /\ b \in Listed
  /\ asked < MaxDeletes
  /\ asked' = asked + 1
  /\ job' = [job EXCEPT ![j] = [Idle EXCEPT !.pc = "rmdump", !.b = b]]
  /\ disturbed' = (disturbed \/ Meets(j, {b}))
  /\ UNCHANGED <<day, reached, used, manifest, dumps, madeOn, locked, attempts, stops,
                 finished>>

StartVerify(j, b) ==
  /\ j # Scheduler /\ job[j].pc = "rest" /\ b \in Listed
  /\ job' = [job EXCEPT ![j] = [Idle EXCEPT !.pc = "test", !.b = b]]
  /\ UNCHANGED <<day, reached, used, manifest, dumps, madeOn, locked, attempts, stops,
                 finished, asked, disturbed>>

\* Where a run goes on, after its own verification or one of its deletions.
Return(j, pc) == IF job[j].own = 0 THEN Idle ELSE [job[j] EXCEPT !.pc = pc]

\* verify_backup reads the manifest; without one it fails, which a run ignores.
ReadEntry(j) ==
  /\ job[j].pc = "test"
  /\ job' = [job EXCEPT ![j] =
       IF job[j].b \in Listed THEN [@ EXCEPT !.pc = "save"] ELSE Return(j, "list")]
  /\ disturbed' = (disturbed \/ Meets(j, {job[j].b}))
  /\ UNCHANGED <<day, reached, used, manifest, dumps, madeOn, locked, attempts, stops,
                 finished, asked>>

\* save_verification_result writes the whole manifest, also without a dump: it empties the
\* file, or makes it again ...
SaveResult(j) ==
  /\ job[j].pc = "save"
  /\ manifest' = [manifest EXCEPT ![job[j].b] = "torn"]
  /\ JobAt(j, "write")
  /\ UNCHANGED <<day, reached, used, dumps, madeOn, locked, attempts, stops, finished,
                 asked, disturbed>>

\* ... and writes it.  What goes to a file that was removed meanwhile is lost.
WriteResult(j) ==
  /\ job[j].pc = "write"
  /\ manifest' = [manifest EXCEPT ![job[j].b] = IF @ = "none" THEN @ ELSE "tested"]
  /\ job' = [job EXCEPT ![j] = Return(j, "list")]
  /\ UNCHANGED <<day, reached, used, dumps, madeOn, locked, attempts, stops, finished,
                 asked, disturbed>>

\* The dump goes first.  A file that is not there is an error.
RemoveDump(j) ==
  /\ job[j].pc = "rmdump"
  /\ dumps' = dumps \ {job[j].b}
  /\ job' = [job EXCEPT ![j] =
       IF job[j].b \in dumps THEN [@ EXCEPT !.pc = "rmmanifest"] ELSE Return(j, "undo")]
  /\ UNCHANGED <<day, reached, used, manifest, madeOn, locked, attempts, stops, finished,
                 asked, disturbed>>

RemoveManifest(j) ==
  /\ job[j].pc = "rmmanifest"
  /\ manifest' = [manifest EXCEPT ![job[j].b] = "none"]
  /\ job' = [job EXCEPT ![j] =
       IF job[j].b \in Manifests THEN Return(j, "prune") ELSE Return(j, "undo")]
  /\ UNCHANGED <<day, reached, used, dumps, madeOn, locked, attempts, stops, finished,
                 asked, disturbed>>

-----------------------------------------------------------------------------
(* Failures, crashes, the time and the other operations of the app.         *)

\* A run that has begun its manifest, a deletion between its two files, or a result that is
\* being written.
CutOff(j) ==
  \/ job[j].own # 0 /\ job[j].pc \notin {"dump", "manifest"}
  \/ job[j].pc \in {"rmmanifest", "write"}

\* The database does not answer or the disk fails.
Fails(j) ==
  /\ job[j].pc \in {"dump", "manifest", "store", "list", "rmdump", "rmmanifest"}
  /\ job' = [job EXCEPT ![j] = Return(j, "undo")]
  /\ disturbed' = (disturbed \/ CutOff(j))
  /\ UNCHANGED <<day, reached, used, manifest, dumps, madeOn, locked, attempts, stops,
                 finished, asked>>

\* A verification that the disk fails: a run goes on without it.
VerifyFails(j) ==
  /\ job[j].pc \in {"test", "save", "write"}
  /\ job' = [job EXCEPT ![j] = Return(j, "list")]
  /\ disturbed' = (disturbed \/ job[j].pc = "write")
  /\ UNCHANGED <<day, reached, used, manifest, dumps, madeOn, locked, attempts, stops,
                 finished, asked>>

Crash ==
  /\ stops < MaxStops
  /\ stops' = stops + 1
  /\ locked' = Free
  /\ attempts' = [slot |-> 0, count |-> 0]
  /\ job' = [j \in Jobs |-> Idle]
  /\ disturbed' = (disturbed \/ \E j \in Jobs : CutOff(j))
  /\ UNCHANGED <<day, reached, used, manifest, dumps, madeOn, finished, asked>>

SlotComes ==
  /\ ~reached
  /\ reached' = TRUE
  /\ UNCHANGED <<day, used, manifest, dumps, madeOn, locked, attempts, job, stops, finished,
                 asked, disturbed>>

NextDay ==
  /\ day < MaxDays /\ reached
  /\ day' = day + 1
  /\ reached' = FALSE
  /\ UNCHANGED <<used, manifest, dumps, madeOn, locked, attempts, job, stops, finished,
                 asked, disturbed>>

\* A deployment, a restore or another operation of the app.
OtherLocks ==
  /\ locked = Free
  /\ locked' = Other
  /\ UNCHANGED <<day, reached, used, manifest, dumps, madeOn, attempts, job, stops, finished,
                 asked, disturbed>>

OtherUnlocks ==
  /\ locked = Other
  /\ locked' = Free
  /\ UNCHANGED <<day, reached, used, manifest, dumps, madeOn, attempts, job, stops, finished,
                 asked, disturbed>>

-----------------------------------------------------------------------------
BackupInit ==
  /\ day = 1 /\ reached = FALSE /\ used = 0
  /\ manifest = [b \in Backups |-> "none"] /\ dumps = {}
  /\ madeOn = [b \in Backups |-> 0]
  /\ locked = Free /\ attempts = [slot |-> 0, count |-> 0]
  /\ job = [j \in Jobs |-> Idle] /\ stops = 0
  /\ finished = 0 /\ asked = 0 /\ disturbed = FALSE

\* What a job that has begun does next.
JobStep(j) ==
  \/ Dump(j) \/ StoreBackup(j) \/ WriteManifest(j)
  \/ ApplyRetention(j) \/ Prune(j) \/ FinishBackup(j) \/ Undo(j)
  \/ ReadEntry(j) \/ SaveResult(j) \/ WriteResult(j)
  \/ RemoveDump(j) \/ RemoveManifest(j)

BackupNext ==
  \/ RoundDue \/ RoundVerify \/ RoundStops \/ RoundAgain \/ LockBusy
  \/ \E j \in Jobs :
       \/ Lock(j) \/ JobStep(j) \/ Fails(j) \/ VerifyFails(j)
       \/ \E b \in Backups : StartDelete(j, b) \/ StartVerify(j, b)
  \/ Crash \/ SlotComes \/ NextDay \/ OtherLocks \/ OtherUnlocks

\* The scheduler has a round every SCHEDULER_ROUND, and what has begun goes on: the
\* commands in the container and the uploads have timeouts.
BackupFairness ==
  /\ WF_backupVars(RoundDue) /\ WF_backupVars(RoundAgain)
  /\ WF_backupVars(Lock(Scheduler) \/ LockBusy)
  /\ \A j \in Jobs : WF_backupVars(JobStep(j))

BackupSpec == BackupInit /\ [][BackupNext]_backupVars /\ BackupFairness

-----------------------------------------------------------------------------
BackupTypeOK ==
  /\ day \in 0..MaxDays /\ reached \in BOOLEAN /\ used \in 0..MaxBackups
  /\ manifest \in [Backups -> {"none", "torn", "untested", "tested"}]
  /\ dumps \subseteq Backups /\ madeOn \in [Backups -> 0..MaxDays]
  /\ locked \in Jobs \union {Free, Other}
  /\ attempts \in [slot : 0..MaxDays, count : 0..MaxRetries]
  /\ job \in [Jobs -> [pc : JobPcs, own : 0..MaxBackups, b : 0..MaxBackups,
                       todo : SUBSET Backups, slot : 0..MaxDays]]
  /\ stops \in 0..MaxStops /\ disturbed \in BOOLEAN
  /\ finished \in 0..MaxBackups /\ asked \in 0..MaxDeletes

\* A backup that has a manifest can be restored: its dump is there, except while it is
\* deleted, as long as no two operations met on one backup and none was cut off between
\* the files.
ListedHasDump ==
  ~disturbed => \A b \in Manifests : b \in dumps \/ Deleting(b)

\* And its manifest can be read, except at the moment when it is written.
ManifestsWhole ==
  ~disturbed => \A b \in Manifests : b \in Listed \/ Writing(b)

\* Once no run holds the lock, at most Keep backups are left, of requests and of the
\* schedule together, as long as none was cut off.
RetentionHolds ==
  locked \notin Jobs /\ ~disturbed => Cardinality(Manifests) <= Keep

\* The retention takes the oldest and never too many: of the runs that ended well as many
\* backups as Keep says have both files at any time, less those that requests delete.
Survivors ==
  ~disturbed => Cardinality(Manifests \cap dumps) + asked >= Min({Keep, finished})

\* The files of the backups as a whole: what has a manifest can be listed and restored, and
\* the retention leaves as many as it should.
BackupsKept ==
  BackupTypeOK /\ ListedHasDump /\ ManifestsWhole /\ RetentionHolds /\ Survivors

\* The documentation: a failed upload matters little, because the local copy exists.
LocalCopyExists ==
  \A b \in Manifests : b \in Listed \cap dumps \/ Writing(b) \/ Deleting(b)

\* A slot gets its backup, or its retries are used up, or the day ends first, unless rounds
\* end at another database again and again.
SlotSettled ==
  <>[](job[Scheduler].pc # "barred") =>
    \A d \in 1..MaxDays :
      (day = d /\ reached) ~>
        (day # d \/ Covered \/ ~IsBackupDue \/ used = MaxBackups)
=============================================================================
