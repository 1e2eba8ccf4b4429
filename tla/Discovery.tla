----------------------------- MODULE Discovery -----------------------------
(***************************************************************************)
(* Service discovery by one provider: the task that reads the resources    *)
(* and follows their changes, and the server that builds proxies from its  *)
(* snapshots.  Source: r3v3rs3/src/server/discovery.rs, the discovery      *)
(* parts of server/state.rs, and run and Reporter of discovery/mod.rs with *)
(* the two providers, docker.rs and etcd.rs.                               *)
(*                                                                         *)
(* A change of the settings stops the task and starts one of the next      *)
(* generation.  The stop is an abort, which a task that runs on another    *)
(* thread may only notice after it has sent one more snapshot.             *)
(***************************************************************************)
EXTENDS Naturals, Sequences

CONSTANTS
  Follows,       \* how the provider follows: "docker" or "etcd"
  MaxRevision,   \* bound on the changes of the resources
  MaxGeneration, \* bound on the tasks that are started
  MaxErrors,     \* bound on the reads that fail
  ChannelCap     \* the capacity of the command channel

Generations == 1..MaxGeneration
Revisions   == 0..MaxRevision

ASSUME DiscoveryAssumption ==
  /\ Follows \subseteq {"docker", "etcd"}
  /\ MaxRevision \in Nat /\ MaxGeneration \in Nat /\ MaxErrors \in Nat
  /\ ChannelCap \in Nat \ {0}

VARIABLES
  follows,     \* which provider it is
  revision,    \* of the resources of the provider
  setting,     \* of the provider: "off", "on", or "bad" if it has no API client
  generation,  \* DiscoveryTasks::generation
  running,     \* the task of the provider has a handle
  watch,       \* [Generations -> the task]
  snapshots,   \* the SetDiscovery commands in the channel
  record,      \* the ProviderRecord: the revision of the proxies and who sent it
  errors       \* how many reads failed

discoveryVars == <<follows, revision, setting, generation, running, watch, snapshots,
                   record, errors>>

\* "hello" and "failed": about to send a snapshot without proxies.
WatchPcs == {"none", "hello", "open", "read", "report", "wait", "failed", "backoff"}
NoTask   == [pc |-> "none", read |-> 0]

\* A snapshot: full says that it has proxies, of the resources at revision read.
Snapshot(g, full, read) == [gen |-> g, full |-> full, read |-> read]
Snapshots == [gen : Generations, full : BOOLEAN, read : Revisions]

\* gen 0: the record is of set_discovery_error or not there.
NoRecord == [there |-> FALSE, gen |-> 0, read |-> 0, proxies |-> FALSE]

WatchAt(g, pc) == watch' = [watch EXCEPT ![g].pc = pc]

-----------------------------------------------------------------------------
(* The task of a provider.                                                  *)

Report(g, full, pc) ==
  /\ Len(snapshots) < ChannelCap
  /\ snapshots' = Append(snapshots, Snapshot(g, full, watch[g].read))
  /\ WatchAt(g, pc)
  /\ UNCHANGED <<follows, revision, setting, generation, running, record, errors>>

Hello(g) == watch[g].pc = "hello" /\ Report(g, FALSE, "open")

\* The event stream or the login.
OpenStream(g) ==
  /\ watch[g].pc = "open"
  /\ WatchAt(g, "read")
  /\ UNCHANGED <<follows, revision, setting, generation, running, snapshots, record, errors>>

ReadNext(g) ==
  /\ watch[g].pc = "read"
  /\ watch' = [watch EXCEPT ![g] = [pc |-> "report", read |-> revision + 1]]
  /\ UNCHANGED <<follows, revision, setting, generation, running, snapshots, record, errors>>

ReadAll(g) ==
  /\ watch[g].pc = "read"
  /\ watch' = [watch EXCEPT ![g] = [pc |-> "report", read |-> revision]]
  /\ UNCHANGED <<follows, revision, setting, generation, running, snapshots, record, errors>>

ReportAll(g) == watch[g].pc = "report" /\ Report(g, TRUE, "wait")

ChangedMissed(g) ==
  /\ watch[g].pc = "wait"
  /\ follows = "docker"
  /\ WatchAt(g, "read")
  /\ UNCHANGED <<follows, revision, setting, generation, running, snapshots, record, errors>>

\* Docker: an event comes, or RESYNC_INTERVAL has passed.  Etcd: a change after the
\* revision of the read.
Changed(g) ==
  /\ watch[g].pc = "wait"
  /\ follows = "docker" \/ revision > watch[g].read
  /\ WatchAt(g, "read")
  /\ UNCHANGED <<follows, revision, setting, generation, running, snapshots, record, errors>>

\* The stream, the read or the wait fails; run reports it and tries again.
WatchFails(g) ==
  /\ watch[g].pc \in {"open", "read", "wait"} /\ errors < MaxErrors
  /\ errors' = errors + 1
  /\ WatchAt(g, "failed")
  /\ UNCHANGED <<follows, revision, setting, generation, running, snapshots, record>>

ReportFailure(g) == watch[g].pc = "failed" /\ Report(g, FALSE, "backoff")

BackoffPasses(g) ==
  /\ watch[g].pc = "backoff"
  /\ WatchAt(g, "open")
  /\ UNCHANGED <<follows, revision, setting, generation, running, snapshots, record, errors>>

\* The abort of a stopped task takes effect.
Aborted(g) ==
  /\ watch[g].pc # "none" /\ ~(running /\ g = generation)
  /\ watch' = [watch EXCEPT ![g] = NoTask]
  /\ UNCHANGED <<follows, revision, setting, generation, running, snapshots, record, errors>>

-----------------------------------------------------------------------------
(* The server.                                                              *)

\* restart_discovery with the new settings: the task is stopped and its proxies are
\* removed; an enabled provider gets a task, or an error if it has no API client.
RestartDiscovery(s) ==
  /\ setting' = s
  /\ IF s = "on"
     THEN /\ generation < MaxGeneration
          /\ generation' = generation + 1
          /\ running' = TRUE
          /\ watch' = [watch EXCEPT ![generation + 1] = [NoTask EXCEPT !.pc = "hello"]]
     ELSE /\ running' = FALSE
          /\ UNCHANGED <<generation, watch>>
  /\ record' = [NoRecord EXCEPT !.there = (s = "bad")]
  /\ UNCHANGED <<follows, revision, snapshots, errors>>

AcceptsAny(s) == TRUE

\* DiscoveryTasks::accepts: a provider that was never started accepts everything.
Accepts(s) == generation = 0 \/ (running /\ s.gen = generation)

\* DiscoveryRegistry::update: a snapshot without proxies keeps those of the last read.
Update(s) ==
  IF s.full THEN [there |-> TRUE, gen |-> s.gen, read |-> s.read, proxies |-> TRUE]
  ELSE [record EXCEPT !.there = TRUE, !.gen = s.gen]

\* set_discovery.
SetDiscovery ==
  /\ snapshots # <<>>
  /\ snapshots' = Tail(snapshots)
  /\ record' = IF Accepts(Head(snapshots)) THEN Update(Head(snapshots)) ELSE record
  /\ UNCHANGED <<follows, revision, setting, generation, running, watch, errors>>

\* The resources change.
ResourcesChange ==
  /\ revision < MaxRevision
  /\ revision' = revision + 1
  /\ UNCHANGED <<follows, setting, generation, running, watch, snapshots, record, errors>>

-----------------------------------------------------------------------------
DiscoveryInit ==
  /\ follows \in Follows
  /\ revision = 0 /\ setting = "off" /\ generation = 0 /\ running = FALSE
  /\ watch = [g \in Generations |-> NoTask]
  /\ snapshots = <<>> /\ record = NoRecord /\ errors = 0

WatchStep(g) ==
  \/ Hello(g) \/ OpenStream(g) \/ ReadAll(g) \/ ReportAll(g) \/ Changed(g)
  \/ ReportFailure(g) \/ BackoffPasses(g)

DiscoveryNext ==
  \/ \E g \in Generations : WatchStep(g) \/ WatchFails(g) \/ Aborted(g)
  \/ \E s \in {"off", "on", "bad"} : RestartDiscovery(s)
  \/ SetDiscovery \/ ResourcesChange

\* The tasks of the runtime and the loop run on, and an abort takes effect.
DiscoveryFairness ==
  /\ WF_discoveryVars(SetDiscovery)
  /\ \A g \in Generations :
       /\ WF_discoveryVars(running /\ g = generation /\ WatchStep(g))
       /\ WF_discoveryVars(Aborted(g))

DiscoverySpec == DiscoveryInit /\ [][DiscoveryNext]_discoveryVars /\ DiscoveryFairness

-----------------------------------------------------------------------------
DiscoveryTypeOK ==
  /\ follows \in Follows /\ revision \in Revisions /\ setting \in {"off", "on", "bad"}
  /\ generation \in 0..MaxGeneration /\ running \in BOOLEAN
  /\ watch \in [Generations -> [pc : WatchPcs, read : Revisions]]
  /\ snapshots \in Seq(Snapshots)
  /\ record \in [there : BOOLEAN, gen : 0..MaxGeneration, read : Revisions,
                 proxies : BOOLEAN]
  /\ errors \in 0..MaxErrors

\* The discovered proxies are of the running task: no snapshot that a stopped task had
\* sent, or sends after its stop, brings back proxies of the old settings, and a provider
\* that is off has none.
ProxiesOfRunning ==
  record.proxies => setting = "on" /\ running /\ record.gen = generation

\* What the server has of a provider is well formed and current.
DiscoveryCurrent == DiscoveryTypeOK /\ ProxiesOfRunning

\* The proxies of a provider that is on come to follow every change of its resources.
ProxiesFollow ==
  \A r \in Revisions :
    (running /\ revision = r) ~>
      (~running \/ revision # r \/ (record.proxies /\ record.read = r))
=============================================================================
