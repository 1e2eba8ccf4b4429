----------------------------- MODULE Supervisor -----------------------------
(***************************************************************************)
(* Worker mode: the supervisor task of the master, the worker process that *)
(* serves the ports, and the channels between them.  Source:               *)
(* r3v3rs3/src/server/supervisor.rs, server/worker.rs and the worker       *)
(* commands of server/state.rs.                                            *)
(*                                                                         *)
(* The supervisor is one task: while it waits for room in a channel, no    *)
(* branch of its select! runs.  The writer thread and the socket of a      *)
(* session are one queue, and so are the socket of the answers, the reader *)
(* thread and the channel of the worker events.                            *)
(***************************************************************************)
EXTENDS Integers, Sequences, FiniteSets

CONSTANTS
  MaxWorkers,  \* bound on the processes that are started
  MaxCrashes,  \* bound on the processes that end by themselves
  MaxConf,     \* bound on the configuration changes
  IpcCap,      \* the capacity of the queue to the worker (16 and the socket)
  EventCap,    \* the capacity of the queue of the worker events
  MaxLate,     \* bound on the messages that wait when a heartbeat comes
  EarlyFails   \* the first start may fail

ASSUME SupervisorAssumption ==
  /\ MaxWorkers \in Nat \ {0} /\ MaxCrashes \in Nat /\ MaxConf \in Nat
  /\ IpcCap \in Nat \ {0} /\ EventCap \in Nat \ {0} /\ MaxLate \in Nat
  /\ EarlyFails \in BOOLEAN

VARIABLES
  conf,      \* the version of the configuration of the master
  bus,       \* the server events that the supervisor has not received
  pc,        \* where the loop of supervise is
  hold,      \* the message that the loop is about to send
  worker,    \* the worker of the loop, 0 for None
  started,   \* the processes that were started so far
  proc,      \* [1..MaxWorkers -> ProcStates]
  has,       \* [1..MaxWorkers -> Nat], the version that the process serves
  config,    \* the config channel: [own, buf]; own: config_tx leads to config_rx
  ipc,       \* the queue to the worker: [open, buf]
  events,    \* the queue of the worker events
  awaiting,  \* awaiting_status
  listed,    \* ServerState::worker_status: [pid, live]
  crashes

vars == <<conf, bus, pc, hold, worker, started, proc, has, config, ipc, events,
          awaiting, listed, crashes>>

Workers    == 1..MaxWorkers
ProcStates == {"none", "boot", "run", "hung", "dead"}
Alive      == {"boot", "run", "hung"}
\* A message, of the supervisor or of the worker: a configuration has its version,
\* a status the process that answers.
Message(kind, n) == [kind |-> kind, n |-> n]
Messages == [kind : {"none", "ping", "status", "config", "ready", "pong"}, n : Nat]
NoMessage == Message("none", 0)

\* The end of a branch of the select!: the loop starts a worker if it has none.
Loop(w) == pc' = IF w = 0 THEN "spawn" ELSE "select"

-----------------------------------------------------------------------------
(* The loop of supervise.                                                   *)

\* spawn_worker and start_worker: the worker gets the configuration that run read
\* once, and its session has a config channel that nobody reads.
StartWorker ==
  /\ pc = "spawn" /\ started < MaxWorkers
  /\ started' = started + 1
  /\ worker' = started + 1
  /\ proc' = [proc EXCEPT ![started + 1] = "boot"]
  /\ config' = [config EXCEPT !.own = FALSE]
  /\ ipc' = [open |-> TRUE, buf |-> <<>>]
  /\ pc' = "select"
  /\ UNCHANGED <<conf, bus, hold, has, events, awaiting, listed, crashes>>

\* The start fails before the worker has the listeners, and the backoff passes.
StartFails ==
  /\ pc = "spawn" /\ (EarlyFails \/ started > 0)
  /\ pc' = "select"
  /\ UNCHANGED <<conf, bus, hold, worker, started, proc, has, config, ipc,
                 events, awaiting, listed, crashes>>

\* stop_or_refresh: the snapshot of the configuration.
Refresh ==
  /\ pc = "select" /\ bus > 0
  /\ bus' = bus - 1
  /\ hold' = Message("config", conf)
  /\ pc' = "refresh"
  /\ UNCHANGED <<conf, worker, started, proc, has, config, ipc, events,
                 awaiting, listed, crashes>>

\* config_tx.send: without a reader it fails, and with a full buffer it waits for
\* the branch of this same loop that reads it.
SendConfig ==
  /\ pc = "refresh" /\ (config.own => config.buf = <<>>)
  /\ config' = IF config.own THEN [config EXCEPT !.buf = <<hold.n>>] ELSE config
  /\ hold' = NoMessage
  /\ Loop(worker)
  /\ UNCHANGED <<conf, bus, worker, started, proc, has, ipc, events, awaiting,
                 listed, crashes>>

\* config_rx.recv: the buffer of the first channel.  Once it is closed and empty,
\* the branch only repeats the loop.
Forward ==
  /\ pc = "select" /\ config.buf # <<>>
  /\ hold' = Message("config", Head(config.buf))
  /\ config' = [config EXCEPT !.buf = <<>>]
  /\ pc' = "send"
  /\ UNCHANGED <<conf, bus, worker, started, proc, has, ipc, events, awaiting,
                 listed, crashes>>

\* The heartbeats are 15 seconds apart: a worker that answers is not further behind
\* than MaxLate messages.  The commands to a worker that hangs pile up, and the loop
\* has long taken the answers from before.
OnTime ==
  /\ worker # 0 /\ proc[worker] \in {"boot", "run"} =>
       Len(ipc.buf) + Len(events) <= MaxLate
  /\ worker # 0 /\ proc[worker] = "hung" => events = <<>>

TickForgets ==
  /\ pc = "select" /\ OnTime
  /\ hold' = Message("status", worker)
  /\ pc' = "send"
  /\ UNCHANGED <<conf, bus, worker, started, proc, has, config, ipc, events,
                 awaiting, listed, crashes>>

TickImpatient ==
  /\ pc = "select" /\ OnTime
  /\ \/ /\ worker = 0
        /\ hold' = Message("ping", 0)
        /\ pc' = "send"
        /\ UNCHANGED <<worker, awaiting>>
     \/ /\ worker # 0 /\ (proc[worker] = "dead" \/ awaiting)
        /\ awaiting' = FALSE /\ worker' = 0
        /\ Loop(0)
        /\ UNCHANGED hold
     \/ /\ worker # 0 /\ proc[worker] # "dead" /\ ~awaiting
        /\ hold' = Message("status", worker)
        /\ pc' = "send"
        /\ UNCHANGED <<worker, awaiting>>
  /\ UNCHANGED <<conf, bus, started, proc, has, config, ipc, events, listed, crashes>>

\* heartbeat_tick and restart_dead_worker.
Tick ==
  /\ pc = "select" /\ OnTime
  /\ \/ /\ worker = 0
        /\ hold' = Message("ping", 0)
        /\ pc' = "send"
        /\ UNCHANGED <<worker, awaiting, listed>>
     \/ /\ worker # 0 /\ proc[worker] = "dead"
        /\ awaiting' = FALSE /\ worker' = 0
        /\ Loop(0)
        /\ UNCHANGED <<hold, listed>>
     \/ /\ worker # 0 /\ proc[worker] # "dead"
        /\ listed' = IF awaiting THEN [pid |-> worker, live |-> FALSE] ELSE listed
        /\ hold' = Message("status", worker)
        /\ pc' = "send"
        /\ UNCHANGED <<worker, awaiting>>
  /\ UNCHANGED <<conf, bus, started, proc, has, config, ipc, events, crashes>>

\* ipc_tx.send: it waits for room, and it fails when the writer has ended.
SendIpc ==
  /\ pc = "send" /\ (ipc.open => Len(ipc.buf) < IpcCap)
  /\ ipc' = IF ipc.open THEN [ipc EXCEPT !.buf = Append(@, hold)] ELSE ipc
  /\ awaiting' = IF hold.kind = "status" THEN ipc.open ELSE awaiting
  /\ hold' = NoMessage
  /\ Loop(worker)
  /\ UNCHANGED <<conf, bus, worker, started, proc, has, config, events, listed,
                 crashes>>

TakeEventUnlisted ==
  /\ pc = "select" /\ events # <<>>
  /\ events' = Tail(events)
  /\ bus' = IF Head(events).kind = "ready" THEN bus + 1 ELSE bus
  /\ awaiting' = IF Head(events).kind = "status" THEN FALSE ELSE awaiting
  /\ listed' = IF Head(events).kind = "status" /\ listed.pid = 0
                 THEN [pid |-> Head(events).n, live |-> TRUE] ELSE listed
  /\ Loop(worker)
  /\ UNCHANGED <<conf, hold, worker, started, proc, has, config, ipc, crashes>>

\* handle_worker_event.  No code sends WorkerEvent::Fatal.
TakeEvent ==
  LET e == Head(events) IN
  /\ pc = "select" /\ events # <<>>
  /\ events' = Tail(events)
  /\ bus' = IF e.kind = "ready" THEN bus + 1 ELSE bus
  /\ awaiting' = IF e.kind = "status" THEN FALSE ELSE awaiting
  /\ listed' = IF e.kind = "status" THEN [pid |-> e.n, live |-> TRUE] ELSE listed
  /\ Loop(worker)
  /\ UNCHANGED <<conf, hold, worker, started, proc, has, config, ipc, crashes>>

\* ServerEvent::Shutdown: supervise returns and KillOnDrop stops the worker.
Stop ==
  /\ pc = "select"
  /\ pc' = "ended"
  /\ proc' = IF worker = 0 THEN proc ELSE [proc EXCEPT ![worker] = "dead"]
  /\ worker' = 0
  /\ UNCHANGED <<conf, bus, hold, started, has, config, ipc, events, awaiting,
                 listed, crashes>>

-----------------------------------------------------------------------------
(* The worker process, the writer thread and the admin API.                 *)

Say(e) == Len(events) < EventCap /\ events' = Append(events, e)

\* The worker has adopted the listeners and announces its readiness.
Announce(k) ==
  /\ proc[k] = "boot"
  /\ proc' = [proc EXCEPT ![k] = "run"]
  /\ Say(Message("ready", k))
  /\ UNCHANGED <<conf, bus, pc, hold, worker, started, has, config, ipc,
                 awaiting, listed, crashes>>

\* serve_master: one command.
Answer(k) ==
  LET m == Head(ipc.buf) IN
  /\ proc[k] = "run" /\ k = worker /\ ipc.buf # <<>>
  /\ ipc' = [ipc EXCEPT !.buf = Tail(@)]
  /\ \/ m.kind = "config" /\ has' = [has EXCEPT ![k] = m.n] /\ UNCHANGED events
     \/ m.kind = "status" /\ Say(Message("status", k)) /\ UNCHANGED has
     \/ m.kind = "ping" /\ Say(Message("pong", k)) /\ UNCHANGED has
  /\ UNCHANGED <<conf, bus, pc, hold, worker, started, proc, config, awaiting,
                 listed, crashes>>

\* The worker ends: a crash, a failed handshake, or the heartbeat timeout.
Crash(k) ==
  /\ proc[k] \in Alive /\ crashes < MaxCrashes
  /\ crashes' = crashes + 1
  /\ proc' = [proc EXCEPT ![k] = "dead"]
  /\ UNCHANGED <<conf, bus, pc, hold, worker, started, has, config, ipc, events,
                 awaiting, listed>>

\* The worker stops answering.
Hang(k) ==
  /\ proc[k] = "run"
  /\ proc' = [proc EXCEPT ![k] = "hung"]
  /\ UNCHANGED <<conf, bus, pc, hold, worker, started, has, config, ipc, events,
                 awaiting, listed, crashes>>

\* spawn_writer: a write to the socket of a dead process fails.
WriterEnds ==
  /\ ipc.open /\ ipc.buf # <<>>
  /\ started > 0 /\ proc[started] = "dead"
  /\ ipc' = [open |-> FALSE, buf |-> <<>>]
  /\ UNCHANGED <<conf, bus, pc, hold, worker, started, proc, has, config, events,
                 awaiting, listed, crashes>>

\* A change of the configuration, which every change announces on the bus.
Configure ==
  /\ conf < MaxConf
  /\ conf' = conf + 1 /\ bus' = bus + 1
  /\ UNCHANGED <<pc, hold, worker, started, proc, has, config, ipc, events,
                 awaiting, listed, crashes>>

-----------------------------------------------------------------------------
\* run has read the configuration and suspended the listeners of the master.
Init ==
  /\ conf = 0 /\ bus = 0 /\ crashes = 0
  /\ pc = "spawn" /\ hold = NoMessage
  /\ worker = 0 /\ started = 0
  /\ proc = [k \in Workers |-> "none"]
  /\ has = [k \in Workers |-> 0]
  /\ config = [own |-> TRUE, buf |-> <<>>]
  /\ ipc = [open |-> TRUE, buf |-> <<>>]
  /\ events = <<>>
  /\ awaiting = FALSE
  /\ listed = [pid |-> 0, live |-> FALSE]

Next ==
  \/ StartWorker \/ StartFails \/ Refresh \/ SendConfig \/ Forward \/ Tick
  \/ SendIpc \/ TakeEvent \/ Stop
  \/ \E k \in Workers : Announce(k) \/ Answer(k) \/ Crash(k) \/ Hang(k)
  \/ WriterEnds \/ Configure

Spec == Init /\ [][Next]_vars

\* The random choice of select! takes a branch that is ready again and again, and
\* a process that is not hung goes on.  Nothing has to crash, hang or change.
Fairness ==
  /\ WF_vars(StartWorker \/ StartFails) /\ WF_vars(SendConfig) /\ WF_vars(SendIpc)
  /\ WF_vars(WriterEnds)
  /\ SF_vars(Refresh) /\ SF_vars(Forward) /\ SF_vars(Tick) /\ SF_vars(TakeEvent)
  /\ \A k \in Workers : WF_vars(Announce(k)) /\ WF_vars(Answer(k))

FairSpec == Spec /\ Fairness

\* The cause of the failed starts goes away some time.
StartsSpec == FairSpec /\ SF_vars(StartWorker)

-----------------------------------------------------------------------------
TypeOK ==
  /\ conf \in 0..MaxConf /\ bus \in Nat
  /\ pc \in {"spawn", "select", "refresh", "send", "ended"}
  /\ hold \in Messages
  /\ worker \in 0..MaxWorkers /\ started \in 0..MaxWorkers
  /\ proc \in [Workers -> ProcStates]
  /\ has \in [Workers -> Nat]
  /\ config \in [own : BOOLEAN, buf : Seq(Nat)]
  /\ ipc \in [open : BOOLEAN, buf : Seq(Messages)]
  /\ events \in Seq(Messages)
  /\ awaiting \in BOOLEAN
  /\ listed \in [pid : 0..MaxWorkers, live : BOOLEAN]
  /\ crashes \in 0..MaxCrashes

\* One process at a time has the listeners: a restart never leaves the old
\* worker behind, whether it died, hangs or answers late.
OneWorker ==
  /\ Cardinality({k \in Workers : proc[k] \in Alive}) <= 1
  /\ \A k \in Workers : proc[k] \in Alive => k = worker

Ended == pc = "ended"

\* A worker that died is replaced, unless the master shuts down.
WorkerReturns ==
  worker # 0 /\ proc[worker] = "dead"
    ~> Ended \/ (worker # 0 /\ proc[worker] \in Alive)

\* A worker that stopped answering is listed without a status, before the queue to
\* it is full and the loop waits for room in it.
HungReported ==
  \A k \in Workers : proc[k] = "hung" ~>
    \/ Ended \/ proc[k] = "dead"
    \/ listed = [pid |-> k, live |-> FALSE]

\* A worker that died does not stay listed with the status of a live one, not even
\* when an answer of it is taken after its successor started.
DeadUnlisted ==
  \A k \in Workers : proc[k] = "dead" ~>
    Ended \/ listed # [pid |-> k, live |-> TRUE]

\* A change of the configuration reaches the worker that serves the ports, unless
\* the worker hangs.
ConfigReaches ==
  \A v \in 0..MaxConf : conf = v ~>
    \/ Ended
    \/ worker # 0 /\ proc[worker] = "hung"
    \/ worker # 0 /\ proc[worker] = "run" /\ has[worker] >= v

\* After a failed start the loop tries again.
StartRetried ==
  pc = "select" /\ worker = 0 ~> pc \in {"spawn", "ended"}

\* The end of the supervisor leaves the worker running.
WorkerSurvives ==
  [][Ended' => proc' = proc]_vars
=============================================================================
