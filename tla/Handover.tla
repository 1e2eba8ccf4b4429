------------------------------ MODULE Handover ------------------------------
(***************************************************************************)
(* The listening sockets of the server through port changes and            *)
(* zero-downtime upgrades.  Source: r3v3rs3/src/server/upgrade.rs, main.rs *)
(* (prepare, start, serve_admin), the listener pool of server/tcp.rs and   *)
(* its callers in server/state.rs, without worker mode.                    *)
(*                                                                         *)
(* A kernel socket stays open while any process has a descriptor of it: in *)
(* its pool, in the manifest of its next upgrade, or inherited and not     *)
(* adopted yet.  A listening TCP socket has SO_REUSEADDR, which does not   *)
(* allow a second listener: an open address cannot be bound again.         *)
(***************************************************************************)
EXTENDS Naturals

CONSTANTS
  Addrs,        \* the listen addresses
  Start,        \* the active ports of the first process
  MaxUpgrades,  \* bound on the processes that upgrades start
  MaxEdits,     \* bound on the port changes
  BusCap,       \* the capacity of the broadcast channel of the server events
  Burst,        \* the events of one handler: the proxy list and each proxy
  MaxBursts     \* bound on the handlers that run after the shutdown event

\* The processes, in the order in which they start.
Procs == 0..MaxUpgrades

ASSUME HandoverAssumption ==
  /\ Start \subseteq Addrs
  /\ MaxUpgrades \in Nat /\ MaxEdits \in Nat
  /\ BusCap \in Nat \ {0} /\ Burst \in Nat /\ MaxBursts \in Nat

VARIABLES
  conf,      \* the active ports of the storage
  phase,     \* [Procs -> Phases]
  heir,      \* [Procs -> Procs], the process that p last started, or p
  known,     \* [Procs -> SUBSET Addrs], the active ports in memory
  pool,      \* [Procs -> SUBSET Addrs], the listener pools
  manifest,  \* [Procs -> SUBSET Addrs], the duplicates for the next upgrade
  inherit,   \* [Procs -> SUBSET Addrs], descriptors received and not adopted
  edits,     \* the port changes so far
  bursts,    \* [Procs -> Nat], the handlers that ran after the shutdown event
  kept       \* history: the ports that were active from the start

vars == <<conf, phase, heir, known, pool, manifest, inherit, edits, bursts, kept>>

\* boot: before the ready byte; ready: after it; passed: the descriptors are on
\* the way; serve, wait, sent: serves (wait: for the new process, sent: handed
\* over); leave: the shutdown event is sent; gone: drained and ended.
Phases  == {"none", "boot", "ready", "passed", "serve", "wait", "sent", "leave", "gone"}
Serving == {"serve", "wait", "sent"}

Open(a) == \E p \in Procs : a \in pool[p] \cup manifest[p] \cup inherit[p]

\* update of the pools: a listener of the pool is kept, another address is bound.
Listening(had, S) == {a \in S : a \in had \/ ~Open(a)}

-----------------------------------------------------------------------------
(* The process that serves.                                                 *)

\* A port is added, removed or toggled: saved, then sync_port_pools.
SetPorts(p, a) ==
  LET S == IF a \in known[p] THEN known[p] \ {a} ELSE known[p] \cup {a} IN
  /\ phase[p] \in Serving /\ edits < MaxEdits
  /\ edits' = edits + 1
  /\ conf' = S
  /\ known' = [known EXCEPT ![p] = S]
  /\ pool' = [pool EXCEPT ![p] = Listening(pool[p], S)]
  /\ kept' = kept \cap S
  /\ UNCHANGED <<phase, heir, manifest, inherit, bursts>>

\* hand_over: the new process is started and the old one waits for its answer.
Spawn(p, c) ==
  /\ phase[p] = "serve" /\ phase[c] = "none"
  /\ \A q \in Procs : q < c => phase[q] # "none"
  /\ phase' = [phase EXCEPT ![p] = "wait", ![c] = "boot"]
  /\ heir' = [heir EXCEPT ![p] = c]
  /\ UNCHANGED <<conf, known, pool, manifest, inherit, edits, bursts, kept>>

SendUnasked(p) ==
  LET c == heir[p] IN
  /\ phase[p] = "wait" /\ phase[c] \in {"boot", "ready"}
  /\ phase' = [phase EXCEPT ![p] = "sent"]
  /\ inherit' = [inherit EXCEPT ![c] = manifest[p]]
  /\ UNCHANGED <<conf, heir, known, pool, manifest, edits, bursts, kept>>

\* write_handover, once the ready byte is there.
Send(p) ==
  LET c == heir[p] IN
  /\ phase[p] = "wait" /\ phase[c] = "ready"
  /\ phase' = [phase EXCEPT ![p] = "sent", ![c] = "passed"]
  /\ inherit' = [inherit EXCEPT ![c] = manifest[p]]
  /\ UNCHANGED <<conf, heir, known, pool, manifest, edits, bursts, kept>>

\* The new process ended before its answer: try_hand_over returns to the loop.
Failed(p) ==
  /\ phase[p] = "wait" /\ phase[heir[p]] = "gone"
  /\ phase' = [phase EXCEPT ![p] = "serve"]
  /\ UNCHANGED <<conf, heir, known, pool, manifest, inherit, edits, bursts, kept>>

TimeoutWaits(p) ==
  /\ phase[p] = "wait" /\ phase[heir[p]] = "gone"
  /\ phase' = [phase EXCEPT ![p] = "serve"]
  /\ UNCHANGED <<conf, heir, known, pool, manifest, inherit, edits, bursts, kept>>

\* READY_TIMEOUT: the new process is killed and this one keeps serving.
Timeout(p) ==
  /\ phase[p] = "wait" /\ phase[heir[p]] \in {"boot", "ready"}
  /\ phase' = [phase EXCEPT ![p] = "serve", ![heir[p]] = "gone"]
  /\ UNCHANGED <<conf, heir, known, pool, manifest, inherit, edits, bursts, kept>>

\* serve_admin returns: its manifest is dropped and the shutdown is announced.
Leave(p) ==
  /\ phase[p] = "sent"
  /\ phase' = [phase EXCEPT ![p] = "leave"]
  /\ manifest' = [manifest EXCEPT ![p] = {}]
  /\ UNCHANGED <<conf, heir, known, pool, inherit, edits, bursts, kept>>

\* The loop of start_server takes its events, its commands and its connections in
\* any order, and it may be inside a handler.  The handler publishes its events.
Publish(p) ==
  /\ phase[p] = "leave" /\ bursts[p] < MaxBursts
  /\ bursts' = [bursts EXCEPT ![p] = @ + 1]
  /\ UNCHANGED <<conf, phase, heir, known, pool, manifest, inherit, edits, kept>>

\* The loop receives the shutdown event, unless newer events have pushed it out of
\* the channel.  drain: the pools are dropped, then the open connections end.
Drain(p) ==
  /\ phase[p] = "leave" /\ bursts[p] * Burst < BusCap
  /\ phase' = [phase EXCEPT ![p] = "gone"]
  /\ pool' = [pool EXCEPT ![p] = {}]
  /\ UNCHANGED <<conf, heir, known, manifest, inherit, edits, bursts, kept>>

-----------------------------------------------------------------------------
(* The new process.                                                         *)

\* prepare up to child_handover: the logs and the server config are read.
Announce(c) ==
  /\ phase[c] = "boot"
  /\ phase' = [phase EXCEPT ![c] = "ready"]
  /\ UNCHANGED <<conf, heir, known, pool, manifest, inherit, edits, bursts, kept>>

\* The new process fails before it has the descriptors.
Dies(c) ==
  /\ phase[c] \in {"boot", "ready"}
  /\ phase' = [phase EXCEPT ![c] = "gone"]
  /\ UNCHANGED <<conf, heir, known, pool, manifest, inherit, edits, bursts, kept>>

LoadForgets(c) ==
  LET now == Listening({}, conf) IN
  /\ phase[c] = "passed"
  /\ phase' = [phase EXCEPT ![c] = "serve"]
  /\ known' = [known EXCEPT ![c] = conf]
  /\ pool' = [pool EXCEPT ![c] = now]
  /\ manifest' = [manifest EXCEPT ![c] = now]
  /\ inherit' = [inherit EXCEPT ![c] = {}]
  /\ UNCHANGED <<conf, heir, edits, bursts, kept>>

\* new_server and start: the state is loaded, the descriptors are adopted, the
\* ports without one are bound, and the manifest is made, once for the process.
Load(c) ==
  LET now == Listening(inherit[c], conf) IN
  /\ phase[c] = "passed"
  /\ phase' = [phase EXCEPT ![c] = "serve"]
  /\ known' = [known EXCEPT ![c] = conf]
  /\ pool' = [pool EXCEPT ![c] = now]
  /\ manifest' = [manifest EXCEPT ![c] = now]
  /\ inherit' = [inherit EXCEPT ![c] = {}]
  /\ UNCHANGED <<conf, heir, edits, bursts, kept>>

\* The storage does not open, or the handshake has another protocol version.
LoadFails(c) ==
  /\ phase[c] = "passed"
  /\ phase' = [phase EXCEPT ![c] = "gone"]
  /\ inherit' = [inherit EXCEPT ![c] = {}]
  /\ UNCHANGED <<conf, heir, known, pool, manifest, edits, bursts, kept>>

-----------------------------------------------------------------------------
Init ==
  /\ conf = Start /\ kept = Start /\ edits = 0
  /\ bursts = [p \in Procs |-> 0]
  /\ phase = [p \in Procs |-> IF p = 0 THEN "serve" ELSE "none"]
  /\ heir = [p \in Procs |-> p]
  /\ known = [p \in Procs |-> IF p = 0 THEN Start ELSE {}]
  /\ pool = known /\ manifest = known
  /\ inherit = [p \in Procs |-> {}]

Step(p) ==
  \/ \E a \in Addrs : SetPorts(p, a)
  \/ \E c \in Procs : Spawn(p, c)
  \/ Send(p) \/ Failed(p) \/ Timeout(p) \/ Leave(p) \/ Publish(p) \/ Drain(p)
  \/ Announce(p) \/ Dies(p) \/ Load(p)

Next == \E p \in Procs : Step(p)

FaultyNext == Next \/ \E c \in Procs : LoadFails(c)

Spec       == Init /\ [][Next]_vars
FaultySpec == Init /\ [][FaultyNext]_vars

\* A process goes on with what it began, and the timeout of 60 seconds ends the
\* wait for a new process that hangs.  Nobody has to start an upgrade.
Fairness ==
  \A p \in Procs : /\ WF_vars(Failed(p) \/ Timeout(p) \/ Send(p))
                   /\ WF_vars(Leave(p) \/ Drain(p))
                   /\ WF_vars(Load(p))

FairSpec == Spec /\ Fairness

-----------------------------------------------------------------------------
TypeOK ==
  /\ conf \in SUBSET Addrs /\ kept \in SUBSET Addrs
  /\ phase \in [Procs -> Phases]
  /\ heir \in [Procs -> Procs]
  /\ known \in [Procs -> SUBSET Addrs]
  /\ pool \in [Procs -> SUBSET Addrs]
  /\ manifest \in [Procs -> SUBSET Addrs]
  /\ inherit \in [Procs -> SUBSET Addrs]
  /\ edits \in 0..MaxEdits
  /\ bursts \in [Procs -> 0..MaxBursts]

\* Zero downtime: the socket of a port that stays active is open at every moment
\* of every upgrade, so the kernel never refuses a client of it.
AlwaysOpen == \A a \in kept : Open(a)

\* A process that serves alone listens on each of its active ports.
AloneListens ==
  \A p \in Procs :
    phase[p] = "serve" /\ (\A q \in Procs \ {p} : phase[q] \in {"none", "gone"})
    => known[p] \subseteq pool[p]

\* The handover ends: the old process ends or serves again, the new one serves
\* or ends, whichever of them fails or hangs on the way.
HandoverEnds ==
  \A p \in Procs : phase[p] # "none" ~> phase[p] \in {"serve", "gone"}

\* AlwaysOpen is kept because somebody who has not handed over yet has every kept
\* port, in its pool and in its manifest, or among the descriptors on the way.
HeirInv ==
  /\ kept \subseteq conf
  /\ \E p \in Procs : phase[p] \in {"passed", "serve", "wait"}
  /\ \A p \in Procs :
       /\ phase[p] \in Serving =>
            kept \subseteq known[p] \cap pool[p] \cap manifest[p]
       /\ phase[p] = "passed" => kept \subseteq inherit[p]
=============================================================================
