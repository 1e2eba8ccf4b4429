----------------------------- MODULE AgentLink -----------------------------
(***************************************************************************)
(* The sessions of the agents of one target.  Source: r3v3rs3/src/agent/   *)
(* listener.rs, registry.rs and client.rs, and the enrollment and deletion *)
(* of a target in platform/agents.rs.                                      *)
(*                                                                         *)
(* Every connection is a task of the master.  An agent that loses its      *)
(* connection opens the next one while the master may not know yet, so the *)
(* tasks of several connections of one target run beside each other and    *)
(* beside a new enrollment.                                                *)
(***************************************************************************)
EXTENDS Naturals

CONSTANTS
  MaxConns,  \* bound on the connections
  MaxCerts   \* bound on the enrollments

Conns == 1..MaxConns
Certs == 1..MaxCerts

ASSUME AgentAssumption == MaxConns \in Nat \ {0} /\ MaxCerts \in Nat \ {0}

Nobody == 0

VARIABLES
  enrolled,    \* the certificate that the target has, 0 for a deleted target
  issued,      \* how many certificates were issued
  cutting,     \* an enrollment or deletion is stored and has not yet disconnected
  registry,    \* the connection that is the session of the target, or Nobody
  conn,        \* [Conns -> the task of the connection]
  told,        \* the last notification of the target
  wasCut,      \* history: disconnect has removed a session since the last insert
  crossed      \* history: a session came or went while a notice of another was on its way

agentVars == <<enrolled, issued, cutting, registry, conn, told, wasCut, crossed>>

\* "new": not accepted yet; "lookup", "ping", "check" and "insert": before the session;
\* "online", "upgrade", "beat", "remove" and "offline": the session and its end.
ConnPcs == {"new", "lookup", "ping", "check", "insert", "online", "upgrade", "beat",
            "remove", "offline", "over"}
\* "gone": the agent is away and the master does not know; "closed": the master's end is
\* closed or its task aborted.
LinkStates == {"open", "gone", "closed"}

Notifying == {c \in Conns : conn[c].pc \in {"online", "offline"}}
InSession == {c \in Conns : conn[c].pc \in {"online", "upgrade", "beat"}}

ConnAt(c, pc) == conn' = [conn EXCEPT ![c].pc = pc]
End(c)        == conn' = [conn EXCEPT ![c].pc = "over", ![c].link = "closed"]
Close(f, c)   == IF c = Nobody THEN f ELSE [f EXCEPT ![c].link = "closed"]

-----------------------------------------------------------------------------
(* The agents.                                                              *)

\* AgentClient::run: an agent holds one connection, and opens the next one after it.
Connect(c, k) ==
  /\ conn[c].pc = "new" /\ \A d \in Conns : d < c => conn[d].pc # "new"
  /\ k \in 1..issued
  /\ \A d \in Conns : conn[d].cert = k => conn[d].link # "open"
  /\ conn' = [conn EXCEPT ![c] = [@ EXCEPT !.pc = "lookup", !.cert = k, !.link = "open"]]
  /\ UNCHANGED <<enrolled, issued, cutting, registry, told, wasCut, crossed>>

\* The network, the host or the agent fails, or the agent gives up an idle connection.
LinkDies(c) ==
  /\ conn[c].link = "open"
  /\ conn' = [conn EXCEPT ![c].link = "gone"]
  /\ UNCHANGED <<enrolled, issued, cutting, registry, told, wasCut, crossed>>

-----------------------------------------------------------------------------
(* The task of a connection: AgentListener::session.                        *)

\* target_of, before the first ping.
LookUp(c) ==
  /\ conn[c].pc = "lookup"
  /\ IF conn[c].cert = enrolled THEN ConnAt(c, "ping") ELSE End(c)
  /\ UNCHANGED <<enrolled, issued, cutting, registry, told, wasCut, crossed>>

FirstPing(c) ==
  /\ conn[c].pc = "ping" /\ conn[c].link = "open"
  /\ ConnAt(c, "check")
  /\ UNCHANGED <<enrolled, issued, cutting, registry, told, wasCut, crossed>>

\* No answer within ping_timeout.
FirstPingFails(c) ==
  /\ conn[c].pc = "ping"
  /\ End(c)
  /\ UNCHANGED <<enrolled, issued, cutting, registry, told, wasCut, crossed>>

SkipCheck(c) ==
  /\ conn[c].pc = "check"
  /\ ConnAt(c, "insert")
  /\ UNCHANGED <<enrolled, issued, cutting, registry, told, wasCut, crossed>>

\* target_of again: the target may have changed during the ping.
CheckAgain(c) ==
  /\ conn[c].pc = "check"
  /\ IF conn[c].cert = enrolled THEN ConnAt(c, "insert") ELSE End(c)
  /\ UNCHANGED <<enrolled, issued, cutting, registry, told, wasCut, crossed>>

InsertBeside(c) ==
  /\ conn[c].pc = "insert"
  /\ registry' = c
  /\ conn' = [conn EXCEPT ![c].pc = IF registry = Nobody THEN "online" ELSE "beat"]
  /\ wasCut' = FALSE
  /\ crossed' = (crossed \/ Notifying # {})
  /\ UNCHANGED <<enrolled, issued, cutting, told>>

\* AgentRegistry::insert: the previous session is closed, and only a session that
\* replaces none is reported.
Insert(c) ==
  /\ conn[c].pc = "insert"
  /\ registry' = c
  /\ conn' = [Close(conn, registry) EXCEPT
       ![c].pc = IF registry = Nobody THEN "online" ELSE "beat"]
  /\ wasCut' = FALSE
  /\ crossed' = (crossed \/ Notifying # {})
  /\ UNCHANGED <<enrolled, issued, cutting, told>>

\* directory.online: the notice, and auto_upgrade of an agent of another version.
Online(c) ==
  /\ conn[c].pc = "online"
  /\ told' = "online"
  /\ ConnAt(c, "beat") \/ ConnAt(c, "upgrade")
  /\ UNCHANGED <<enrolled, issued, cutting, registry, wasCut, crossed>>

\* The agent has answered the upgrade, or its link is closed.  The request has no
\* timeout, and the first ping of heartbeat comes after it.
Upgraded(c) ==
  /\ conn[c].pc = "upgrade"
  /\ ConnAt(c, "beat")
  /\ UNCHANGED <<enrolled, issued, cutting, registry, told, wasCut, crossed>>

BeatFailsClosed(c) ==
  /\ conn[c].pc = "beat" /\ conn[c].link = "closed"
  /\ ConnAt(c, "remove")
  /\ UNCHANGED <<enrolled, issued, cutting, registry, told, wasCut, crossed>>

\* A ping of heartbeat has no answer within ping_timeout, also from an agent that is slow.
BeatFails(c) ==
  /\ conn[c].pc = "beat"
  /\ ConnAt(c, "remove")
  /\ UNCHANGED <<enrolled, issued, cutting, registry, told, wasCut, crossed>>

RemoveAny(c) ==
  /\ conn[c].pc = "remove"
  /\ registry' = Nobody
  /\ conn' = [Close(conn, registry) EXCEPT ![c].pc = "offline"]
  /\ crossed' = (crossed \/ (registry = c /\ Notifying # {}))
  /\ UNCHANGED <<enrolled, issued, cutting, told, wasCut>>

RemoveSilently(c) ==
  /\ conn[c].pc = "remove"
  /\ registry' = IF registry = c THEN Nobody ELSE registry
  /\ conn' = [conn EXCEPT ![c].pc = "over", ![c].link = "closed"]
  /\ UNCHANGED <<enrolled, issued, cutting, told, wasCut, crossed>>

\* AgentRegistry::remove: a later session of the target stays, and then the task
\* reports nothing.
Remove(c) ==
  /\ conn[c].pc = "remove"
  /\ registry' = IF registry = c THEN Nobody ELSE registry
  /\ conn' = [conn EXCEPT ![c].pc = IF registry = c THEN "offline" ELSE "over",
                          ![c].link = "closed"]
  /\ crossed' = (crossed \/ (registry = c /\ Notifying # {}))
  /\ UNCHANGED <<enrolled, issued, cutting, told, wasCut>>

Offline(c) ==
  /\ conn[c].pc = "offline"
  /\ told' = "offline"
  /\ End(c)
  /\ UNCHANGED <<enrolled, issued, cutting, registry, wasCut, crossed>>

-----------------------------------------------------------------------------
(* The target.                                                              *)

\* A connection that has passed the check keeps its way into the registry.
LateConns == [c \in Conns |-> [conn[c] EXCEPT !.late = @ \/ conn[c].pc = "insert"]]

EnrollNext ==
  /\ enrolled # 0 /\ ~cutting /\ issued < MaxCerts
  /\ issued' = issued + 1
  /\ enrolled' = issued + 2
  /\ cutting' = TRUE
  /\ conn' = LateConns
  /\ UNCHANGED <<registry, told, wasCut, crossed>>

\* enroll stores the new certificate.
Enroll ==
  /\ enrolled # 0 /\ ~cutting /\ issued < MaxCerts
  /\ issued' = issued + 1
  /\ enrolled' = issued + 1
  /\ cutting' = TRUE
  /\ conn' = LateConns
  /\ UNCHANGED <<registry, told, wasCut, crossed>>

\* delete_target deletes the row.
DeleteTarget ==
  /\ enrolled # 0 /\ ~cutting
  /\ enrolled' = 0
  /\ cutting' = TRUE
  /\ conn' = LateConns
  /\ UNCHANGED <<issued, registry, told, wasCut, crossed>>

\* The end of both: AgentRegistry::disconnect, without a notice.
Disconnect ==
  /\ cutting
  /\ cutting' = FALSE
  /\ registry' = Nobody
  /\ conn' = Close(conn, registry)
  /\ wasCut' = (wasCut \/ registry # Nobody)
  /\ crossed' = (crossed \/ (registry # Nobody /\ Notifying # {}))
  /\ UNCHANGED <<enrolled, issued, told>>

-----------------------------------------------------------------------------
AgentInit ==
  /\ enrolled = 1 /\ issued = 1 /\ cutting = FALSE
  /\ registry = Nobody /\ told = "offline" /\ wasCut = FALSE /\ crossed = FALSE
  /\ conn = [c \in Conns |-> [pc |-> "new", cert |-> 0, link |-> "closed", late |-> FALSE]]

SessionStep(c) ==
  \/ LookUp(c) \/ FirstPing(c) \/ FirstPingFails(c) \/ CheckAgain(c) \/ Insert(c)
  \/ Online(c) \/ Remove(c) \/ Offline(c)
  \/ (conn[c].link # "open" /\ BeatFails(c))

AgentNext ==
  \/ \E c \in Conns : SessionStep(c) \/ Upgraded(c) \/ BeatFails(c) \/ LinkDies(c)
  \/ \E c \in Conns, k \in Certs : Connect(c, k)
  \/ Enroll \/ DeleteTarget \/ Disconnect

\* The task of a connection goes on: a ping is answered or its timeout passes.  An
\* upgrade need not end: the agent may never answer it.
AgentFairness == \A c \in Conns : WF_agentVars(SessionStep(c))

AgentSpec == AgentInit /\ [][AgentNext]_agentVars /\ AgentFairness

-----------------------------------------------------------------------------
AgentTypeOK ==
  /\ enrolled \in 0..MaxCerts /\ issued \in Certs /\ cutting \in BOOLEAN
  /\ registry \in Conns \union {Nobody}
  /\ conn \in [Conns -> [pc : ConnPcs, cert : 0..MaxCerts, link : LinkStates,
                         late : BOOLEAN]]
  /\ told \in {"online", "offline"} /\ wasCut \in BOOLEAN /\ crossed \in BOOLEAN

\* An agent that the master serves is the one in the registry: a connection that was
\* replaced, removed or cut off is closed, so a request reaches one agent of the target.
OneLink == \A c \in InSession : conn[c].link = "open" => registry = c

\* The session of a target has the certificate of its last enrollment.  The exception is
\* a connection that had passed the second check when the certificate changed.
CurrentCertificate ==
  registry # Nobody /\ ~cutting =>
    conn[registry].cert = enrolled \/ conn[registry].late

\* When no notice is on its way, the last one is true: a registered target was reported
\* online, and one without a session offline, unless the session was cut off, which
\* reports nothing.  Notices of two sessions that cross may arrive in the wrong order.
NoticeTrue ==
  Notifying = {} /\ ~crossed =>
    /\ registry # Nobody => told = "online"
    /\ registry = Nobody => told = "offline" \/ wasCut

\* The registry, the sessions, the certificate and the notices of a target agree.
SessionsAgree == AgentTypeOK /\ OneLink /\ CurrentCertificate /\ NoticeTrue

\* The comment of AgentDirectory::offline: the session ended, and no later session
\* replaced it.
OfflineIsLast ==
  [][told' = "offline" /\ told = "online" => registry = Nobody]_agentVars

\* A session whose agent is gone leaves the registry, since every ping has a timeout,
\* unless the master waits for the answer to an upgrade, which has none.
DeadLeaves ==
  \A c \in Conns :
    (registry = c /\ conn[c].link # "open") ~> (registry # c \/ conn[c].pc = "upgrade")
=============================================================================
