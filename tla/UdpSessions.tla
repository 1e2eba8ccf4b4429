---------------------------- MODULE UdpSessions ----------------------------
(***************************************************************************)
(* The sessions of a UDP port.  Source: r3v3rs3/src/proxy/udp.rs and       *)
(* handle_udp_packet of server/state.rs.                                   *)
(*                                                                         *)
(* Every packet of a client is a task with a copy of the port context: the *)
(* copy shares the table of the sessions and keeps the upstream settings   *)
(* that the port had when the packet came.  An edit of the port gives it   *)
(* another table, and the one before lives as long as a task has a copy of *)
(* it.  A packet without an open session opens one, so a session has the   *)
(* name of its packet.                                                     *)
(***************************************************************************)
EXTENDS Naturals, FiniteSets

CONSTANTS
  Peers,        \* the clients
  MaxPackets,   \* bound on the packets of the clients
  MaxSessions,  \* MAX_SESSIONS
  MaxSettings,  \* bound on the upstream settings of the port
  MaxEdits      \* bound on the edits of the port

ASSUME UdpAssumption ==
  /\ IsFiniteSet(Peers) /\ Peers # {}
  /\ MaxPackets \in Nat /\ MaxSessions \in Nat \ {0} /\ MaxSettings \in Nat \ {0}
  /\ MaxEdits \in Nat

Packets   == 1..MaxPackets
TableIds  == 0..MaxEdits
NoSession == 0

NoSessions == [c \in Peers |-> NoSession]

VARIABLES
  settings,  \* the upstream settings of the port, numbered
  port,      \* which table UdpPortContext::sessions of the port is
  table,     \* [TableIds -> [Peers -> Packets \union {NoSession}]]
  relay,     \* [Packets -> {"none", "run", "over"}], the reply task of the session
  packet,    \* [Packets -> the task of the packet]
  most       \* history: the most packets that were opening a session of a table at a time

udpVars == <<settings, port, table, relay, packet, most>>

\* late: history, the settings changed while the packet was looking for a session.
PacketPcs  == {"new", "look", "open", "connect", "insert", "send", "end", "sent"}
Uses(p, t) == packet[p].table = t /\ packet[p].pc \notin {"new", "sent"}
Opening(t) == {p \in Packets : packet[p].table = t /\ packet[p].pc \in {"connect", "insert"}}
Open(s)    == s # NoSession /\ relay[s] = "run"
Size(t)    == Cardinality({c \in Peers : table[t][c] # NoSession})

KeepRelays(S) == relay

\* UdpSession::drop: the reply tasks of the sessions are aborted.
Abort(S) == [p \in Packets |-> IF p \in S /\ relay[p] = "run" THEN "over" ELSE relay[p]]

PacketAt(p, pc) == packet' = [packet EXCEPT ![p].pc = pc]

-----------------------------------------------------------------------------
(* UdpPortContext::forward.                                                 *)

\* handle_udp_packet: the task has the settings of now.
Receive(p, c) ==
  /\ packet[p].pc = "new" /\ \A q \in Packets : q < p => packet[q].pc # "new"
  /\ packet' = [packet EXCEPT ![p] = [pc |-> "look", peer |-> c, settings |-> settings,
                                   table |-> port, late |-> FALSE]]
  /\ UNCHANGED <<settings, port, table, relay, most>>

Look(p) ==
  /\ packet[p].pc = "look"
  /\ PacketAt(p, IF Open(table[packet[p].table][packet[p].peer]) THEN "send" ELSE "open")
  /\ UNCHANGED <<settings, port, table, relay, most>>

\* The sessions of the table t that have not ended.
Kept(t) == [c \in Peers |-> IF Open(table[t][c]) THEN table[t][c] ELSE NoSession]

OpenSessionLate(p) ==
  LET t == packet[p].table IN
  /\ packet[p].pc = "open"
  /\ table' = [table EXCEPT ![t] = Kept(t)]
  /\ PacketAt(p, IF Size(t) > MaxSessions THEN "end" ELSE "connect")
  /\ most' = IF Cardinality(Opening(t)) >= most THEN Cardinality(Opening(t)) + 1 ELSE most
  /\ UNCHANGED <<settings, port, relay>>

\* open_session: the sessions that have ended leave the table, and a full table drops
\* the packet.
OpenSession(p) ==
  LET t    == packet[p].table
      size == Cardinality({c \in Peers : Kept(t)[c] # NoSession})
  IN
  /\ packet[p].pc = "open"
  /\ table' = [table EXCEPT ![t] = Kept(t)]
  /\ PacketAt(p, IF size >= MaxSessions THEN "end" ELSE "connect")
  /\ most' = IF size < MaxSessions /\ Cardinality(Opening(t)) >= most
             THEN Cardinality(Opening(t)) + 1 ELSE most
  /\ UNCHANGED <<settings, port, relay>>

\* open_server_session: the reply task starts before the session is in the table.
Connected(p) ==
  /\ packet[p].pc = "connect"
  /\ relay' = [relay EXCEPT ![p] = "run"]
  /\ PacketAt(p, "insert")
  /\ UNCHANGED <<settings, port, table, most>>

\* No server of the group can be resolved or connected.
NotConnected(p) ==
  /\ packet[p].pc = "connect"
  /\ PacketAt(p, "end")
  /\ UNCHANGED <<settings, port, table, relay, most>>

\* The session of another packet of the client that is in the table is dropped.
InsertSession(p) ==
  LET t == packet[p].table  c == packet[p].peer IN
  /\ packet[p].pc = "insert"
  /\ table' = [table EXCEPT ![t][c] = p]
  /\ relay' = Abort({table[t][c]})
  /\ PacketAt(p, "send")
  /\ UNCHANGED <<settings, port, most>>

\* The packet goes to the session that the table has now, if there is one.
Send(p) ==
  /\ packet[p].pc = "send"
  /\ PacketAt(p, "end")
  /\ UNCHANGED <<settings, port, table, relay, most>>

-----------------------------------------------------------------------------
(* The sessions that are dropped.                                           *)

ClearNothing(T) == UNCHANGED <<table, relay>>

ClearMap(T) ==
  /\ table' = [t \in TableIds |-> IF t \in T THEN <<>> ELSE table[t]]
  /\ relay' = Abort(UNION {{table[t][c] : c \in Peers} : t \in T})

\* sessions.clear(), or the end of a table that nobody has any more.
Clear(T) ==
  /\ table' = [t \in TableIds |-> IF t \in T THEN NoSessions ELSE table[t]]
  /\ relay' = Abort(UNION {{table[t][c] : c \in Peers} : t \in T})

\* The task drops its copy of the context, and with the last copy the table that the
\* port has no more.
ForwardEnds(p) ==
  /\ packet[p].pc = "end"
  /\ PacketAt(p, "sent")
  /\ Clear({t \in TableIds \ {port} : Uses(p, t) /\ \A q \in Packets \ {p} : ~Uses(q, t)})
  /\ UNCHANGED <<settings, port, most>>

\* relay_replies ends: the session is idle, or its socket fails.
RelayEnds(p) ==
  /\ relay[p] = "run"
  /\ relay' = [relay EXCEPT ![p] = "over"]
  /\ UNCHANGED <<settings, port, table, packet, most>>

\* setup with other settings.
Setup ==
  /\ settings < MaxSettings
  /\ settings' = settings + 1
  /\ Clear({port})
  /\ packet' = [p \in Packets |-> [packet[p] EXCEPT
       !.late = packet[p].pc \in {"look", "open", "connect", "insert"}]]
  /\ UNCHANGED <<port, most>>

\* reset of the port.
Reset ==
  /\ Size(port) > 0
  /\ Clear({port})
  /\ UNCHANGED <<settings, port, packet, most>>

\* apply, after an edit of the port: the context gets the empty table of the new one.
\* The reload that follows in the same handler sets up the upstream servers again.
ApplyEdit ==
  /\ port < MaxEdits
  /\ port' = port + 1
  /\ Clear({t \in {port} : \A p \in Packets : ~Uses(p, t)})
  /\ UNCHANGED <<settings, packet, most>>

-----------------------------------------------------------------------------
UdpInit ==
  /\ settings = 1 /\ port = 0 /\ most = 0
  /\ table = [t \in TableIds |-> NoSessions] /\ relay = [p \in Packets |-> "none"]
  /\ packet = [p \in Packets |-> [pc |-> "new", peer |-> CHOOSE c \in Peers : TRUE,
                                   settings |-> 1, table |-> 0, late |-> FALSE]]

UdpNext ==
  \/ \E p \in Packets :
       \/ \E c \in Peers : Receive(p, c)
       \/ Look(p) \/ OpenSession(p) \/ Connected(p) \/ NotConnected(p)
       \/ InsertSession(p) \/ Send(p) \/ ForwardEnds(p) \/ RelayEnds(p)
  \/ Setup \/ Reset \/ ApplyEdit

UdpSpec == UdpInit /\ [][UdpNext]_udpVars

-----------------------------------------------------------------------------
UdpTypeOK ==
  /\ settings \in 1..MaxSettings /\ port \in TableIds /\ most \in 0..MaxPackets
  /\ table \in [TableIds -> [Peers -> Packets \union {NoSession}]]
  /\ relay \in [Packets -> {"none", "run", "over"}]
  /\ packet \in [Packets -> [pc : PacketPcs, peer : Peers, settings : 1..MaxSettings,
                             table : TableIds, late : BOOLEAN]]

\* A reply task, its socket and its lease belong to a session in the table of its packet
\* or to one that the packet is about to put there, and that table is the one of the port
\* or that of a packet under way.  So a session that is replaced, cleared or left behind
\* by an edit of the port stops its task, and a drain that waits for the leases ends.
NoLostRelay ==
  \A p \in Packets : relay[p] = "run" =>
    \/ packet[p].pc = "insert"
    \/ LET t == packet[p].table IN
       /\ table[t][packet[p].peer] = p
       /\ t = port \/ \E q \in Packets : Uses(q, t)

\* The sessions of the port use the servers of the current settings.  The exception is
\* the session of a packet that was looking for one while the settings changed.
CurrentSettings ==
  \A c \in Peers : table[port][c] # NoSession =>
    packet[table[port][c]].settings = settings \/ packet[table[port][c]].late

\* A table holds at most MAX_SESSIONS sessions and those of the packets that found room
\* in it at the same time.  After an edit a port may have two tables or more.
SessionBound ==
  \A t \in TableIds : Size(t) <= MaxSessions + (IF most = 0 THEN 0 ELSE most - 1)

\* The session tables of a port as a whole.
SessionsHold == UdpTypeOK /\ NoLostRelay /\ CurrentSettings /\ SessionBound
=============================================================================
