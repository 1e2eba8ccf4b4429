------------------------------ MODULE SrvNames ------------------------------
(***************************************************************************)
(* The SRV names of the HTTP routes: the registry of their targets, one    *)
(* refresh task per name, and the server loop that reloads the proxies     *)
(* when a task reports a change.  Source: r3v3rs3/src/proxy/srv.rs, and    *)
(* handle_topology_command, reload_proxies and set_nameserver's caller in  *)
(* server/state.rs.                                                        *)
(*                                                                         *)
(* A task stores an answer under the lock of the registry and then sends   *)
(* SrvUpdated into the command channel, which has one place.  An abort     *)
(* stops a task where it waits; one that has an answer in its hands still  *)
(* comes to the end of its poll.                                           *)
(***************************************************************************)
EXTENDS Naturals, FiniteSets

CONSTANTS
  Names,       \* the SRV names
  Nameservers, \* the DNS servers
  MaxAnswers,  \* bound on the changes of the records
  MaxFails,    \* bound on the failed lookups
  MaxChanges   \* bound on the changes of the settings

ASSUME SrvAssumption ==
  /\ IsFiniteSet(Names) /\ Nameservers # {}
  /\ MaxAnswers \in Nat /\ MaxFails \in Nat /\ MaxChanges \in Nat

\* The targets of a name; 0 stands for none.
Answers == 0..MaxAnswers
Failed  == MaxAnswers + 1
\* A change of the settings starts at most one task for each name.
TaskIds == 1..(MaxChanges * Cardinality(Names))
NoRefresh == 0

VARIABLES
  records,    \* [Nameservers -> the answer that it gives for every name]
  nameserver, \* the DNS server of the settings
  wanted,     \* the names of the active proxies
  srvEntry,   \* [Names -> [task, targets]], with NoRefresh for a name that is not known
  spawned,    \* how many tasks there were
  refresh,    \* [TaskIds -> the task]
  queue,      \* the command channel: "empty", "srv" or "other"
  server,     \* the server loop: "idle", or "sync" with the names to look up
  loaded,     \* [Names -> the targets that the proxies were built with]
  fails,      \* how many lookups failed
  changes,    \* how many changes of the settings there were
  raced       \* history: an aborted task has changed an entry

srvVars == <<records, nameserver, wanted, srvEntry, spawned, refresh, queue, server,
             loaded, fails, changes, raced>>

Unknown  == [task |-> NoRefresh, targets |-> 0]
Known(n) == srvEntry[n].task # NoRefresh
TaskPcs  == {"none", "sleep", "lookup", "answered", "send", "dead"}
NewTask  == [pc |-> "none", name |-> CHOOSE n \in Names : TRUE,
             with |-> CHOOSE s \in Nameservers : TRUE, got |-> 0, aborted |-> FALSE]

\* A lookup at the server s answers or fails.
Lookup(s, got) ==
  \/ got = records[s] /\ UNCHANGED fails
  \/ got = Failed /\ fails < MaxFails /\ fails' = fails + 1

-----------------------------------------------------------------------------
(* reload_proxies.                                                          *)

\* abort of the tasks of the names in N.
AbortOf(N) ==
  [t \in TaskIds |->
     IF \E n \in N : srvEntry[n].task = t
       THEN IF refresh[t].pc = "answered" THEN [refresh[t] EXCEPT !.aborted = TRUE]
            ELSE [refresh[t] EXCEPT !.pc = "dead"]
       ELSE refresh[t]]

ForgetQuietly(names) ==
  LET Gone == {n \in Names : Known(n) /\ n \notin names}
  IN /\ refresh' = refresh
     /\ srvEntry' = [n \in Names |-> IF n \in Gone THEN Unknown ELSE srvEntry[n]]
     /\ server' = [pc |-> "sync", todo |-> {n \in names : ~Known(n)}, with |-> nameserver]

\* The first part of sync, under the lock.
Forget(names) ==
  LET Gone == {n \in Names : Known(n) /\ n \notin names}
  IN /\ refresh' = AbortOf(Gone)
     /\ srvEntry' = [n \in Names |-> IF n \in Gone THEN Unknown ELSE srvEntry[n]]
     /\ server' = [pc |-> "sync", todo |-> {n \in names : ~Known(n)}, with |-> nameserver]

SrvUpdatedIgnored ==
  /\ server.pc = "idle" /\ queue = "srv"
  /\ queue' = "empty"
  /\ UNCHANGED <<records, nameserver, wanted, srvEntry, spawned, refresh, server, loaded, fails,
                 changes, raced>>

\* handle_topology_command: SrvUpdated.
SrvUpdated ==
  /\ server.pc = "idle" /\ queue = "srv"
  /\ queue' = "empty"
  /\ Forget(wanted)
  /\ UNCHANGED <<records, nameserver, wanted, spawned, loaded, fails, changes, raced>>

\* Another command, which does not touch the proxies.
OtherCommand ==
  /\ server.pc = "idle" /\ queue = "other"
  /\ queue' = "empty"
  /\ UNCHANGED <<records, nameserver, wanted, srvEntry, spawned, refresh, server, loaded, fails,
                 changes, raced>>

\* A change of the proxies; it comes through the channel of the callbacks.
ChangeProxies ==
  /\ server.pc = "idle" /\ changes < MaxChanges
  /\ changes' = changes + 1
  /\ \E N \in SUBSET Names : wanted' = N /\ Forget(N)
  /\ UNCHANGED <<records, nameserver, spawned, queue, loaded, fails, raced>>

\* set_nameserver forgets every name, and the reload after it looks them up again.
SetNameserver ==
  /\ server.pc = "idle" /\ changes < MaxChanges
  /\ changes' = changes + 1
  /\ nameserver' \in Nameservers \ {nameserver}
  /\ refresh' = AbortOf(Names)
  /\ srvEntry' = [n \in Names |-> Unknown]
  /\ server' = [pc |-> "sync", todo |-> wanted, with |-> nameserver']
  /\ UNCHANGED <<records, wanted, spawned, queue, loaded, fails, raced>>

SyncNameAsIs(n) ==
  /\ server.pc = "sync" /\ n \in server.todo
  /\ \E got \in Answers \union {Failed} :
       /\ Lookup(server.with, got)
       /\ srvEntry' = [srvEntry EXCEPT ![n] =
                      [task |-> spawned + 1, targets |-> got]]
  /\ spawned' = spawned + 1
  /\ refresh' = [refresh EXCEPT ![spawned + 1] =
                   [NewTask EXCEPT !.pc = "sleep", !.name = n, !.with = nameserver]]
  /\ server' = [server EXCEPT !.todo = @ \ {n}]
  /\ UNCHANGED <<records, nameserver, wanted, queue, loaded, changes, raced>>

\* The second part of sync: a new name is looked up, and its task starts.  A lookup that
\* fails leaves it without targets.
SyncName(n) ==
  /\ server.pc = "sync" /\ n \in server.todo
  /\ \E got \in Answers \union {Failed} :
       /\ Lookup(server.with, got)
       /\ srvEntry' = [srvEntry EXCEPT ![n] =
                      [task |-> spawned + 1, targets |-> IF got = Failed THEN 0 ELSE got]]
  /\ spawned' = spawned + 1
  /\ refresh' = [refresh EXCEPT ![spawned + 1] =
                   [NewTask EXCEPT !.pc = "sleep", !.name = n, !.with = nameserver]]
  /\ server' = [server EXCEPT !.todo = @ \ {n}]
  /\ UNCHANGED <<records, nameserver, wanted, queue, loaded, changes, raced>>

\* The proxies are built with expand.
BuildProxies ==
  /\ server.pc = "sync" /\ server.todo = {}
  /\ loaded' = [n \in Names |-> srvEntry[n].targets]
  /\ server' = [server EXCEPT !.pc = "idle"]
  /\ UNCHANGED <<records, nameserver, wanted, srvEntry, spawned, refresh, queue, fails, changes,
                 raced>>

-----------------------------------------------------------------------------
(* spawn_refresh.                                                           *)

\* next_lookup: the task waits for the expiry, with the DNS server of now, or ends.
NextLookup(t) ==
  IF Known(refresh[t].name) /\ ~refresh[t].aborted
    THEN [refresh[t] EXCEPT !.pc = "sleep", !.with = nameserver]
    ELSE [refresh[t] EXCEPT !.pc = "dead"]

\* The answer has expired.
Expire(t) ==
  /\ refresh[t].pc = "sleep"
  /\ refresh' = [refresh EXCEPT ![t].pc = "lookup"]
  /\ UNCHANGED <<records, nameserver, wanted, srvEntry, spawned, queue, server, loaded, fails,
                 changes, raced>>

Resolve(t) ==
  /\ refresh[t].pc = "lookup"
  /\ \E got \in Answers \union {Failed} :
       /\ Lookup(refresh[t].with, got)
       /\ refresh' = [refresh EXCEPT ![t].pc = "answered", ![t].got = got]
  /\ UNCHANGED <<records, nameserver, wanted, srvEntry, spawned, queue, server, loaded, changes,
                 raced>>

ChangedAnswer(t) ==
  LET n == refresh[t].name
  IN Known(n) /\ refresh[t].got \notin {Failed, srvEntry[n].targets}

ApplySilently(t) ==
  /\ refresh[t].pc = "answered" /\ ChangedAnswer(t)
  /\ srvEntry' = [srvEntry EXCEPT ![refresh[t].name].targets = refresh[t].got]
  /\ refresh' = [refresh EXCEPT ![t] = NextLookup(t)]
  /\ raced' = (raced \/ refresh[t].aborted)
  /\ UNCHANGED <<records, nameserver, wanted, spawned, queue, server, loaded, fails, changes>>

\* apply of a changed answer, whichever task has put the name into the registry.
Apply(t) ==
  /\ refresh[t].pc = "answered" /\ ChangedAnswer(t)
  /\ srvEntry' = [srvEntry EXCEPT ![refresh[t].name].targets = refresh[t].got]
  /\ refresh' = [refresh EXCEPT ![t].pc = "send"]
  /\ raced' = (raced \/ refresh[t].aborted)
  /\ UNCHANGED <<records, nameserver, wanted, spawned, queue, server, loaded, fails, changes>>

\* apply of the same targets or of a failure, which keeps them.
ApplySame(t) ==
  /\ refresh[t].pc = "answered" /\ ~ChangedAnswer(t)
  /\ refresh' = [refresh EXCEPT ![t] = NextLookup(t)]
  /\ UNCHANGED <<records, nameserver, wanted, srvEntry, spawned, queue, server, loaded, fails,
                 changes, raced>>

\* The send of SrvUpdated waits for room in the channel.
SendUpdate(t) ==
  /\ refresh[t].pc = "send" /\ queue = "empty"
  /\ queue' = "srv"
  /\ refresh' = [refresh EXCEPT ![t] = NextLookup(t)]
  /\ UNCHANGED <<records, nameserver, wanted, srvEntry, spawned, server, loaded, fails, changes,
                 raced>>

\* A task that was aborted ends there instead.
AbortedSend(t) ==
  /\ refresh[t].pc = "send" /\ refresh[t].aborted /\ queue # "empty"
  /\ refresh' = [refresh EXCEPT ![t].pc = "dead"]
  /\ UNCHANGED <<records, nameserver, wanted, srvEntry, spawned, queue, server, loaded, fails,
                 changes, raced>>

-----------------------------------------------------------------------------
(* The surroundings.                                                        *)

RecordsChange ==
  \E s \in Nameservers :
    /\ records[s] < MaxAnswers
    /\ records' = [records EXCEPT ![s] = @ + 1]
    /\ UNCHANGED <<nameserver, wanted, srvEntry, spawned, refresh, queue, server, loaded, fails,
                   changes, raced>>

OtherSender ==
  /\ queue = "empty" /\ changes < MaxChanges
  /\ changes' = changes + 1
  /\ queue' = "other"
  /\ UNCHANGED <<records, nameserver, wanted, srvEntry, spawned, refresh, server, loaded, fails,
                 raced>>

SrvInit ==
  /\ records = [s \in Nameservers |-> 0]
  /\ nameserver = CHOOSE s \in Nameservers : TRUE
  /\ wanted = {} /\ srvEntry = [n \in Names |-> Unknown]
  /\ spawned = 0 /\ refresh = [t \in TaskIds |-> NewTask]
  /\ queue = "empty" /\ server = [pc |-> "idle", todo |-> {}, with |-> nameserver]
  /\ loaded = [n \in Names |-> 0]
  /\ fails = 0 /\ changes = 0 /\ raced = FALSE

ServerLoop == SrvUpdated \/ OtherCommand \/ BuildProxies \/ \E n \in Names : SyncName(n)
TaskStep(t) ==
  Expire(t) \/ Resolve(t) \/ Apply(t) \/ ApplySame(t) \/ SendUpdate(t) \/ AbortedSend(t)

SrvNext ==
  \/ ServerLoop \/ ChangeProxies \/ SetNameserver
  \/ \E t \in TaskIds : TaskStep(t)
  \/ RecordsChange \/ OtherSender

\* The loop and the tasks run, and a send into a channel with room again and again comes
\* through (the channel is first come, first served).
SrvFairness ==
  /\ WF_srvVars(ServerLoop)
  /\ \A t \in TaskIds : WF_srvVars(TaskStep(t)) /\ SF_srvVars(SendUpdate(t))

SrvSpec == SrvInit /\ [][SrvNext]_srvVars /\ SrvFairness

-----------------------------------------------------------------------------
SrvTypeOK ==
  /\ records \in [Nameservers -> Answers] /\ nameserver \in Nameservers
  /\ wanted \subseteq Names /\ srvEntry \in [Names -> [task : 0..spawned, targets : Answers]]
  /\ spawned \in {0} \union TaskIds
  /\ refresh \in [TaskIds -> [pc : TaskPcs, name : Names, with : Nameservers,
                              got : Answers \union {Failed}, aborted : BOOLEAN]]
  /\ queue \in {"empty", "srv", "other"}
  /\ server \in [pc : {"idle", "sync"}, todo : SUBSET Names, with : Nameservers]
  /\ loaded \in [Names -> Answers] /\ fails \in 0..MaxFails /\ changes \in 0..MaxChanges
  /\ raced \in BOOLEAN

\* A name that is known has exactly one task that goes on, and a forgotten one has none:
\* no name is refreshed twice or no longer (sync, set_nameserver).
OneRefresh ==
  \A n \in Names :
    {t \in TaskIds : refresh[t].pc \notin {"none", "dead"} /\ refresh[t].name = n
                     /\ ~refresh[t].aborted} = {srvEntry[n].task} \ {NoRefresh}

\* When the proxies are built with other targets than the registry has, their reload is on
\* the way.  The exception is a task that was aborted with an answer in its hands.
UpdateOnTheWay ==
  (server.pc = "idle" /\ ~raced) =>
    \A n \in wanted :
      loaded[n] # srvEntry[n].targets =>
        queue = "srv" \/ (\E t \in TaskIds : refresh[t].pc = "send" /\ refresh[t].name = n)

\* The tasks of the names and the way of their updates.
NamesRefreshed == SrvTypeOK /\ OneRefresh /\ UpdateOnTheWay

\* The proxies come to follow the records of the DNS server in use, through failed lookups,
\* changed settings and a busy channel.
SrvFollows ==
  \A n \in Names :
    []<>(n \notin wanted \/ raced \/ loaded[n] = records[nameserver])
=============================================================================
