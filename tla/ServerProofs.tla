--------------------------- MODULE ServerProofs -----------------------------
(***************************************************************************)
(* Proofs about the tasks of the server that share state with its loop: the *)
(* sessions of the agents, the ACME orders and the rotation of the sealing *)
(* key, each for every value of its constants.                             *)
(***************************************************************************)
EXTENDS AgentLink, AcmeOrders, KeyRotation, FiniteSetTheorems, SequenceTheorems, TLAPS

-----------------------------------------------------------------------------
(* AgentLink.  The registry is checked, inserted into and left by different steps *)
(* of a task: SessionOpened, CheckHolds and NoticeOnItsWay say what a task knows *)
(* between them.                                                           *)

\* The rows of the connections.
ConnRows == [pc : ConnPcs, cert : 0..MaxCerts, link : LinkStates, late : BOOLEAN]

\* The session in the registry was opened by an agent.
SessionOpened == registry # Nobody => conn[registry].pc # "new"

\* The second check holds until the insert, unless the certificate changes between them.
CheckHolds == \A c \in Conns :
  conn[c].pc = "insert" => conn[c].cert = enrolled \/ conn[c].late

\* Unless notices cross, the task that is about to give one has the registry as it left it.
NoticeOnItsWay == ~crossed =>
  \A c \in Conns : /\ conn[c].pc = "online" => registry = c
                   /\ conn[c].pc = "offline" => registry = Nobody

\* The inductive invariant.
AgentInv == SessionsAgree /\ SessionOpened /\ CheckHolds /\ NoticeOnItsWay

\* The task of c goes to p with the link l, and no other task moves.
Moves(c, p, l) ==
  /\ conn' \in [Conns -> ConnRows]
  /\ \A d \in Conns \ {c} : conn'[d] = conn[d]
  /\ conn'[c].pc = p /\ conn'[c].link = l
  /\ conn'[c].cert = conn[c].cert /\ conn'[c].late = conn[c].late

\* The fields of a connection.
LEMMA RowFields ==
  ASSUME NEW f \in [Conns -> ConnRows], NEW c \in Conns
  PROVE  /\ f[c].pc \in ConnPcs /\ f[c].cert \in 0..MaxCerts
         /\ f[c].link \in LinkStates /\ f[c].late \in BOOLEAN
BY DEF ConnRows

\* ConnAt moves one task and leaves its link.
LEMMA AtMoves ==
  ASSUME NEW c \in Conns, NEW p \in ConnPcs, conn \in [Conns -> ConnRows], ConnAt(c, p)
  PROVE  Moves(c, p, conn[c].link)
BY DEF ConnAt, Moves, ConnRows

\* End closes the link of one task.
LEMMA EndMoves ==
  ASSUME NEW c \in Conns, conn \in [Conns -> ConnRows], End(c)
  PROVE  Moves(c, "over", "closed")
BY DEF End, Moves, ConnRows, ConnPcs, LinkStates

\* A target starts enrolled and without a session.
LEMMA AgentInitInv == AgentInit => AgentInv
<1> SUFFICES ASSUME AgentInit PROVE AgentInv
  OBVIOUS
<1>1. AgentTypeOK
  <2>1. enrolled \in 0..MaxCerts /\ issued \in Certs /\ 0 \in 0..MaxCerts
    BY AgentAssumption DEF AgentInit, Certs
  <2>2. conn \in [Conns -> ConnRows]
    BY <2>1 DEF AgentInit, ConnRows, ConnPcs, LinkStates
  <2> QED
    BY <2>1, <2>2 DEF AgentInit, AgentTypeOK, ConnRows
<1> QED
BY <1>1
  DEF AgentInit, AgentInv, SessionsAgree, SessionOpened, CheckHolds, NoticeOnItsWay, 
      OneLink, CurrentCertificate, NoticeTrue, Notifying, InSession

\* A step of one task that leaves the registry, the certificate and the notices alone:
\* it may not enter a session, nor the insert with an old certificate.
LEMMA QuietMove ==
  ASSUME AgentInv, NEW c \in Conns, NEW p \in ConnPcs, NEW l \in LinkStates, Moves(c, p, l),
         UNCHANGED <<enrolled, issued, cutting, registry, told, wasCut, crossed>>,
         conn[c].pc \notin {"new", "online", "offline"} \/ p = conn[c].pc,
         p \notin {"new", "online", "offline"} \/ p = conn[c].pc,
         p \in {"online", "upgrade", "beat"} /\ l = "open" =>
           conn[c].pc \in {"online", "upgrade", "beat"}
           /\ conn[c].link = "open",
         p = "insert" => conn[c].cert = enrolled \/ conn[c].late
  PROVE  AgentInv'
<1> USE DEF AgentInv, SessionsAgree
<1>1. AgentTypeOK'
  BY DEF AgentTypeOK, Moves, ConnRows
<1>2. conn \in [Conns -> ConnRows] /\ conn' \in [Conns -> ConnRows]
        /\ registry \in Conns \union {Nobody} /\ crossed \in BOOLEAN /\ cutting \in BOOLEAN
  BY <1>1 DEF AgentTypeOK, ConnRows
<1> HIDE DEF AgentInv, SessionsAgree
<1> USE <1>2, RowFields DEF Moves
<1>3. OneLink'
  BY DEF AgentInv, SessionsAgree, OneLink, InSession
<1>4. CurrentCertificate'
  BY DEF AgentInv, SessionsAgree, CurrentCertificate
<1>5. NoticeTrue'
  BY DEF AgentInv, SessionsAgree, NoticeTrue, Notifying
<1>6. SessionOpened'
  BY DEF AgentInv, SessionOpened
<1>7. CheckHolds'
  BY DEF AgentInv, CheckHolds
<1>8. NoticeOnItsWay'
  BY DEF AgentInv, NoticeOnItsWay
<1> QED
  BY <1>1, <1>3, <1>4, <1>5, <1>6, <1>7, <1>8 DEF AgentInv, SessionsAgree

\* The steps of a task that leave the registry alone.
LEMMA QuietTask ==
  ASSUME AgentInv, NEW c \in Conns,
         LookUp(c) \/ FirstPing(c) \/ FirstPingFails(c) \/ CheckAgain(c) \/ BeatFails(c)
         \/ Upgraded(c) \/ LinkDies(c)
  PROVE  AgentInv'
<1>1. conn \in [Conns -> ConnRows]
  BY DEF AgentInv, SessionsAgree, AgentTypeOK, ConnRows
<1>2. conn[c].pc \in ConnPcs /\ conn[c].link \in LinkStates
  BY <1>1, RowFields
<1>3. CASE conn[c].pc \notin {"new", "online", "offline"} /\ End(c)
           /\ UNCHANGED <<enrolled, issued, cutting, registry, told, wasCut, crossed>>
  BY <1>1, <1>2, <1>3, EndMoves, QuietMove DEF ConnPcs, LinkStates
<1>4. ASSUME NEW p \in {"ping", "check", "insert", "remove", "beat"}, ConnAt(c, p),
             conn[c].pc \notin {"new", "online", "offline"},
             p = "beat" => conn[c].pc = "upgrade",
             p = "insert" => conn[c].cert = enrolled,
             UNCHANGED <<enrolled, issued, cutting, registry, told, wasCut, crossed>>
      PROVE  AgentInv'
  <2>1. p \in ConnPcs
    BY DEF ConnPcs
  <2> QED
    BY <1>1, <1>2, <1>4, <2>1, AtMoves, QuietMove
<1>5. CASE LinkDies(c)
  <2>1. Moves(c, conn[c].pc, "gone")
    BY <1>1, <1>5 DEF LinkDies, Moves, ConnRows, LinkStates
  <2>2. conn[c].pc = "insert" => conn[c].cert = enrolled \/ conn[c].late
    BY DEF AgentInv, CheckHolds
  <2> QED
    BY <1>1, <1>2, <1>5, <2>1, <2>2, QuietMove DEF LinkDies, LinkStates
<1> QED
  BY <1>3, <1>4, <1>5 DEF LookUp, FirstPing, FirstPingFails, CheckAgain, BeatFails,
       Upgraded

\* A new session: the one before it is closed, and is the only one that was open.
LEMMA InsertStep ==
  ASSUME AgentInv, NEW c \in Conns, Insert(c)
  PROVE  AgentInv'
<1>1. conn \in [Conns -> ConnRows] /\ registry \in Conns \union {Nobody} /\ crossed \in BOOLEAN
      /\ cutting \in BOOLEAN
  BY DEF AgentInv, SessionsAgree, AgentTypeOK, ConnRows
<1> DEFINE p == IF registry = Nobody THEN "online" ELSE "beat"
<1>2. /\ conn' \in [Conns -> ConnRows]
      /\ conn'[c].pc = p
      /\ \A d \in Conns \ {c} : conn'[d].pc = conn[d].pc
      /\ \A d \in Conns : conn'[d].link = IF d = registry THEN "closed" ELSE conn[d].link
      /\ \A d \in Conns : conn'[d].cert = conn[d].cert /\ conn'[d].late = conn[d].late
  <2> DEFINE f == Close(conn, registry)
  <2>1. /\ f \in [Conns -> ConnRows]
        /\ \A d \in Conns : /\ f[d].pc = conn[d].pc /\ f[d].cert = conn[d].cert
                             /\ f[d].late = conn[d].late
                             /\ f[d].link = IF d = registry THEN "closed" ELSE conn[d].link
    BY <1>1 DEF Close, ConnRows, LinkStates, Nobody, Conns
  <2>2. p \in ConnPcs
    BY DEF ConnPcs
  <2>3. conn' = [f EXCEPT ![c].pc = p]
    BY DEF Insert
  <2> HIDE DEF f, p
  <2> QED
    BY <2>1, <2>2, <2>3 DEF ConnRows
<1> HIDE DEF p
<1>3. AgentTypeOK'
  BY <1>1, <1>2 DEF AgentInv, SessionsAgree, AgentTypeOK, ConnRows, Insert, Notifying
<1> USE <1>1, <1>2, RowFields DEF p, Insert
<1>4. OneLink'
  BY DEF AgentInv, SessionsAgree, OneLink, InSession
<1>5. CurrentCertificate'
  BY DEF AgentInv, CheckHolds, CurrentCertificate
<1>6. NoticeTrue'
  BY DEF AgentInv, SessionsAgree, NoticeTrue, Notifying, Nobody, Conns
<1>7. SessionOpened'
  BY DEF SessionOpened
<1>8. CheckHolds'
  BY DEF AgentInv, CheckHolds
<1>9. NoticeOnItsWay'
  <2>1. ~crossed' => \A d \in Conns : conn[d].pc \notin {"online", "offline"}
    BY DEF Notifying
  <2> QED
    BY <2>1 DEF NoticeOnItsWay
<1> QED
  BY <1>3, <1>4, <1>5, <1>6, <1>7, <1>8, <1>9 DEF AgentInv, SessionsAgree

\* The end of a session, and the notice of its end or of its start.
LEMMA EndStep ==
  ASSUME AgentInv, NEW c \in Conns, Remove(c) \/ Online(c) \/ Offline(c)
  PROVE  AgentInv'
<1>1. conn \in [Conns -> ConnRows] /\ registry \in Conns \union {Nobody} /\ crossed \in BOOLEAN
      /\ cutting \in BOOLEAN
  BY DEF AgentInv, SessionsAgree, AgentTypeOK, ConnRows
<1>2. conn[c].link \in LinkStates
  BY <1>1, RowFields
<1>3. ASSUME Remove(c) PROVE AgentInv'
  <2>1. Moves(c, IF registry = c THEN "offline" ELSE "over", "closed")
    BY <1>1, <1>3 DEF Remove, Moves, ConnRows, ConnPcs, LinkStates
  <2>2. AgentTypeOK'
    BY <1>1, <1>3, <2>1 DEF AgentInv, SessionsAgree, AgentTypeOK, ConnRows, Remove, Moves,
       Notifying
  <2> USE <1>1, <1>3, <2>1, RowFields DEF Moves, Remove, AgentInv, SessionsAgree
  <2>3. OneLink'
    BY DEF OneLink, InSession
  <2>4. CurrentCertificate'
    BY DEF CurrentCertificate
  <2>5. NoticeTrue'
    BY DEF NoticeTrue, Notifying, Nobody, Conns
  <2>6. SessionOpened'
    BY DEF SessionOpened
  <2>7. CheckHolds'
    BY DEF CheckHolds
  <2>8. NoticeOnItsWay'
    BY DEF NoticeOnItsWay, Notifying
  <2> QED
    BY <2>2, <2>3, <2>4, <2>5, <2>6, <2>7, <2>8
<1>4. ASSUME Online(c) \/ Offline(c) PROVE AgentInv'
  <2>1. \/ Online(c) /\ (Moves(c, "beat", conn[c].link) \/ Moves(c, "upgrade", conn[c].link))
        \/ Offline(c) /\ Moves(c, "over", "closed")
    BY <1>1, <1>4, AtMoves, EndMoves DEF Online, Offline, ConnPcs
  <2>2. AgentTypeOK'
    BY <1>1, <2>1 DEF AgentInv, SessionsAgree, AgentTypeOK, ConnRows, Online, Offline, Moves
  <2> USE <1>1, <2>1, RowFields DEF Moves, Online, Offline, AgentInv, SessionsAgree
  <2>3. OneLink'
    BY DEF OneLink, InSession
  <2>4. CurrentCertificate'
    BY DEF CurrentCertificate
  <2>5. NoticeTrue'
    BY DEF NoticeTrue, NoticeOnItsWay, Notifying, Nobody, Conns
  <2>6. SessionOpened'
    BY DEF SessionOpened
  <2>7. CheckHolds'
    BY DEF CheckHolds
  <2>8. NoticeOnItsWay'
    BY DEF NoticeOnItsWay, Notifying
  <2> QED
    BY <2>2, <2>3, <2>4, <2>5, <2>6, <2>7, <2>8
<1> QED
  BY <1>3, <1>4

\* A connection starts as none of the registry.
LEMMA ConnectStep ==
  ASSUME AgentInv, NEW c \in Conns, NEW k \in Certs, Connect(c, k)
  PROVE  AgentInv'
<1>1. conn \in [Conns -> ConnRows] /\ registry \in Conns \union {Nobody} /\ issued \in Certs
  BY DEF AgentInv, SessionsAgree, AgentTypeOK, ConnRows
<1>2. /\ conn' \in [Conns -> ConnRows]
      /\ \A d \in Conns \ {c} : conn'[d] = conn[d]
      /\ conn'[c].pc = "lookup"
  <2>1. k \in 0..MaxCerts
    BY AgentAssumption DEF Certs
  <2> QED
    BY <1>1, <2>1 DEF Connect, ConnRows, ConnPcs, LinkStates
<1>3. AgentTypeOK'
  BY <1>1, <1>2 DEF AgentInv, SessionsAgree, AgentTypeOK, ConnRows, Connect
<1> USE <1>1, <1>2, RowFields DEF Connect, AgentInv, SessionsAgree
<1>4. OneLink'
  BY DEF OneLink, InSession
<1>5. CurrentCertificate'
  BY DEF CurrentCertificate, SessionOpened
<1>6. NoticeTrue'
  BY DEF NoticeTrue, Notifying
<1>7. SessionOpened'
  BY DEF SessionOpened
<1>8. CheckHolds'
  BY DEF CheckHolds
<1>9. NoticeOnItsWay'
  BY DEF NoticeOnItsWay
<1> QED
  BY <1>3, <1>4, <1>5, <1>6, <1>7, <1>8, <1>9

\* A new certificate or none, and the disconnect that follows it.
LEMMA TargetStep ==
  ASSUME AgentInv, Enroll \/ DeleteTarget \/ Disconnect
  PROVE  AgentInv'
<1>1. /\ conn \in [Conns -> ConnRows] /\ registry \in Conns \union {Nobody}
      /\ issued \in Certs /\ crossed \in BOOLEAN
  BY DEF AgentInv, SessionsAgree, AgentTypeOK, ConnRows
<1>2. ASSUME Enroll \/ DeleteTarget PROVE AgentInv'
  <2>1. /\ conn' \in [Conns -> ConnRows]
        /\ \A d \in Conns : /\ conn'[d].pc = conn[d].pc /\ conn'[d].link = conn[d].link
                             /\ conn'[d].cert = conn[d].cert
                             /\ conn'[d].late = (conn[d].late \/ conn[d].pc = "insert")
    BY <1>1, <1>2, ZenonT(60) DEF Enroll, DeleteTarget, LateConns, ConnRows
  <2>2. enrolled' \in 0..MaxCerts /\ issued' \in Certs
    BY <1>1, <1>2, AgentAssumption DEF Enroll, DeleteTarget, Certs
  <2>3. AgentTypeOK'
    BY <1>1, <1>2, <2>1, <2>2 DEF AgentInv, SessionsAgree, AgentTypeOK, ConnRows, Enroll,
       DeleteTarget
  <2> USE <1>1, <1>2, <2>1, RowFields DEF Enroll, DeleteTarget, AgentInv, SessionsAgree
  <2>4. OneLink'
    BY DEF OneLink, InSession
  <2>5. CurrentCertificate'
    BY DEF CurrentCertificate
  <2>6. NoticeTrue'
    BY DEF NoticeTrue, Notifying
  <2>7. SessionOpened'
    BY DEF SessionOpened
  <2>8. CheckHolds'
    BY DEF CheckHolds
  <2>9. NoticeOnItsWay'
    BY DEF NoticeOnItsWay
  <2> QED
    BY <2>3, <2>4, <2>5, <2>6, <2>7, <2>8, <2>9
<1>3. ASSUME Disconnect PROVE AgentInv'
  <2>1. /\ conn' \in [Conns -> ConnRows]
        /\ \A d \in Conns : /\ conn'[d].pc = conn[d].pc /\ conn'[d].cert = conn[d].cert
                             /\ conn'[d].late = conn[d].late
                             /\ conn'[d].link = IF d = registry THEN "closed" ELSE conn[d].link
    BY <1>1, <1>3 DEF Disconnect, Close, ConnRows, LinkStates, Nobody, Conns
  <2>2. AgentTypeOK'
    BY <1>1, <1>3, <2>1 DEF AgentInv, SessionsAgree, AgentTypeOK, ConnRows, Disconnect,
       Notifying
  <2> USE <1>1, <1>3, <2>1, RowFields DEF Disconnect, AgentInv, SessionsAgree
  <2>3. OneLink'
    BY DEF OneLink, InSession
  <2>4. CurrentCertificate'
    BY DEF CurrentCertificate
  <2>5. NoticeTrue'
    BY DEF NoticeTrue, Notifying
  <2>6. SessionOpened'
    BY DEF SessionOpened
  <2>7. CheckHolds'
    BY DEF CheckHolds
  <2>8. NoticeOnItsWay'
    BY DEF NoticeOnItsWay, Notifying
  <2> QED
    BY <2>2, <2>3, <2>4, <2>5, <2>6, <2>7, <2>8
<1> QED
  BY <1>2, <1>3

\* Every step of the agents, the registry and the target keeps the invariant.
LEMMA AgentStepInv == AgentInv /\ [AgentNext]_agentVars => AgentInv'
<1> SUFFICES ASSUME AgentInv, [AgentNext]_agentVars PROVE AgentInv'
  OBVIOUS
<1>1. CASE UNCHANGED agentVars
  BY <1>1 DEF agentVars, AgentInv, SessionsAgree, SessionOpened, CheckHolds, NoticeOnItsWay,
      AgentTypeOK, OneLink, CurrentCertificate, NoticeTrue, Notifying, InSession
<1> QED
  BY <1>1, QuietTask, InsertStep, EndStep, ConnectStep, TargetStep DEF AgentNext, SessionStep

\* For any number of connections and enrollments: a target has one session, with the
\* certificate of now unless it changed after the second check or is about to be cut off,
\* and the last notice agrees with the registry unless two notices crossed (agent/).
THEOREM AgentSessionsAgree == AgentSpec => []SessionsAgree
<1>1. AgentInit => AgentInv
  BY AgentInitInv
<1>2. AgentInv /\ [AgentNext]_agentVars => AgentInv'
  BY AgentStepInv
<1>3. AgentInv => SessionsAgree
  BY DEF AgentInv
<1> QED
  BY <1>1, <1>2, <1>3, PTL DEF AgentSpec

-----------------------------------------------------------------------------
(* AcmeOrders.  The loop ends an order by a command that an earlier step has *)
(* sent: EndsReported and EndsOnce say that the commands in the channel match the *)
(* orders that wait for them, OrderAlone that the schedule matches the orders. *)

\* A target that was not requested twice has at most one order, and it has one exactly
\* while the schedule holds it.
OrderAlone ==
  \A t \in AcmeTargets \ again :
    /\ \A b, c \in Batches : order[b][t] # "none" /\ order[c][t] # "none" => b = c
    /\ t \in inProgress <=> \E b \in Batches : order[b][t] # "none"

\* A target that was requested twice still has an order.
AgainRuns == \A t \in again : \E b \in Batches : order[b][t] # "none"

\* A batch that was not started has no order.
Unstarted == \A b \in Batches : b > batches => \A t \in AcmeTargets : order[b][t] = "none"

\* The command that ends an order is about an order that waits for it.
EndsReported ==
  \A i \in 1..Len(commands) : commands[i].cmd = "finished" =>
    \E t \in AcmeTargets :
      commands[i].targets = {t} /\ order[commands[i].batch][t] = "reported"

\* An order is ended by one command.
EndsOnce ==
  \A i, j \in 1..Len(commands) :
    commands[i].cmd = "finished" /\ commands[j].cmd = "finished" /\ i # j =>
      commands[i].batch # commands[j].batch \/ commands[i].targets # commands[j].targets

\* The challenges of a target that was not requested twice.
Answered ==
  \A b \in Batches, t \in AcmeTargets :
    order[b][t] = "challenge" /\ t \notin again => <<b, t>> \in served

\* Nothing is served when no order runs.
Cleared ==
  (\A b \in Batches, t \in AcmeTargets : order[b][t] = "none") => served = {}

\* The inductive invariant.
AcmeInv ==
  /\ AcmeTypeOK /\ OrderAlone /\ AgainRuns /\ Unstarted /\ EndsReported /\ EndsOnce
  /\ Answered /\ Cleared

\* The states of the orders.
LEMMA OrderNames ==
  ASSUME AcmeTypeOK
  PROVE  \A b \in Batches, t \in AcmeTargets : order[b][t] \in OrderStates
BY DEF AcmeTypeOK

\* The commands of the channel are commands.
LEMMA CommandFields ==
  ASSUME AcmeInv
  PROVE  \A i \in 1..Len(commands) : commands[i] \in Commands /\ commands[i].batch \in Batches
<1>1. \A i \in 1..Len(commands) : commands[i] \in Commands
  BY DEF AcmeInv, AcmeTypeOK
<1>2. \A c \in Commands : c.batch \in Batches
  BY DEF Commands
<1> QED
  BY <1>1, <1>2

\* A finite set with at most one member.
LEMMA AtMostOne ==
  ASSUME NEW S, IsFiniteSet(S), \A x, y \in S : x = y
  PROVE  Cardinality(S) <= 1
<1>1. CASE S = {}
  BY <1>1, FS_EmptySet
<1>2. CASE S # {}
  <2>1. PICK x \in S : S = {x}
    BY <1>2
  <2> QED
    BY <2>1, FS_Singleton
<1> QED
  BY <1>1, <1>2

\* The inductive invariant is the property of the run, and more.
LEMMA AcmeInvImplies ==
  ASSUME AcmeInv
  PROVE  OrdersApart
<1>1. OneOrder
  <2> SUFFICES ASSUME NEW t \in AcmeTargets \ again
               PROVE  Cardinality(Running(t)) <= 1 /\ (t \in inProgress <=> Running(t) # {})
    BY DEF OneOrder
  <2>1. IsFiniteSet(Running(t))
    <3>1. IsFiniteSet(Batches)
      BY FS_Interval, AcmeAssumption DEF Batches
    <3> QED
      BY <3>1, FS_Subset DEF Running
  <2>2. \A x, y \in Running(t) : x = y
    BY DEF AcmeInv, OrderAlone, Running
  <2>3. Cardinality(Running(t)) <= 1
    BY <2>1, <2>2, AtMostOne
  <2>4. t \in inProgress <=> Running(t) # {}
    BY DEF AcmeInv, OrderAlone, Running
  <2> QED
    BY <2>3, <2>4
<1>2. ChallengesServed
  BY DEF AcmeInv, Answered, ChallengesServed, OrdersIn
<1>3. NoChallengeLeft
  BY DEF AcmeInv, Cleared, NoChallengeLeft, Running
<1> QED
  BY <1>1, <1>2, <1>3 DEF OrdersApart, AcmeInv

\* A step in which no order begins or ends leaves the schedule in agreement with them.
LEMMA SameOrders ==
  ASSUME AcmeInv,
         \A b \in Batches, t \in AcmeTargets :
           order'[b][t] = "none" <=> order[b][t] = "none",
         UNCHANGED <<inProgress, again, batches>>
  PROVE  OrderAlone' /\ AgainRuns' /\ Unstarted' /\ (served' = served => Cleared')
<1>1. again \subseteq AcmeTargets
  BY DEF AcmeInv, AcmeTypeOK
<1>2. OrderAlone'
  BY <1>1 DEF AcmeInv, OrderAlone
<1>3. AgainRuns'
  BY <1>1 DEF AcmeInv, AgainRuns
<1>4. Unstarted'
  BY DEF AcmeInv, Unstarted
<1>5. served' = served => Cleared'
  BY DEF AcmeInv, Cleared
<1> QED
  BY <1>2, <1>3, <1>4, <1>5

\* A step that sends nothing, or a command that ends no order.
LEMMA SentOther ==
  ASSUME AcmeInv, NEW c \in Commands, c.cmd # "finished",
         commands' = commands \/ commands' = Append(commands, c),
         \A b \in Batches, t \in AcmeTargets :
           order[b][t] = "reported" => order'[b][t] = "reported"
  PROVE  commands' \in Seq(Commands) /\ EndsReported' /\ EndsOnce'
<1>0. commands \in Seq(Commands)
  BY DEF AcmeInv, AcmeTypeOK
<1>1. \A i \in 1..Len(commands) : commands[i] \in Commands /\ commands[i].batch \in Batches
  BY CommandFields
<1>2. \A i \in 1..Len(commands') : commands'[i].cmd = "finished" =>
        i \in 1..Len(commands) /\ commands'[i] = commands[i]
  BY <1>0
<1>3. commands' \in Seq(Commands)
  BY <1>0
<1>4. EndsReported'
  BY <1>1, <1>2 DEF AcmeInv, EndsReported
<1>5. EndsOnce'
  BY <1>2 DEF AcmeInv, EndsOnce
<1> QED
  BY <1>3, <1>4, <1>5

\* A step that ends an order with its command.
LEMMA SentFinished ==
  ASSUME AcmeInv, NEW b \in Batches, NEW t \in AcmeTargets, NEW ok \in BOOLEAN,
         commands' = Append(commands, AcmeOrderFinished(b, t, ok)),
         order[b][t] # "reported", order' = [order EXCEPT ![b][t] = "reported"]
  PROVE  commands' \in Seq(Commands) /\ EndsReported' /\ EndsOnce'
<1> DEFINE c == AcmeOrderFinished(b, t, ok)
<1>0. commands \in Seq(Commands) /\ order \in [Batches -> [AcmeTargets -> OrderStates]]
  BY DEF AcmeInv, AcmeTypeOK
<1>1. c \in Commands /\ c.cmd = "finished" /\ c.batch = b /\ c.targets = {t}
  BY DEF AcmeOrderFinished, Commands
<1>2. \A i \in 1..Len(commands) : commands[i] \in Commands /\ commands[i].batch \in Batches
  BY CommandFields
<1> HIDE DEF c
<1>3. Len(commands') = Len(commands) + 1 /\ Len(commands) \in Nat
      /\ commands'[Len(commands) + 1] = c
      /\ \A i \in 1..Len(commands) : commands'[i] = commands[i]
  BY <1>0, <1>1 DEF c
<1>4. commands' \in Seq(Commands)
  BY <1>0, <1>1 DEF c
<1>5. order'[b][t] = "reported" /\ \A e \in Batches, u \in AcmeTargets :
        order[e][u] = "reported" => order'[e][u] = "reported"
  BY <1>0
<1>6. \A i \in 1..Len(commands) : commands[i].cmd = "finished" =>
        commands[i].batch # b \/ commands[i].targets # {t}
  BY DEF AcmeInv, EndsReported
<1>7. \A i \in 1..Len(commands') : i \in 1..Len(commands) \/ i = Len(commands) + 1
  BY <1>3
<1>8. EndsReported'
  <2> SUFFICES ASSUME NEW i \in 1..Len(commands'), commands'[i].cmd = "finished"
               PROVE  \E u \in AcmeTargets : commands'[i].targets = {u}
                        /\ order'[commands'[i].batch][u] = "reported"
    BY DEF EndsReported
  <2>1. CASE i \in 1..Len(commands)
    BY <1>2, <1>3, <1>5, <2>1 DEF AcmeInv, EndsReported
  <2>2. CASE i = Len(commands) + 1
    BY <1>1, <1>3, <1>5, <2>2
  <2> QED
    BY <1>7, <2>1, <2>2
<1>9. EndsOnce'
  <2> SUFFICES ASSUME NEW i \in 1..Len(commands'), NEW j \in 1..Len(commands'), i # j,
                      commands'[i].cmd = "finished", commands'[j].cmd = "finished"
               PROVE  commands'[i].batch # commands'[j].batch
                      \/ commands'[i].targets # commands'[j].targets
    BY DEF EndsOnce
  <2>1. CASE i \in 1..Len(commands) /\ j \in 1..Len(commands)
    BY <1>3, <2>1 DEF AcmeInv, EndsOnce
  <2>2. CASE i = Len(commands) + 1 /\ j \in 1..Len(commands)
    BY <1>1, <1>3, <1>6, <2>2
  <2>3. CASE j = Len(commands) + 1 /\ i \in 1..Len(commands)
    BY <1>1, <1>3, <1>6, <2>3
  <2> QED
    BY <1>7, <2>1, <2>2, <2>3
<1> QED
  BY <1>4, <1>8, <1>9

\* A step that handles a command: the others move up.
LEMMA Handled ==
  ASSUME AcmeInv, commands # <<>>, commands' = Tail(commands)
  PROVE  /\ commands' \in Seq(Commands) /\ commands[1] = Head(commands)
         /\ Head(commands) \in Commands
         /\ 1 \in 1..Len(commands)
         /\ \A i \in 1..Len(commands') :
              i + 1 \in 1..Len(commands) /\ commands'[i] = commands[i + 1] /\ i + 1 # 1
              /\ commands'[i] \in Commands
<1>0. commands \in Seq(Commands)
  BY DEF AcmeInv, AcmeTypeOK
<1>1. Len(commands) \in Nat /\ Len(commands) # 0
  BY <1>0, EmptySeq
<1>2. Head(commands) = commands[1] /\ commands[1] \in Commands
  BY <1>0, <1>1
<1>3. Len(commands') = Len(commands) - 1 /\ commands' \in Seq(Commands)
      /\ \A i \in 1..Len(commands') : commands'[i] = commands[i + 1]
  BY <1>0, <1>1, HeadTailProperties
<1> QED
  BY <1>0, <1>1, <1>2, <1>3

\* A step that handles a command which ends no order.
LEMMA HandledOther ==
  ASSUME AcmeInv, commands # <<>>, commands' = Tail(commands),
         \A b \in Batches, t \in AcmeTargets :
           order[b][t] = "reported" => order'[b][t] = "reported"
  PROVE  commands' \in Seq(Commands) /\ EndsReported' /\ EndsOnce'
<1>1. \A i \in 1..Len(commands') : i + 1 \in 1..Len(commands)
        /\ commands'[i] = commands[i + 1] /\ commands'[i].batch \in Batches
  BY Handled DEF Commands
<1>2. EndsReported'
  BY <1>1 DEF AcmeInv, EndsReported
<1>3. EndsOnce'
  <2> SUFFICES ASSUME NEW i \in 1..Len(commands'), NEW j \in 1..Len(commands'), i # j,
                      commands'[i].cmd = "finished", commands'[j].cmd = "finished"
               PROVE  commands'[i].batch # commands'[j].batch
                      \/ commands'[i].targets # commands'[j].targets
    BY DEF EndsOnce
  <2>1. i + 1 # j + 1
    OBVIOUS
  <2> QED
    BY <1>1, <2>1 DEF AcmeInv, EndsOnce
<1> QED
  BY Handled, <1>2, <1>3

-----------------------------------------------------------------------------
\* The first orders of a batch: the targets have no order yet, or the request is recorded.
LEMMA Spawned ==
  ASSUME AcmeInv, NEW S \in SUBSET AcmeTargets, SpawnAcmeOrders(S),
         inProgress' = inProgress \union S,
         UNCHANGED <<served, commands>>,
         again' \subseteq AcmeTargets, again \subseteq again',
         \A t \in again' \ again : t \in S,
         \A t \in S : t \in again' \/ \A b \in Batches : order[b][t] = "none",
         renewals' \subseteq AcmeTargets, expired' \subseteq AcmeTargets,
         retryAfter' \subseteq AcmeTargets
  PROVE  AcmeInv'
<1> DEFINE n == batches + 1
<1>0. AcmeTypeOK /\ n \in Batches /\ batches' = n /\ batches \in Nat
  BY AcmeAssumption DEF AcmeInv, AcmeTypeOK, SpawnAcmeOrders, Batches
<1>1. \A t \in AcmeTargets : order[n][t] = "none"
  BY <1>0 DEF AcmeInv, Unstarted
<1>2. order' \in [Batches -> [AcmeTargets -> OrderStates]]
  BY <1>0 DEF AcmeTypeOK, SpawnAcmeOrders, OrderStates
<1>3. /\ \A t \in AcmeTargets : order'[n][t] = IF t \in S THEN "asked" ELSE "none"
      /\ \A b \in Batches \ {n}, t \in AcmeTargets : order'[b][t] = order[b][t]
  BY <1>0 DEF AcmeTypeOK, SpawnAcmeOrders
<1> HIDE DEF n
<1>4. AcmeTypeOK'
  BY <1>0, <1>2 DEF AcmeTypeOK, Batches
<1>5. OrderAlone'
  <2> SUFFICES ASSUME NEW t \in AcmeTargets \ again'
               PROVE  /\ \A b, c \in Batches :
                           order'[b][t] # "none" /\ order'[c][t] # "none" => b = c
                      /\ t \in inProgress' <=> \E b \in Batches : order'[b][t] # "none"
    BY DEF OrderAlone
  <2>1. CASE t \in S
    BY <1>0, <1>3, <2>1
  <2>2. CASE t \notin S
    BY <1>0, <1>1, <1>3, <2>2 DEF AcmeInv, OrderAlone
  <2> QED
    BY <2>1, <2>2
<1>6. AgainRuns'
  BY <1>0, <1>1, <1>3 DEF AcmeInv, AgainRuns
<1>7. Unstarted'
  <2>1. \A b \in Batches : b > n => b > batches /\ b # n
    BY <1>0 DEF n, Batches
  <2> QED
    BY <1>0, <1>3, <2>1 DEF AcmeInv, Unstarted
<1>8. EndsReported' /\ EndsOnce'
  <2>1. [cmd |-> "cert", batch |-> n, targets |-> {}, ok |-> TRUE] \in Commands
    BY <1>0 DEF Commands
  <2>2. \A b \in Batches, t \in AcmeTargets :
           order[b][t] = "reported" => order'[b][t] = "reported"
    BY <1>1, <1>3
  <2> QED
    BY <2>1, <2>2, SentOther
<1>9. Answered'
  BY <1>1, <1>3 DEF AcmeInv, Answered
<1>10. Cleared'
  BY <1>0, <1>1, <1>3 DEF AcmeInv, Cleared
<1> QED
  BY <1>4, <1>5, <1>6, <1>7, <1>8, <1>9, <1>10 DEF AcmeInv

\* start_http_challenges and request_acme_now.
LEMMA ScheduleSteps ==
  ASSUME AcmeInv, StartHttpChallenges \/ \E e \in AcmeEntries : RequestAcmeNow(e)
  PROVE  AcmeInv'
<1>0. AcmeTypeOK
  BY DEF AcmeInv
<1>1. CASE StartHttpChallenges
  <2> DEFINE due == {t \in renewals : IsDue(t)}
  <2>1. due \in SUBSET AcmeTargets /\ due # {} /\ SpawnAcmeOrders(due)
        /\ inProgress' = inProgress \union due
        /\ UNCHANGED <<renewals, expired, retryAfter, served, commands, again>>
    BY <1>0, <1>1 DEF StartHttpChallenges, AcmeTypeOK
  <2>2. \A t \in due : t \notin inProgress
    BY DEF IsDue
  <2>3. \A t \in due : t \in again \/ \A b \in Batches : order[b][t] = "none"
    BY <2>1, <2>2 DEF AcmeInv, OrderAlone
  <2> HIDE DEF due
  <2> QED
    BY <1>0, <2>1, <2>3, Spawned DEF AcmeTypeOK
<1>2. ASSUME NEW e \in AcmeEntries, RequestAcmeNow(e) PROVE AcmeInv'
  <2> DEFINE wanted == {t \in OwnTargets \union renewals : EntryOf[t] = e}
  <2>1. wanted \in SUBSET AcmeTargets /\ SpawnAcmeOrders(wanted)
        /\ inProgress' = inProgress \union wanted /\ retryAfter' = retryAfter \ wanted
        /\ again' = again \union {t \in wanted : Running(t) # {}}
        /\ UNCHANGED <<renewals, expired, served, commands>>
    BY <1>0, <1>2, AcmeAssumption DEF RequestAcmeNow, AcmeTypeOK
  <2>2. \A t \in wanted : t \in again' \/ \A b \in Batches : order[b][t] = "none"
    BY <2>1 DEF Running
  <2> HIDE DEF wanted
  <2> QED
    BY <1>0, <2>1, <2>2, Spawned DEF AcmeTypeOK
<1> QED
  BY <1>1, <1>2

-----------------------------------------------------------------------------
\* One order moves on.
LEMMA OrderMoves ==
  ASSUME AcmeTypeOK, NEW b \in Batches, NEW t \in AcmeTargets, NEW s \in OrderStates,
         SetOrder(b, t, s)
  PROVE  /\ order' \in [Batches -> [AcmeTargets -> OrderStates]] /\ order'[b][t] = s
         /\ \A c \in Batches, u \in AcmeTargets :
              c # b \/ u # t => order'[c][u] = order[c][u]
BY DEF AcmeTypeOK, SetOrder

\* The steps of the tasks of a batch.
LEMMA BatchSteps ==
  ASSUME AcmeInv, NEW b \in Batches, BatchStep(b)
  PROVE  AcmeInv'
<1>0. AcmeTypeOK /\ order \in [Batches -> [AcmeTargets -> OrderStates]]
  BY DEF AcmeInv, AcmeTypeOK
<1>1. CASE SendOrders(b)
  <2>1. /\ UNCHANGED <<renewals, expired, inProgress, retryAfter, batches, served, again>>
        /\ commands' = Append(commands, AddAcmeOrders(b))
    BY <1>1 DEF SendOrders
  <2>2. order' \in [Batches -> [AcmeTargets -> OrderStates]]
    BY <1>0, <1>1 DEF SendOrders, OrderStates
  <2>3. \A c \in Batches, u \in AcmeTargets :
          order'[c][u] = order[c][u] \/ (order[c][u] = "ready" /\ order'[c][u] = "sent")
    BY <1>0, <1>1 DEF SendOrders
  <2>4. AddAcmeOrders(b) \in Commands /\ AddAcmeOrders(b).cmd # "finished"
    BY DEF AddAcmeOrders, Commands
  <2>5. commands' \in Seq(Commands) /\ EndsReported' /\ EndsOnce'
    BY <2>1, <2>3, <2>4, SentOther
  <2>6. OrderAlone' /\ AgainRuns' /\ Unstarted' /\ Cleared'
    BY <2>1, <2>3, SameOrders
  <2>7. Answered'
    BY <2>1, <2>3 DEF AcmeInv, Answered
  <2>8. AcmeTypeOK'
    BY <1>0, <2>1, <2>2, <2>5 DEF AcmeTypeOK
  <2> QED
    BY <2>5, <2>6, <2>7, <2>8 DEF AcmeInv
<1>2. ASSUME NEW t \in AcmeTargets,
             OrderAccepted(b, t) \/ OrderRefused(b, t) \/ ChallengePassed(b, t)
             \/ ChallengeFailed(b, t) \/ ReportIssued(b, t)
      PROVE  AcmeInv'
  <2>1. PICK s \in OrderStates : SetOrder(b, t, s) /\ s # "none" /\ s # "challenge"
          /\ order[b][t] # "none" /\ order[b][t] # "reported"
          /\ \/ UNCHANGED commands
             \/ commands' = Append(commands, AddCert(b, t))
             \/ s = "reported" /\ \E ok \in BOOLEAN :
                  commands' = Append(commands, AcmeOrderFinished(b, t, ok))
    BY <1>2 DEF OrderAccepted, OrderRefused, ChallengePassed, ChallengeFailed, ReportIssued,
                OrderStates
  <2>2. UNCHANGED <<renewals, expired, inProgress, retryAfter, batches, served, again>>
    BY <1>2 DEF OrderAccepted, OrderRefused, ChallengePassed, ChallengeFailed, ReportIssued
  <2>3. /\ order' \in [Batches -> [AcmeTargets -> OrderStates]] /\ order'[b][t] = s
        /\ \A c \in Batches, u \in AcmeTargets :
             c # b \/ u # t => order'[c][u] = order[c][u]
    BY <1>0, <2>1, OrderMoves
  <2>4. AddCert(b, t) \in Commands /\ AddCert(b, t).cmd # "finished"
    BY DEF AddCert, Commands
  <2>5. commands' \in Seq(Commands) /\ EndsReported' /\ EndsOnce'
    <3>1. \A c \in Batches, u \in AcmeTargets :
            order[c][u] = "reported" => order'[c][u] = "reported"
      BY <2>1, <2>3
    <3>2. CASE UNCHANGED commands \/ commands' = Append(commands, AddCert(b, t))
      BY <2>4, <3>1, <3>2, SentOther
    <3>3. CASE s = "reported" /\ \E ok \in BOOLEAN :
                 commands' = Append(commands, AcmeOrderFinished(b, t, ok))
      BY <2>1, <3>3, SentFinished DEF SetOrder
    <3> QED
      BY <2>1, <3>2, <3>3
  <2>6. OrderAlone' /\ AgainRuns' /\ Unstarted' /\ Cleared'
    <3>1. \A c \in Batches, u \in AcmeTargets :
            order'[c][u] = "none" <=> order[c][u] = "none"
      BY <2>1, <2>3
    <3> QED
      BY <2>2, <3>1, SameOrders
  <2>7. Answered'
    BY <2>1, <2>2, <2>3 DEF AcmeInv, Answered
  <2>8. AcmeTypeOK'
    BY <1>0, <2>2, <2>3, <2>5 DEF AcmeTypeOK
  <2> QED
    BY <2>5, <2>6, <2>7, <2>8 DEF AcmeInv
<1> QED
  BY <1>1, <1>2 DEF BatchStep

-----------------------------------------------------------------------------
\* continue_http_challenges and add_issued_cert.
LEMMA ContinueSteps ==
  ASSUME AcmeInv, ContinueHttpChallenges \/ AddIssuedCert
  PROVE  AcmeInv'
<1>0. AcmeTypeOK /\ order \in [Batches -> [AcmeTargets -> OrderStates]]
      /\ commands # <<>> /\ commands' = Tail(commands)
  BY DEF AcmeInv, AcmeTypeOK, ContinueHttpChallenges, AddIssuedCert
<1>1. Head(commands) \in Commands /\ Head(commands).batch \in Batches
  <2>1. \A c \in Commands : c.batch \in Batches
    BY DEF Commands
  <2> QED
    BY <1>0, <2>1, Handled
<1>2. CASE ContinueHttpChallenges
  <2> DEFINE b == Head(commands).batch
  <2>1. UNCHANGED <<renewals, expired, inProgress, retryAfter, batches, again>>
    BY <1>2 DEF ContinueHttpChallenges
  <2>2. order' = [order EXCEPT ![b] = [t \in AcmeTargets |->
                    IF order[b][t] = "sent" THEN "challenge" ELSE order[b][t]]]
        /\ served' = served \union {<<b, t>> : t \in OrdersIn(b, {"sent"})}
    BY <1>2 DEF ContinueHttpChallenges, ServeChallenges
  <2>0. b \in Batches
    BY <1>1
  <2> HIDE DEF b
  <2>3. order' \in [Batches -> [AcmeTargets -> OrderStates]]
    BY <1>0, <2>0, <2>2 DEF OrderStates
  <2>4. \A c \in Batches, u \in AcmeTargets :
          \/ order'[c][u] = order[c][u]
          \/ c = b /\ order[c][u] = "sent" /\ order'[c][u] = "challenge"
    BY <1>0, <2>0, <2>2
  <2>5. commands' \in Seq(Commands) /\ EndsReported' /\ EndsOnce'
    BY <1>0, <2>4, HandledOther
  <2>6. OrderAlone' /\ AgainRuns' /\ Unstarted'
    BY <2>1, <2>4, SameOrders
  <2>7. Answered'
    BY <2>1, <2>2, <2>4 DEF AcmeInv, Answered, OrdersIn
  <2>8. Cleared'
    <3> SUFFICES ASSUME \A c \in Batches, u \in AcmeTargets : order'[c][u] = "none"
                 PROVE  served' = {}
      BY DEF Cleared
    <3>1. \A c \in Batches, u \in AcmeTargets : order[c][u] = "none"
      BY <2>4
    <3> QED
      BY <2>0, <2>2, <3>1 DEF AcmeInv, Cleared, OrdersIn
  <2>9. AcmeTypeOK'
    <3>1. served' \subseteq Batches \X AcmeTargets
      BY <1>0, <2>0, <2>2 DEF AcmeTypeOK, OrdersIn
    <3> QED
      BY <1>0, <2>1, <2>3, <2>5, <3>1 DEF AcmeTypeOK
  <2> QED
    BY <2>5, <2>6, <2>7, <2>8, <2>9 DEF AcmeInv
<1>3. CASE AddIssuedCert
  <2>1. UNCHANGED <<renewals, inProgress, retryAfter, batches, order, served, again>>
        /\ expired' \subseteq expired
    BY <1>3 DEF AddIssuedCert
  <2>2. commands' \in Seq(Commands) /\ EndsReported' /\ EndsOnce'
    BY <1>0, <2>1, HandledOther
  <2>3. OrderAlone' /\ AgainRuns' /\ Unstarted' /\ Cleared'
    BY <2>1, SameOrders
  <2>4. Answered' /\ AcmeTypeOK'
    BY <1>0, <2>1, <2>2 DEF AcmeInv, Answered, AcmeTypeOK
  <2> QED
    BY <2>2, <2>3, <2>4 DEF AcmeInv
<1> QED
  BY <1>2, <1>3

\* finish_acme_order: the order in the command is the one that ends.
LEMMA FinishStep ==
  ASSUME AcmeInv, FinishAcmeOrder
  PROVE  AcmeInv'
<1>0. AcmeTypeOK /\ order \in [Batches -> [AcmeTargets -> OrderStates]]
      /\ commands # <<>> /\ commands' = Tail(commands)
      /\ UNCHANGED <<renewals, expired, batches>>
  BY DEF AcmeInv, AcmeTypeOK, FinishAcmeOrder
<1> DEFINE c == Head(commands)
           b == Head(commands).batch
<1>1. c \in Commands /\ b \in Batches /\ c.cmd = "finished" /\ c = commands[1]
      /\ 1 \in 1..Len(commands)
  <2>1. \A d \in Commands : d.batch \in Batches
    BY DEF Commands
  <2> QED
    BY <1>0, <2>1, Handled DEF FinishAcmeOrder
<1>2. PICK t \in AcmeTargets : c.targets = {t} /\ order[b][t] = "reported"
  BY <1>1 DEF AcmeInv, EndsReported
<1>3. /\ inProgress' = inProgress \ {t}
      /\ retryAfter' \subseteq retryAfter \union {t}
      /\ served' = IF inProgress' = {} THEN {} ELSE served
      /\ order' = [order EXCEPT ![b] = [u \in AcmeTargets |->
                    IF u \in {t} THEN "none" ELSE order[b][u]]]
      /\ again' = {u \in again : \E d \in Batches : order'[d][u] # "none"}
  BY <1>2 DEF FinishAcmeOrder
<1>4. \A i \in 1..Len(commands') :
         i + 1 \in 1..Len(commands) /\ commands'[i] = commands[i + 1]
         /\ (commands'[i].cmd = "finished" =>
              commands'[i].batch # b \/ commands'[i].targets # {t})
  BY <1>0, <1>1, <1>2, Handled DEF AcmeInv, EndsOnce
<1> HIDE DEF c, b
<1>5. order' \in [Batches -> [AcmeTargets -> OrderStates]] /\ order'[b][t] = "none"
      /\ \A d \in Batches, u \in AcmeTargets :
           d # b \/ u # t => order'[d][u] = order[d][u]
  BY <1>0, <1>1, <1>2, <1>3 DEF OrderStates
<1>6. commands' \in Seq(Commands)
      /\ \A i \in 1..Len(commands') : commands'[i].batch \in Batches
  <2>1. \A d \in Commands : d.batch \in Batches
    BY DEF Commands
  <2> QED
    BY <1>0, <2>1, Handled
<1>7. EndsReported'
  BY <1>4, <1>5, <1>6, SMTT(30) DEF AcmeInv, EndsReported
<1>8. EndsOnce'
  <2> SUFFICES ASSUME NEW i \in 1..Len(commands'), NEW j \in 1..Len(commands'), i # j,
                      commands'[i].cmd = "finished", commands'[j].cmd = "finished"
               PROVE  commands'[i].batch # commands'[j].batch
                      \/ commands'[i].targets # commands'[j].targets
    BY DEF EndsOnce
  <2>1. i + 1 # j + 1
    OBVIOUS
  <2> QED
    BY <1>4, <2>1, SMTT(30) DEF AcmeInv, EndsOnce
<1>9. again \subseteq AcmeTargets /\ again' \subseteq again
  BY <1>0, <1>3 DEF AcmeTypeOK
<1>10. \A u \in AcmeTargets \ again' : u \in again =>
          u = t /\ \A d \in Batches : order'[d][u] = "none"
  BY <1>3, <1>5 DEF AcmeInv, AgainRuns
<1>11. OrderAlone'
  <2> SUFFICES ASSUME NEW u \in AcmeTargets \ again'
               PROVE  /\ \A d, e \in Batches :
                           order'[d][u] # "none" /\ order'[e][u] # "none" => d = e
                      /\ u \in inProgress' <=> \E d \in Batches : order'[d][u] # "none"
    BY DEF OrderAlone
  <2>1. CASE u # t
    <3>1. u \notin again /\ \A d \in Batches : order'[d][u] = order[d][u]
      BY <1>5, <1>10, <2>1
    <3>2. u \in inProgress' <=> u \in inProgress
      BY <1>3, <2>1
    <3> QED
      BY <3>1, <3>2 DEF AcmeInv, OrderAlone
  <2>2. CASE u = t
    <3>1. u \notin inProgress'
      BY <1>3, <2>2
    <3>2. \A d \in Batches : order'[d][u] = "none"
      <4>1. CASE u \in again
        BY <1>10, <4>1
      <4>2. CASE u \notin again
        <5>1. \A d \in Batches : d # b => order[d][u] = "none"
          BY <1>1, <1>2, <2>2, <4>2 DEF AcmeInv, OrderAlone
        <5> QED
          BY <1>5, <2>2, <5>1
      <4> QED
        BY <4>1, <4>2
    <3> QED
      BY <3>1, <3>2
  <2> QED
    BY <2>1, <2>2
<1>12. AgainRuns'
  BY <1>3 DEF AgainRuns
<1>13. Unstarted'
  BY <1>0, <1>5 DEF AcmeInv, Unstarted
<1>14. Answered'
  <2> SUFFICES ASSUME NEW d \in Batches, NEW u \in AcmeTargets,
                      order'[d][u] = "challenge", u \notin again'
               PROVE  <<d, u>> \in served'
    BY DEF Answered
  <2>1. u \notin again
    BY <1>10
  <2>2. u \in inProgress'
    BY <1>11 DEF OrderAlone
  <2>3. order[d][u] = "challenge"
    BY <1>5
  <2> QED
    BY <1>3, <2>1, <2>2, <2>3 DEF AcmeInv, Answered
<1>15. Cleared'
  <2> SUFFICES ASSUME \A d \in Batches, u \in AcmeTargets : order'[d][u] = "none"
               PROVE  served' = {}
    BY DEF Cleared
  <2>1. again' = {} /\ inProgress' \subseteq AcmeTargets
    BY <1>0, <1>3, <1>9 DEF AcmeTypeOK
  <2>2. inProgress' = {}
    BY <1>11, <2>1 DEF OrderAlone
  <2> QED
    BY <1>3, <2>2
<1>16. AcmeTypeOK'
  <2>1. served' \subseteq Batches \X AcmeTargets
    BY <1>0, <1>3 DEF AcmeTypeOK
  <2>2. inProgress' \subseteq AcmeTargets /\ retryAfter' \subseteq AcmeTargets
    BY <1>0, <1>3 DEF AcmeTypeOK
  <2> QED
    BY <1>0, <1>5, <1>6, <1>9, <2>1, <2>2 DEF AcmeTypeOK
<1> QED
  BY <1>7, <1>8, <1>11, <1>12, <1>13, <1>14, <1>15, <1>16 DEF AcmeInv

\* The time, the settings and the steps that change nothing here.
LEMMA SettingsSteps ==
  ASSUME AcmeInv,
         UNCHANGED acmeVars
         \/ \E t \in AcmeTargets : RenewalComes(t) \/ RetryComes(t) \/ ChangeRenewals(t)
  PROVE  AcmeInv'
<1>1. UNCHANGED <<inProgress, batches, order, served, commands, again>>
  BY DEF acmeVars, RenewalComes, RetryComes, ChangeRenewals
<1>2. AcmeTypeOK'
  BY DEF AcmeInv, AcmeTypeOK, acmeVars, RenewalComes, RetryComes, ChangeRenewals
<1>3. (OrderAlone /\ AgainRuns /\ Unstarted /\ EndsReported /\ EndsOnce /\ Answered
       /\ Cleared)'
  BY <1>1 DEF AcmeInv, OrderAlone, AgainRuns, Unstarted, EndsReported, EndsOnce, Answered,
              Cleared
<1> QED
  BY <1>2, <1>3 DEF AcmeInv

\* No order runs at the start.
LEMMA AcmeInitial ==
  ASSUME AcmeInit
  PROVE  AcmeInv
<1>1. AcmeTypeOK
  BY AcmeAssumption DEF AcmeInit, AcmeTypeOK, OrderStates
<1>2. \A b \in Batches, t \in AcmeTargets : order[b][t] = "none"
  BY DEF AcmeInit
<1>3. Len(commands) = 0 /\ again = {} /\ inProgress = {} /\ served = {}
  BY DEF AcmeInit
<1> QED
  BY <1>1, <1>2, <1>3
     DEF AcmeInv, OrderAlone, AgainRuns, Unstarted, EndsReported, EndsOnce, Answered, Cleared

\* For any number of targets, batches and queued commands: a target that was not requested
\* again while it was ordered has at most one order, the schedule holds exactly the targets
\* with an order, challenges are served while their order waits for the authority, and none
\* stays when no order runs (acme_schedule.rs, state.rs).
THEOREM AcmeOrdersApart == AcmeSpec => []OrdersApart
<1>1. AcmeInit => AcmeInv
  BY AcmeInitial
<1>2. AcmeInv /\ [AcmeNext]_acmeVars => AcmeInv'
  BY ScheduleSteps, BatchSteps, ContinueSteps, FinishStep, SettingsSteps
     DEF AcmeNext, LoopStep
<1>3. AcmeInv => OrdersApart
  BY AcmeInvImplies
<1> QED
  BY <1>1, <1>2, <1>3, PTL DEF AcmeSpec

-----------------------------------------------------------------------------
(* KeyRotation.  What was sealed opens with a key of the files only because of *)
(* what the rotation that is alone has done so far: AloneFiles (which file it has *)
(* written), AloneRows and Left (which rows it has sealed), SettledUp and  *)
(* SettledDown (the memory and the files once it has ended), KeysLeft (there is a *)
(* key for every rotation).                                                *)

\* The rows of the rotations.
RequestRows == [pc : Pcs, key : KeyOrEmpty, table : 1..2, seen : [Rows -> Keys],
                todo : SUBSET Rows, text : KeyOrEmpty \union {Absent}, alone : BOOLEAN]

\* Every request makes at most one key, so the keys are never used up.
KeysLeft ==
  made + Cardinality({q \in Rotations : request[q].pc = "new"}) = Cardinality(Rotations) + 1

\* The keys of the requests that work are keys that were made.
KeysMade ==
  /\ keyFile <= made
  /\ \A q \in Active : request[q].key \in Keys /\ request[q].key <= made

\* A process that is down has nothing in its memory.
DownForgets ==
  ~up => Active = {} /\ cached = <<>> /\ ~invalid /\ \A r \in Rows : writing[r] = Empty

\* The memory of a running platform has the keys of the files, of the DNS storage and of
\* every rotation that works.
RingHolds ==
  up => /\ ring # <<>>
        /\ {keyFile, oldFile} \subseteq KeysIn(ring) \union {Empty, Absent}
        /\ KeysIn(cached) \subseteq KeysIn(ring)
        /\ \A q \in Active : request[q].key \in KeysIn(ring)
             /\ request[q].text \in KeysIn(ring) \union {Empty, Absent}

\* The DNS storage seals with the key of the key file unless it is to be told.
CachedFront ==
  up /\ ~invalid /\ cached # <<>> => cached[1] = keyFile \/ keyFile = Empty

\* A rotation that was alone is alone, and no rotation works when the last one ended well.
AloneIsOne ==
  /\ \A q \in Active : request[q].alone => Active = {q}
  /\ ~unsure => Active = {}

\* The rows that a rotation has still to seal.
Left(q) ==
  IF request[q].pc = "select" THEN IF request[q].table = 1 THEN Rows ELSE DnsRows
  ELSE IF request[q].pc = "reseal"
       THEN request[q].todo \union (IF request[q].table = 1 THEN DnsRows ELSE {})
       ELSE {}

\* The key files, as a rotation that is alone has written them so far.
AloneFiles(q) ==
  /\ up /\ ~invalid /\ ring[1] = request[q].key
  /\ request[q].pc \in {"old", "trim"} => request[q].text = keyFile
  /\ request[q].pc = "key" => keyFile = Empty
  /\ request[q].pc \in {"trim", "key"} => oldFile = request[q].text

\* The rows, as a rotation that is alone has sealed them so far.
AloneRows(q) ==
  Base(q) \in Keys =>
    /\ Base(q) # request[q].key
    /\ cached # <<>> => cached[1] = Base(q)
    /\ \A r \in Rows :
         /\ writing[r] \in {Empty, Base(q), request[q].key}
         /\ r \notin Left(q) /\ sealed[r] \in KeysIn(ring) =>
              sealed[r] \in {Base(q), request[q].key}
         /\ request[q].pc = "reseal" =>
              sealed[r] = request[q].seen[r] \/ sealed[r] \in {Base(q), request[q].key}

\* A rotation that is alone has left everything as it believes.
AloneOK == \A q \in Active : request[q].alone => AloneFiles(q) /\ AloneRows(q)

\* When the last rotation ended well, everything in the memory is in the files.
SettledUp ==
  ~unsure /\ up =>
    /\ ring[1] \in KeysIn(Loaded)
    /\ cached # <<>> => cached[1] \in KeysIn(Loaded)
    /\ ~invalid => cached = <<>> \/ cached = Loaded
    /\ \A r \in Rows : writing[r] \in KeysIn(ring) => writing[r] \in KeysIn(Loaded) \union {Empty}
\* And the next start can open every row.
SettledDown == ~unsure /\ ~up /\ ~harmed => \A r \in Rows : sealed[r] \in KeysIn(Loaded)

\* The inductive invariant.
RotationInv ==
  /\ RotationTypeOK /\ KeysLeft /\ KeysMade /\ DownForgets /\ RingHolds /\ CachedFront
  /\ AloneIsOne /\ AloneOK /\ SettledUp /\ SettledDown /\ RingOpens /\ FilesOpen

-----------------------------------------------------------------------------
\* Keys are numbers, and neither mark is one.
LEMMA KeyFacts ==
  /\ Cardinality(Rotations) \in Nat /\ Keys \subseteq Nat /\ 1 \in Keys
  /\ Empty \notin Keys /\ Absent \notin Keys /\ Empty # Absent
BY RotationAssumption, FS_CardinalityType DEF Keys, Empty, Absent

\* A ring has its first key.
LEMMA RingFront ==
  ASSUME NEW s \in Seq(Keys)
  PROVE  KeysIn(s) \subseteq Keys /\ (s # <<>> => s[1] \in KeysIn(s) /\ s[1] \in Keys)
<1>1. KeysIn(s) \subseteq Keys
  BY DEF KeysIn
<1>2. ASSUME s # <<>> PROVE 1 \in DOMAIN s
  BY <1>2, EmptySeq
<1> QED
  BY <1>1, <1>2 DEF KeysIn

\* ClusterKeys::rotate puts the new key first and keeps the others.
LEMMA RotateFacts ==
  ASSUME NEW k \in Keys, ring \in Seq(Keys)
  PROVE  /\ Rotate(k) \in Seq(Keys) /\ Rotate(k) # <<>> /\ Rotate(k)[1] = k
         /\ KeysIn(Rotate(k)) = {k} \union KeysIn(ring)
<1> DEFINE s == <<k>> \o ring
<1>1. s \in Seq(Keys) /\ Len(s) = Len(ring) + 1 /\ Len(ring) \in Nat
      /\ s[1] = k /\ \A i \in 1..Len(ring) : s[i + 1] = ring[i]
  OBVIOUS
<1>2. DOMAIN s = 1..Len(s) /\ DOMAIN ring = 1..Len(ring)
  BY <1>1
<1>3. s # <<>>
  BY <1>1
<1> HIDE DEF s
<1>4. KeysIn(s) \subseteq {k} \union KeysIn(ring)
  <2> SUFFICES ASSUME NEW i \in DOMAIN s PROVE s[i] = k \/ s[i] \in KeysIn(ring)
    BY DEF KeysIn
  <2>1. i = 1 \/ (i - 1 \in 1..Len(ring) /\ i = (i - 1) + 1)
    BY <1>1, <1>2
  <2> QED
    BY <1>1, <1>2, <2>1 DEF KeysIn
<1>5. {k} \union KeysIn(ring) \subseteq KeysIn(s)
  <2>1. 1 \in DOMAIN s /\ \A i \in 1..Len(ring) : i + 1 \in DOMAIN s
    BY <1>1, <1>2
  <2> QED
    BY <1>1, <1>2, <2>1 DEF KeysIn
<1> QED
  BY <1>1, <1>3, <1>4, <1>5 DEF s, Rotate

\* load_keys: the key of the key file is the first.
LEMMA LoadedFacts ==
  ASSUME Loadable, oldFile \in KeyOrEmpty \union {Absent}
  PROVE  /\ Loaded \in Seq(Keys) /\ Loaded # <<>> /\ Loaded[1] = keyFile
         /\ KeysIn(Loaded) = {keyFile} \union ({oldFile} \ {Absent})
         /\ keyFile \in KeysIn(Loaded)
<1>1. CASE oldFile = Absent
  <2>1. Loaded = <<keyFile>> /\ keyFile \in Keys
    BY <1>1 DEF Loaded, Loadable
  <2>2. DOMAIN <<keyFile>> = {1}
    OBVIOUS
  <2> QED
    BY <1>1, <2>1, <2>2 DEF KeysIn
<1>2. CASE oldFile # Absent
  <2>1. Loaded = <<keyFile, oldFile>> /\ keyFile \in Keys /\ oldFile \in Keys
    BY <1>2 DEF Loaded, Loadable, KeyOrEmpty
  <2>2. DOMAIN <<keyFile, oldFile>> = {1, 2}
    OBVIOUS
  <2> QED
    BY <1>2, <2>1, <2>2 DEF KeysIn
<1> QED
  BY <1>1, <1>2

\* The types, with the rows of the requests under their name.
LEMMA RotationTypes ==
  RotationTypeOK <=>
    /\ up \in BOOLEAN /\ ring \in Seq(Keys) /\ made \in Keys
    /\ keyFile \in KeyOrEmpty /\ oldFile \in KeyOrEmpty \union {Absent}
    /\ sealed \in [Rows -> Keys] /\ writing \in [Rows -> KeyOrEmpty]
    /\ cached \in Seq(Keys) /\ invalid \in BOOLEAN
    /\ request \in [Rotations -> RequestRows]
    /\ outages \in 0..MaxOutages /\ unsure \in BOOLEAN /\ harmed \in BOOLEAN
BY DEF RotationTypeOK, RequestRows

\* The fields of a request.
LEMMA RequestFields ==
  ASSUME NEW v \in RequestRows
  PROVE  /\ v.pc \in Pcs /\ v.key \in KeyOrEmpty /\ v.table \in 1..2
         /\ v.seen \in [Rows -> Keys] /\ v.todo \subseteq Rows
         /\ v.text \in KeyOrEmpty \union {Absent} /\ v.alone \in BOOLEAN
BY DEF RequestRows

\* The fields of a rotation that starts or ends.
LEMMA AtFields ==
  \A pc, j : /\ At(pc, j).pc = pc /\ At(pc, j).key = j /\ At(pc, j).table = 1
             /\ At(pc, j).todo = {} /\ At(pc, j).text = Absent /\ At(pc, j).alone = TRUE
BY DEF At

\* It is a row.
LEMMA AtRows ==
  \A pc \in Pcs, j \in KeyOrEmpty : At(pc, j) \in RequestRows
<1> TAKE pc \in Pcs, j \in KeyOrEmpty
<1>1. [r \in Rows |-> 1] \in [Rows -> Keys]
  BY KeyFacts
<1> DEFINE f == [r \in Rows |-> 1]
<1> HIDE DEF f
<1>2. At(pc, j) = [pc |-> pc, key |-> j, table |-> 1, seen |-> f, todo |-> {},
                   text |-> Absent, alone |-> TRUE]
  BY DEF At, f
<1> QED
  BY <1>1, <1>2 DEF RequestRows, f

\* A step of a request that is not new leaves as many keys as before.
LEMMA KeysLeftStep ==
  ASSUME RotationInv, UNCHANGED made,
         \A q \in Rotations : request'[q].pc = "new" <=> request[q].pc = "new"
  PROVE  KeysLeft'
<1>1. {q \in Rotations : request'[q].pc = "new"} = {q \in Rotations : request[q].pc = "new"}
  OBVIOUS
<1> QED
  BY <1>1 DEF RotationInv, KeysLeft

\* One key, in its file, seals every row at the start.
LEMMA RotationInitial ==
  ASSUME RotationInit
  PROVE  RotationInv
<1>0. up = TRUE /\ ring = <<1>> /\ made = 1 /\ keyFile = 1 /\ oldFile = Absent
      /\ sealed = [r \in Rows |-> 1] /\ writing = [r \in Rows |-> Empty]
      /\ cached = <<>> /\ invalid = FALSE
      /\ request = [q \in Rotations |-> At("new", Empty)]
      /\ outages = 0 /\ unsure = FALSE /\ harmed = FALSE
  BY DEF RotationInit
<1>1. At("new", Empty) \in RequestRows /\ At("new", Empty).pc = "new"
  <2>1. "new" \in Pcs /\ Empty \in KeyOrEmpty
    BY DEF Pcs, KeyOrEmpty
  <2> QED
    BY <2>1, AtRows, AtFields
<1>2. RotationTypeOK
  <2>1. ring \in Seq(Keys) /\ cached \in Seq(Keys)
    BY <1>0, KeyFacts
  <2>2. request \in [Rotations -> RequestRows]
    BY <1>0, <1>1
  <2>3. sealed \in [Rows -> Keys] /\ writing \in [Rows -> KeyOrEmpty]
    BY <1>0, KeyFacts DEF KeyOrEmpty
  <2>4. made \in Keys /\ keyFile \in KeyOrEmpty /\ oldFile \in KeyOrEmpty \union {Absent}
    BY <1>0, KeyFacts DEF KeyOrEmpty
  <2>5. up \in BOOLEAN /\ invalid \in BOOLEAN /\ unsure \in BOOLEAN /\ harmed \in BOOLEAN
    BY <1>0, Zenon
  <2>6. outages \in 0..MaxOutages
    BY <1>0, RotationAssumption
  <2> QED
    BY <2>1, <2>2, <2>3, <2>4, <2>5, <2>6, RotationTypes
<1>3. \A q \in Rotations : request[q].pc = "new"
  BY <1>0, <1>1
<1>4. Active = {}
  BY <1>3 DEF Active, Working
<1>5. KeysLeft
  <2>1. {q \in Rotations : request[q].pc = "new"} = Rotations
    BY <1>3
  <2>2. made + Cardinality(Rotations) = Cardinality(Rotations) + 1
    BY <1>0, KeyFacts
  <2> QED
    BY <2>1, <2>2, Zenon DEF KeysLeft
<1>6. Loadable
  BY <1>0, KeyFacts DEF Loadable
<1>7. KeysIn(ring) = {1} /\ Loaded = ring
  <2>1. DOMAIN <<1>> = {1}
    OBVIOUS
  <2> QED
    BY <1>0, <2>1 DEF KeysIn, Loaded
<1>8. KeysMade /\ DownForgets /\ CachedFront /\ AloneIsOne /\ AloneOK
  BY <1>0, <1>4 DEF KeysMade, DownForgets, CachedFront, AloneIsOne, AloneOK
<1>9. KeysIn(cached) = {} /\ ring # <<>>
  BY <1>0 DEF KeysIn
<1>10. RingHolds
  BY <1>0, <1>4, <1>7, <1>9 DEF RingHolds
<1>11. SettledUp /\ SettledDown /\ RingOpens /\ FilesOpen
  BY <1>0, <1>6, <1>7 DEF SettledUp, SettledDown, RingOpens, FilesOpen
<1> QED
  BY <1>2, <1>5, <1>8, <1>10, <1>11 DEF RotationInv

\* The inductive invariant is the property of the run, and more.
LEMMA RotationInvImplies ==
  ASSUME RotationInv
  PROVE  SealedOpens
<1>1. RotationTypeOK /\ RingOpens /\ FilesOpen
  BY DEF RotationInv
<1>2. StorageOpens
  <2> SUFFICES ASSUME up, ~unsure, ~invalid, NEW r \in DnsRows, sealed[r] \in KeysIn(ring)
               PROVE  sealed[r] \in KeysIn(SecretKeys)
    BY DEF StorageOpens
  <2>1. SecretKeys = Loaded
    BY DEF RotationInv, SettledUp, SecretKeys
  <2>2. sealed[r] \in KeysIn(Loaded)
    BY DEF RotationInv, FilesOpen, Rows
  <2> QED
    BY <2>1, <2>2
<1> QED
  BY <1>1, <1>2 DEF SealedOpens

-----------------------------------------------------------------------------
\* What stays when neither the requests nor the files change.
LEMMA SameFiles ==
  ASSUME RotationInv, UNCHANGED <<ring, made, keyFile, oldFile, request, unsure>>
  PROVE  /\ Active' = Active /\ Loaded' = Loaded /\ (Loadable' <=> Loadable)
         /\ KeysIn(ring)' = KeysIn(ring) /\ KeysIn(Loaded)' = KeysIn(Loaded)
         /\ \A q \in Rotations : Base(q)' = Base(q) /\ Left(q)' = Left(q)
         /\ KeysLeft' /\ KeysMade' /\ AloneIsOne'
<1>1. Active' = Active /\ Loaded' = Loaded /\ (Loadable' <=> Loadable)
  BY DEF Active, Loaded, Loadable
<1>2. KeysIn(ring)' = KeysIn(ring) /\ KeysIn(Loaded)' = KeysIn(Loaded)
  BY <1>1 DEF KeysIn
<1>3. \A q \in Rotations : Base(q)' = Base(q) /\ Left(q)' = Left(q)
  BY DEF Base, Left
<1>4. KeysLeft'
  BY KeysLeftStep
<1>5. KeysMade' /\ AloneIsOne'
  BY <1>1 DEF RotationInv, KeysMade, AloneIsOne
<1> QED
  BY <1>1, <1>2, <1>3, <1>4, <1>5

\* secret_keys of a running process: the keys are in the memory of the platform too.
LEMMA SecretFacts ==
  ASSUME RotationInv, up, cached # <<>> \/ Loadable
  PROVE  /\ SecretKeys \in Seq(Keys) /\ SecretKeys # <<>>
         /\ KeysIn(SecretKeys) \subseteq KeysIn(ring)
         /\ SecretKeys[1] \in Keys /\ SecretKeys[1] \in KeysIn(ring)
         /\ \/ SecretKeys = cached
            \/ cached = <<>> /\ Loadable /\ SecretKeys = Loaded /\ SecretKeys[1] = keyFile
<1>0. cached \in Seq(Keys) /\ oldFile \in KeyOrEmpty \union {Absent}
  BY DEF RotationInv, RotationTypeOK
<1>1. CASE cached # <<>>
  <2>1. SecretKeys = cached /\ KeysIn(cached) \subseteq KeysIn(ring)
    BY <1>1 DEF SecretKeys, RotationInv, RingHolds
  <2> QED
    BY <1>0, <1>1, <2>1, RingFront
<1>2. CASE cached = <<>> /\ Loadable
  <2>1. SecretKeys = Loaded
    BY <1>2 DEF SecretKeys
  <2>2. /\ Loaded \in Seq(Keys) /\ Loaded # <<>> /\ Loaded[1] = keyFile
        /\ KeysIn(Loaded) = {keyFile} \union ({oldFile} \ {Absent})
        /\ keyFile \in KeysIn(Loaded)
    BY <1>0, <1>2, LoadedFacts
  <2>3. keyFile \in Keys /\ oldFile # Empty
    BY <1>2 DEF Loadable
  <2>4. KeysIn(Loaded) \subseteq KeysIn(ring)
    BY <2>2, <2>3, KeyFacts DEF RotationInv, RingHolds
  <2> QED
    BY <1>2, <2>1, <2>2, <2>3, <2>4
<1> QED
  BY <1>1, <1>2

\* A value is sealed beside the rotations.
LEMMA SealStep ==
  ASSUME RotationInv, NEW r \in Rows, SealValue(r)
  PROVE  RotationInv'
<1>0. RotationTypeOK /\ up /\ up'
      /\ UNCHANGED <<up, ring, made, keyFile, oldFile, sealed, invalid, request, outages,
                     unsure, harmed>>
  BY DEF RotationInv, SealValue
<1>1. ring \in Seq(Keys) /\ ring # <<>> /\ cached \in Seq(Keys)
      /\ ring[1] \in Keys /\ ring[1] \in KeysIn(ring)
  BY <1>0, RingFront DEF RotationInv, RingHolds, RotationTypeOK
<1>2. PICK k \in Keys :
        /\ writing' = [writing EXCEPT ![r] = k] /\ k \in KeysIn(ring)
        /\ cached' \in Seq(Keys) /\ KeysIn(cached') \subseteq KeysIn(ring)
        /\ k = ring[1] \/ (cached' # <<>> /\ k = cached'[1])
        /\ \/ cached' = cached
           \/ cached = <<>> /\ Loadable /\ cached' = Loaded /\ cached'[1] = keyFile
  <2>1. CASE r \in EnvRows /\ writing' = [writing EXCEPT ![r] = ring[1]] /\ UNCHANGED cached
    BY <1>0, <1>1, <2>1 DEF RotationInv, RingHolds
  <2>2. CASE r \in DnsRows /\ (cached # <<>> \/ Loadable) /\ cached' = SecretKeys
             /\ writing' = [writing EXCEPT ![r] = SecretKeys[1]]
    BY <1>0, <2>2, SecretFacts
  <2> QED
    BY <2>1, <2>2 DEF SealValue
<1>3. /\ Active' = Active /\ Loaded' = Loaded /\ (Loadable' <=> Loadable)
      /\ KeysIn(ring)' = KeysIn(ring) /\ KeysIn(Loaded)' = KeysIn(Loaded)
      /\ \A q \in Rotations : Base(q)' = Base(q) /\ Left(q)' = Left(q)
      /\ KeysLeft' /\ KeysMade' /\ AloneIsOne'
  BY <1>0, SameFiles
<1>4. writing' \in [Rows -> KeyOrEmpty] /\ writing'[r] = k
      /\ \A s \in Rows \ {r} : writing'[s] = writing[s]
  BY <1>0, <1>2 DEF RotationTypeOK, KeyOrEmpty
<1>5. RotationTypeOK'
  BY <1>0, <1>2, <1>4 DEF RotationTypeOK
<1>6. DownForgets' /\ CachedFront' /\ SettledDown'
  BY <1>0, <1>2 DEF RotationInv, DownForgets, CachedFront, SettledDown
<1>7. RingHolds'
  BY <1>0, <1>2, <1>3 DEF RotationInv, RingHolds
<1>8. RingOpens'
  BY <1>0, <1>2, <1>3, <1>4 DEF RotationInv, RingOpens
<1>9. FilesOpen'
  BY <1>0, <1>3 DEF RotationInv, FilesOpen
<1>10. AloneOK'
  <2> SUFFICES ASSUME NEW q \in Active', request'[q].alone
               PROVE  AloneFiles(q)' /\ AloneRows(q)'
    BY DEF AloneOK
  <2>1. q \in Active /\ q \in Rotations /\ request[q].alone
    BY <1>0, <1>3 DEF Active
  <2>2. AloneFiles(q) /\ AloneRows(q)
    BY <2>1 DEF RotationInv, AloneOK
  <2>3. AloneFiles(q)'
    BY <1>0, <2>2 DEF AloneFiles
  <2>4. ASSUME Base(q) \in Keys
        PROVE  (cached' # <<>> => cached'[1] = Base(q)) /\ k \in {Base(q), request[q].key}
    <3>1. cached' # <<>> => cached'[1] = Base(q)
      <4>1. CASE cached' = cached
        BY <2>2, <2>4, <4>1 DEF AloneRows
      <4>2. CASE Loadable /\ cached'[1] = keyFile
        BY <2>2, <4>2, KeyFacts DEF AloneFiles, Base, Loadable
      <4> QED
        BY <1>2, <4>1, <4>2
    <3> QED
      BY <1>2, <2>2, <3>1 DEF AloneFiles
  <2>5. AloneRows(q)'
    BY <1>0, <1>3, <1>4, <2>1, <2>2, <2>4 DEF AloneRows
  <2> QED
    BY <2>3, <2>5
<1>11. SettledUp'
  <2> SUFFICES ASSUME ~unsure
               PROVE  /\ ring[1] \in KeysIn(Loaded)
                      /\ cached' # <<>> => cached'[1] \in KeysIn(Loaded)
                      /\ ~invalid => cached' = <<>> \/ cached' = Loaded
                      /\ \A s \in Rows :
                           writing'[s] \in KeysIn(ring) =>
                             writing'[s] \in KeysIn(Loaded) \union {Empty}
    BY <1>0, <1>3 DEF SettledUp
  <2>1. /\ ring[1] \in KeysIn(Loaded)
        /\ cached # <<>> => cached[1] \in KeysIn(Loaded)
        /\ ~invalid => cached = <<>> \/ cached = Loaded
        /\ \A s \in Rows :
             writing[s] \in KeysIn(ring) => writing[s] \in KeysIn(Loaded) \union {Empty}
    BY <1>0 DEF RotationInv, SettledUp
  <2>2. keyFile \in KeysIn(Loaded)
    BY <1>0, LoadedFacts DEF RotationInv, FilesOpen, RotationTypeOK
  <2> QED
    BY <1>2, <1>4, <2>1, <2>2
<1> QED
  BY <1>3, <1>5, <1>6, <1>7, <1>8, <1>9, <1>10, <1>11 DEF RotationInv

\* A sealed value is read, to be stored as it is.
LEMMA KeepStep ==
  ASSUME RotationInv, NEW r \in Rows, KeepValue(r)
  PROVE  RotationInv'
<1>0. RotationTypeOK /\ up /\ up'
      /\ UNCHANGED <<up, ring, made, keyFile, oldFile, sealed, cached, invalid, outages,
                     unsure, harmed>>
  BY DEF RotationInv, KeepValue
<1>1. /\ request \in [Rotations -> RequestRows]
      /\ writing \in [Rows -> KeyOrEmpty] /\ sealed \in [Rows -> Keys]
  BY <1>0 DEF RotationTypeOK, RequestRows
<1>2. request' = [q \in Rotations |-> [request[q] EXCEPT !.alone =
        @ /\ (q \in Active => sealed[r] \in {Base(q), request[q].key})]]
  BY DEF KeepValue
<1>3. \A q \in Rotations :
        /\ request'[q] \in RequestRows
        /\ request'[q].pc = request[q].pc /\ request'[q].key = request[q].key
        /\ request'[q].table = request[q].table /\ request'[q].seen = request[q].seen
        /\ request'[q].todo = request[q].todo /\ request'[q].text = request[q].text
        /\ request'[q].alone =>
             request[q].alone /\ (q \in Active => sealed[r] \in {Base(q), request[q].key})
  BY <1>1, <1>2 DEF RequestRows
<1>4. request' \in [Rotations -> RequestRows]
  BY <1>2, <1>3
<1>5. writing' \in [Rows -> KeyOrEmpty] /\ writing'[r] = sealed[r]
      /\ \A s \in Rows \ {r} : writing'[s] = writing[s]
  BY <1>1 DEF KeepValue, KeyOrEmpty
<1>6. RotationTypeOK'
  BY <1>0, <1>4, <1>5 DEF RotationTypeOK, RequestRows
<1>7. /\ Active' = Active /\ Loaded' = Loaded /\ (Loadable' <=> Loadable)
      /\ KeysIn(ring)' = KeysIn(ring) /\ KeysIn(Loaded)' = KeysIn(Loaded)
      /\ KeysIn(cached)' = KeysIn(cached)
  BY <1>0, <1>3 DEF Active, Loaded, Loadable, KeysIn
<1>8. \A q \in Rotations : Base(q)' = Base(q) /\ Left(q)' = Left(q)
  BY <1>0, <1>3 DEF Base, Left
<1>9. KeysLeft'
  BY <1>0, <1>3, KeysLeftStep
<1>10. KeysMade' /\ AloneIsOne'
  BY <1>0, <1>3, <1>7 DEF RotationInv, KeysMade, AloneIsOne, Active
<1>11. DownForgets' /\ CachedFront' /\ SettledDown'
  BY <1>0, <1>7 DEF RotationInv, DownForgets, CachedFront, SettledDown
<1>12. RingHolds'
  BY <1>0, <1>3, <1>7 DEF RotationInv, RingHolds, Active
<1>13. RingOpens'
  BY <1>0, <1>5, <1>7 DEF RotationInv, RingOpens
<1>14. FilesOpen'
  BY <1>0, <1>7 DEF RotationInv, FilesOpen
<1>15. SettledUp'
  <2> SUFFICES ASSUME ~unsure, NEW s \in Rows, writing'[s] \in KeysIn(ring)
               PROVE  writing'[s] \in KeysIn(Loaded) \union {Empty}
    BY <1>0, <1>7 DEF RotationInv, SettledUp
  <2>1. CASE s = r
    BY <1>0, <1>5, <2>1 DEF RotationInv, FilesOpen
  <2>2. CASE s # r
    BY <1>0, <1>5, <2>2 DEF RotationInv, SettledUp
  <2> QED
    BY <2>1, <2>2
<1>16. AloneOK'
  <2> SUFFICES ASSUME NEW q \in Active', request'[q].alone
               PROVE  AloneFiles(q)' /\ AloneRows(q)'
    BY DEF AloneOK
  <2>1. q \in Active /\ q \in Rotations /\ request[q].alone
        /\ sealed[r] \in {Base(q), request[q].key}
    BY <1>3, <1>7 DEF Active
  <2>2. AloneFiles(q) /\ AloneRows(q)
    BY <2>1 DEF RotationInv, AloneOK
  <2>3. AloneFiles(q)'
    BY <1>0, <1>3, <2>1, <2>2 DEF AloneFiles
  <2>4. AloneRows(q)'
    BY <1>0, <1>3, <1>5, <1>7, <1>8, <2>1, <2>2 DEF AloneRows
  <2> QED
    BY <2>3, <2>4
<1> QED
  BY <1>6, <1>9, <1>10, <1>11, <1>12, <1>13, <1>14, <1>15, <1>16 DEF RotationInv

\* A sealed value is stored.
LEMMA StoreStep ==
  ASSUME RotationInv, NEW r \in Rows, StoreValue(r)
  PROVE  RotationInv'
<1>0. RotationTypeOK /\ up /\ up'
      /\ UNCHANGED <<up, ring, made, keyFile, oldFile, cached, invalid, request, outages,
                     unsure, harmed>>
      /\ writing[r] # Empty
  BY DEF RotationInv, StoreValue
<1>1. writing[r] \in Keys
  BY <1>0 DEF RotationTypeOK, KeyOrEmpty
<1>2. /\ sealed' \in [Rows -> Keys] /\ sealed'[r] = writing[r]
      /\ writing' \in [Rows -> KeyOrEmpty] /\ writing'[r] = Empty
      /\ \A s \in Rows \ {r} : sealed'[s] = sealed[s] /\ writing'[s] = writing[s]
  BY <1>0, <1>1 DEF RotationTypeOK, KeyOrEmpty, StoreValue
<1>3. /\ Active' = Active /\ Loaded' = Loaded /\ (Loadable' <=> Loadable)
      /\ KeysIn(ring)' = KeysIn(ring) /\ KeysIn(Loaded)' = KeysIn(Loaded)
      /\ \A q \in Rotations : Base(q)' = Base(q) /\ Left(q)' = Left(q)
      /\ KeysLeft' /\ KeysMade' /\ AloneIsOne'
  BY <1>0, SameFiles
<1>4. RotationTypeOK'
  BY <1>0, <1>2 DEF RotationTypeOK
<1>5. DownForgets' /\ CachedFront' /\ SettledDown'
  BY <1>0 DEF RotationInv, DownForgets, CachedFront, SettledDown
<1>6. KeysIn(cached)' = KeysIn(cached)
  BY <1>0 DEF KeysIn
<1>7. RingHolds'
  BY <1>0, <1>3, <1>6 DEF RotationInv, RingHolds
<1>8. RingOpens'
  BY <1>0, <1>2, <1>3 DEF RotationInv, RingOpens
<1>9. SettledUp' /\ FilesOpen'
  BY <1>0, <1>2, <1>3 DEF RotationInv, FilesOpen, SettledUp
<1>10. AloneOK'
  <2> SUFFICES ASSUME NEW q \in Active', request'[q].alone
               PROVE  AloneFiles(q)' /\ AloneRows(q)'
    BY DEF AloneOK
  <2>1. q \in Active /\ q \in Rotations /\ request[q].alone
    BY <1>0, <1>3 DEF Active
  <2>2. AloneFiles(q) /\ AloneRows(q)
    BY <2>1 DEF RotationInv, AloneOK
  <2>3. AloneFiles(q)'
    BY <1>0, <2>2 DEF AloneFiles
  <2>4. Base(q) \in Keys => writing[r] \in {Base(q), request[q].key}
    BY <1>0, <2>2 DEF AloneRows
  <2>5. AloneRows(q)'
    BY <1>0, <1>2, <1>3, <2>1, <2>2, <2>4 DEF AloneRows
  <2> QED
    BY <2>3, <2>5
<1> QED
  BY <1>3, <1>4, <1>5, <1>7, <1>8, <1>9, <1>10 DEF RotationInv

\* The DNS storage forgets its keys, or nothing happens.
LEMMA InvalidateStep ==
  ASSUME RotationInv, InvalidateSecrets \/ UNCHANGED rotationVars
  PROVE  RotationInv'
<1>0. UNCHANGED <<up, ring, made, keyFile, oldFile, sealed, writing, request, outages,
                  unsure, harmed>>
  BY DEF InvalidateSecrets, rotationVars
<1>1. /\ Active' = Active /\ Loaded' = Loaded /\ (Loadable' <=> Loadable)
      /\ KeysIn(ring)' = KeysIn(ring) /\ KeysIn(Loaded)' = KeysIn(Loaded)
      /\ \A q \in Rotations : Base(q)' = Base(q) /\ Left(q)' = Left(q)
      /\ KeysLeft' /\ KeysMade' /\ AloneIsOne'
  BY <1>0, SameFiles
<1>2. (cached' = <<>> /\ invalid' = FALSE) \/ UNCHANGED <<cached, invalid>>
  BY DEF InvalidateSecrets, rotationVars
<1>3. KeysIn(<<>>) = {} /\ KeysIn(cached') \subseteq KeysIn(cached)
  BY <1>2 DEF KeysIn
<1>4. RotationTypeOK'
  <2>1. invalid' \in BOOLEAN
    BY <1>2 DEF RotationInv, RotationTypeOK
  <2>2. cached' \in Seq(Keys)
    <3>1. <<>> \in Seq(Keys) /\ cached \in Seq(Keys)
      BY DEF RotationInv, RotationTypeOK
    <3> QED
      BY <1>2, <3>1, Zenon
  <2> QED
    BY <1>0, <2>1, <2>2 DEF RotationInv, RotationTypeOK
<1>5. DownForgets' /\ CachedFront' /\ SettledDown'
  BY <1>0, <1>1, <1>2 DEF RotationInv, DownForgets, CachedFront, SettledDown
<1>6. RingHolds' /\ RingOpens'
  BY <1>0, <1>1, <1>3 DEF RotationInv, RingHolds, RingOpens
<1>7. SettledUp' /\ FilesOpen'
  BY <1>0, <1>1, <1>2 DEF RotationInv, FilesOpen, SettledUp
<1>8. AloneOK'
  <2> SUFFICES ASSUME NEW q \in Active', request'[q].alone
               PROVE  AloneFiles(q)' /\ AloneRows(q)'
    BY DEF AloneOK
  <2>1. q \in Active /\ q \in Rotations /\ request[q].alone
    BY <1>0, <1>1 DEF Active
  <2>2. AloneFiles(q) /\ AloneRows(q)
    BY <2>1 DEF RotationInv, AloneOK
  <2>3. AloneFiles(q)' /\ AloneRows(q)'
    BY <1>0, <1>1, <1>2, <2>1, <2>2 DEF AloneFiles, AloneRows
  <2> QED
    BY <2>3
<1> QED
  BY <1>1, <1>4, <1>5, <1>6, <1>7, <1>8 DEF RotationInv

\* A rotation begins.
LEMMA StartStep ==
  ASSUME RotationInv, NEW q \in Rotations, StartRotation(q)
  PROVE  RotationInv'
<1> DEFINE k == made + 1
           nb == NothingBeside
           New == {p \in Rotations : request[p].pc = "new"}
<1>0. RotationTypeOK /\ up /\ up' /\ request[q].pc = "new" /\ made' = k /\ unsure' = TRUE
      /\ UNCHANGED <<up, keyFile, oldFile, sealed, writing, cached, invalid, outages, harmed>>
  BY DEF RotationInv, StartRotation
<1>1. k \in Keys /\ made \in Nat /\ IsFiniteSet(New)
      /\ Cardinality(New \ {q}) = Cardinality(New) - 1 /\ Cardinality(New) \in Nat
  <2>1. IsFiniteSet(New)
    BY RotationAssumption, FS_Subset
  <2>2. Cardinality(New \ {q}) = Cardinality(New) - 1 /\ Cardinality(New) \in Nat
        /\ Cardinality(New) # 0
    BY <1>0, <2>1, FS_RemoveElement, FS_CardinalityType, FS_EmptySet
  <2>3. made + Cardinality(New) = Cardinality(Rotations) + 1 /\ made \in Nat /\ made >= 1
    BY <1>0, KeyFacts DEF RotationInv, KeysLeft, RotationTypeOK, Keys
  <2> HIDE DEF New
  <2>4. k \in 1..(Cardinality(Rotations) + 1)
    BY <2>2, <2>3, KeyFacts
  <2> QED
    BY <2>1, <2>2, <2>3, <2>4 DEF Keys
<1>2. /\ ring' \in Seq(Keys) /\ ring' # <<>> /\ ring'[1] = k
      /\ KeysIn(ring') = {k} \union KeysIn(ring)
  BY <1>0, <1>1, RotateFacts DEF StartRotation, RotationTypeOK
<1>3. /\ request' \in [Rotations -> RequestRows]
      /\ request'[q].pc = "select" /\ request'[q].key = k /\ request'[q].table = 1
      /\ request'[q].text = Absent /\ (request'[q].alone <=> nb)
      /\ \A p \in Rotations \ {q} :
           /\ request'[p].pc = request[p].pc /\ request'[p].key = request[p].key
           /\ request'[p].text = request[p].text
           /\ request'[p].alone => p \notin Active
  <2> DEFINE v == [At("select", k) EXCEPT !.alone = nb]
  <2>1. At("select", k) \in RequestRows /\ At("select", k).pc = "select"
        /\ At("select", k).key = k /\ At("select", k).table = 1
        /\ At("select", k).text = Absent
    <3>1. "select" \in Pcs /\ k \in KeyOrEmpty
      BY <1>1 DEF Pcs, KeyOrEmpty
    <3> HIDE DEF k, v
    <3> QED
      BY <3>1, AtRows, AtFields
  <2>2. nb \in BOOLEAN
    BY DEF NothingBeside
  <2> HIDE DEF nb
  <2>3. v \in RequestRows /\ v.pc = "select" /\ v.key = k /\ v.table = 1 /\ v.text = Absent
        /\ v.alone = nb
    BY <2>1, <2>2 DEF RequestRows
  <2> HIDE DEF v
  <2> DEFINE w(p) == [request[p] EXCEPT !.alone = @ /\ p \notin Active]
  <2>4. ASSUME NEW p \in Rotations
        PROVE  /\ w(p) \in RequestRows /\ w(p).pc = request[p].pc
               /\ w(p).key = request[p].key /\ w(p).text = request[p].text
               /\ w(p).alone => p \notin Active
    <3>1. request[p] \in RequestRows
      BY <1>0, RotationTypes
    <3> DEFINE al == request[p].alone /\ p \notin Active
    <3>2. al \in BOOLEAN /\ (al => p \notin Active)
      OBVIOUS
    <3> HIDE DEF al
    <3>3. w(p) = [request[p] EXCEPT !.alone = al]
      BY DEF al
    <3> QED
      BY <3>1, <3>2, <3>3 DEF RequestRows
  <2>5. request' = [p \in Rotations |-> IF p = q THEN v ELSE w(p)]
    BY DEF StartRotation, v, nb
  <2> HIDE DEF w
  <2> QED
    BY <2>3, <2>4, <2>5
<1> HIDE DEF k, nb
<1>4. Active' = Active \union {q} /\ q \notin Active
  BY <1>0, <1>3 DEF Active, Working
<1>5. KeysLeft'
  <2>1. {p \in Rotations : request'[p].pc = "new"} = New \ {q}
    BY <1>3
  <2>2. made + Cardinality(New) = Cardinality(Rotations) + 1
    BY DEF RotationInv, KeysLeft
  <2> HIDE DEF New
  <2>3. k + Cardinality(New \ {q}) = Cardinality(Rotations) + 1
    BY <1>1, <2>2, KeyFacts DEF k
  <2> QED
    BY <1>0, <2>1, <2>3 DEF KeysLeft
<1>6. RotationTypeOK'
  <2>1. unsure' \in BOOLEAN /\ made' \in Keys
    BY <1>0, <1>1
  <2> QED
    BY <1>0, <1>2, <1>3, <2>1 DEF RotationTypeOK, RequestRows
<1>7. KeysMade'
  <2>1. keyFile <= made /\ keyFile \in Nat /\ made \in Nat /\ k = made + 1
    BY <1>0, <1>1, KeyFacts DEF RotationInv, KeysMade, RotationTypeOK, KeyOrEmpty, Empty, k
  <2>2. \A p \in Active' : p \in Rotations /\ (p # q => p \in Active)
    BY <1>4 DEF Active
  <2>3. \A p \in Active' : request'[p].key \in Keys /\ request'[p].key <= k
    BY <1>1, <1>3, <2>1, <2>2, KeyFacts DEF RotationInv, KeysMade
  <2> QED
    BY <1>0, <2>1, <2>3 DEF KeysMade
<1>8. DownForgets' /\ CachedFront' /\ SettledDown' /\ SettledUp' /\ FilesOpen'
  BY <1>0 DEF RotationInv, DownForgets, CachedFront, SettledDown, SettledUp, FilesOpen
<1>9. RingHolds'
  <2>1. KeysIn(cached') = KeysIn(cached) /\ KeysIn(ring)' = KeysIn(ring')
    BY <1>0 DEF KeysIn
  <2>2. \A p \in Active' : p \in Rotations /\ (p # q => p \in Active)
    BY <1>4 DEF Active
  <2>3. \A p \in Active' : request'[p].key \in KeysIn(ring')
             /\ request'[p].text \in KeysIn(ring') \union {Empty, Absent}
    BY <1>0, <1>2, <1>3, <2>2 DEF RotationInv, RingHolds
  <2> QED
    BY <1>0, <1>2, <2>1, <2>3 DEF RotationInv, RingHolds
<1>10. RingOpens'
  BY <1>0, <1>2 DEF RotationInv, RingOpens
<1>11. AloneIsOne'
  <2>1. nb => Active = {}
    BY DEF nb, NothingBeside
  <2> SUFFICES ASSUME NEW p \in Active', request'[p].alone PROVE Active' = {p}
    BY <1>0 DEF AloneIsOne
  <2>2. p = q
    BY <1>3, <1>4 DEF Active
  <2> QED
    BY <1>3, <1>4, <2>1, <2>2
<1>12. AloneOK'
  <2> SUFFICES ASSUME NEW p \in Active', request'[p].alone
               PROVE  AloneFiles(p)' /\ AloneRows(p)'
    BY DEF AloneOK
  <2>1. p = q
    BY <1>3, <1>4 DEF Active
  <2>2. Active = {} /\ ~invalid /\ \A r \in Rows : writing[r] \in {Empty, keyFile}
    BY <1>3, <2>1 DEF nb, NothingBeside
  <2>3. AloneFiles(q)'
    BY <1>0, <1>2, <1>3, <2>2 DEF AloneFiles
  <2>4. Base(q)' = keyFile /\ Left(q)' = Rows
    BY <1>0, <1>3 DEF Base, Left
  <2>5. keyFile # k
    BY <1>0, <1>1, KeyFacts DEF RotationInv, KeysMade, RotationTypeOK, KeyOrEmpty, Empty, k
  <2>6. keyFile \in Keys => (cached # <<>> => cached[1] = keyFile)
    BY <1>0, <2>2, KeyFacts DEF RotationInv, CachedFront
  <2>7. AloneRows(q)'
    BY <1>0, <1>3, <2>2, <2>4, <2>5, <2>6 DEF AloneRows
  <2> QED
    BY <2>1, <2>3, <2>7
<1> QED
  BY <1>5, <1>6, <1>7, <1>8, <1>9, <1>10, <1>11, <1>12 DEF RotationInv

-----------------------------------------------------------------------------
\* A step of a rotation that goes on: what is left to show is about this rotation, and
\* only when it is alone.
LEMMA WorkingStep ==
  ASSUME RotationInv, NEW q \in Rotations, request[q].pc \in Working, up,
         NEW v \in RequestRows, request' = [request EXCEPT ![q] = v],
         v.pc \in Working, v.key = request[q].key, v.alone = request[q].alone,
         v.text \in {request[q].text, keyFile, Absent},
         UNCHANGED <<up, ring, made, cached, invalid, outages, unsure, harmed, writing>>,
         sealed' \in [Rows -> Keys],
         \A r \in Rows : sealed'[r] = sealed[r] \/ sealed'[r] \in KeysIn(ring),
         keyFile' \in {keyFile, Empty}, oldFile' \in {oldFile, Empty, request[q].text},
         request[q].alone => AloneFiles(q)' /\ AloneRows(q)'
  PROVE  RotationInv'
<1>0. RotationTypeOK /\ q \in Active /\ unsure
  BY DEF RotationInv, Active, AloneIsOne
<1>1. /\ request' \in [Rotations -> RequestRows] /\ request'[q] = v
      /\ \A p \in Rotations \ {q} : request'[p] = request[p]
  BY <1>0, RotationTypes
<1>2. Active' = Active
  BY <1>1 DEF Active
<1>3. KeysLeft'
  <2>1. \A p \in Rotations : request'[p].pc = "new" <=> request[p].pc = "new"
    BY <1>1 DEF Working
  <2> QED
    BY <2>1, KeysLeftStep
<1>4. RotationTypeOK'
  <2>1. request[q].text \in KeyOrEmpty \union {Absent}
    BY <1>0, RotationTypes, RequestFields
  <2>2. keyFile' \in KeyOrEmpty /\ oldFile' \in KeyOrEmpty \union {Absent}
    BY <1>0, <2>1 DEF RotationTypeOK, KeyOrEmpty
  <2> QED
    BY <1>0, <1>1, <2>2 DEF RotationTypeOK, RequestRows
<1>5. KeysMade'
  <2>1. keyFile' <= made
    BY <1>0, KeyFacts DEF RotationInv, KeysMade, RotationTypeOK, Empty
  <2>2. \A p \in Active' : request'[p].key = request[p].key
    BY <1>1, <1>2 DEF Active
  <2> QED
    BY <1>2, <2>1, <2>2 DEF RotationInv, KeysMade
<1>6. DownForgets' /\ CachedFront' /\ SettledDown' /\ SettledUp' /\ FilesOpen'
  BY <1>0 DEF RotationInv, DownForgets, CachedFront, SettledDown, SettledUp, FilesOpen
<1>7. RingHolds'
  <2>1. KeysIn(cached)' = KeysIn(cached) /\ KeysIn(ring)' = KeysIn(ring)
    BY DEF KeysIn
  <2>2. \A p \in Active' : p \in Active /\ request'[p].key = request[p].key
          /\ request'[p].text \in {request[p].text, keyFile, Absent}
    BY <1>1, <1>2 DEF Active
  <2>3. request[q].text \in KeysIn(ring) \union {Empty, Absent}
    BY <1>0 DEF RotationInv, RingHolds
  <2> QED
    BY <2>1, <2>2, <2>3 DEF RotationInv, RingHolds
<1>8. RingOpens'
  <2>1. KeysIn(ring)' = KeysIn(ring)
    BY DEF KeysIn
  <2> QED
    BY <2>1 DEF RotationInv, RingOpens
<1>9. AloneIsOne'
  <2>1. \A p \in Active : request'[p].alone = request[p].alone
    BY <1>1 DEF Active
  <2> QED
    BY <1>0, <1>2, <2>1 DEF RotationInv, AloneIsOne
<1>10. AloneOK'
  <2> SUFFICES ASSUME NEW p \in Active', request'[p].alone
               PROVE  AloneFiles(p)' /\ AloneRows(p)'
    BY DEF AloneOK
  <2>1. p = q
    BY <1>0, <1>2, <1>9 DEF AloneIsOne
  <2> QED
    BY <1>1, <2>1
<1> QED
  BY <1>3, <1>4, <1>5, <1>6, <1>7, <1>8, <1>9, <1>10 DEF RotationInv

\* The rows of the tables.
LEMMA TableRows ==
  ASSUME NEW i \in 1..2
  PROVE  Tables[i] = (IF i = 1 THEN EnvRows ELSE DnsRows) /\ Tables[i] \subseteq Rows
BY DEF Tables, Rows

\* The request of a rotation that moves to the second table.
LEMMA NextRow ==
  ASSUME NEW x \in RequestRows, x.table = 1
  PROVE  LET v == [x EXCEPT !.pc = "select", !.table = x.table + 1]
         IN  /\ v \in RequestRows /\ v.pc = "select" /\ v.key = x.key /\ v.table = 2
             /\ v.alone = x.alone /\ v.text = x.text
<1> DEFINE n == x.table + 1
<1>1. n \in 1..2 /\ n = 2 /\ "select" \in Pcs
  BY DEF Pcs
<1> HIDE DEF n
<1>2. [x EXCEPT !.pc = "select", !.table = n] \in RequestRows
  BY <1>1 DEF RequestRows
<1> QED
  BY <1>1, <1>2 DEF RequestRows, n

\* fetch_all, and the move to the next table.
LEMMA TableSteps ==
  ASSUME RotationInv, NEW q \in Rotations, SelectTable(q) \/ NextTable(q)
  PROVE  RotationInv'
<1>0. RotationTypeOK /\ up /\ request[q] \in RequestRows /\ sealed \in [Rows -> Keys]
      /\ request \in [Rotations -> RequestRows]
      /\ UNCHANGED <<up, ring, made, keyFile, oldFile, sealed, writing, cached, invalid,
                     outages, unsure, harmed>>
  BY RotationTypes DEF RotationInv, SelectTable, NextTable
<1>1. request[q].table \in 1..2 /\ request[q].key \in KeyOrEmpty
      /\ request[q].alone \in BOOLEAN
  BY <1>0, RequestFields
<1>2. PICK v \in RequestRows :
        /\ request' = [request EXCEPT ![q] = v] /\ request[q].pc \in Working
        /\ v.pc \in Working \ {"old", "trim", "key"}
        /\ request[q].pc \notin {"old", "trim", "key"}
        /\ v.key = request[q].key /\ v.alone = request[q].alone
        /\ v.text \in {request[q].text, Absent}
        /\ v.pc = "reseal" => v.seen = sealed
        /\ \/ v.pc = "read" /\ request[q].pc = "reseal" /\ request[q].todo = {}
              /\ request[q].table = 2
           \/ v.pc = "select" /\ v.table = 2 /\ request[q].pc = "reseal"
              /\ request[q].todo = {} /\ request[q].table = 1
           \/ v.pc = "reseal" /\ v.table = request[q].table /\ request[q].pc = "select"
              /\ v.todo = Tables[request[q].table]
  <2>1. CASE SelectTable(q)
    <3> DEFINE v == [request[q] EXCEPT !.pc = "reseal", !.seen = sealed,
                                        !.todo = Tables[request[q].table]]
               w == Tables[request[q].table]
    <3>1. request' = [request EXCEPT ![q] = v] /\ request[q].pc = "select"
      BY <1>0, <2>1 DEF SelectTable
    <3>2. w \subseteq Rows
      BY <1>1, TableRows
    <3> HIDE DEF w
    <3>3. v \in RequestRows /\ v.pc = "reseal" /\ v.key = request[q].key /\ v.seen = sealed
          /\ v.alone = request[q].alone /\ v.text = request[q].text
          /\ v.table = request[q].table /\ v.todo = w
      BY <1>0, <1>1, <3>2 DEF RequestRows, Pcs, w
    <3> HIDE DEF v
    <3> QED
      BY <3>1, <3>3 DEF Working, w
  <2>2. CASE NextTable(q) /\ request[q].table = 2
    <3> DEFINE v == [At("read", request[q].key) EXCEPT !.alone = request[q].alone]
    <3>1. request' = [request EXCEPT ![q] = v] /\ request[q].pc = "reseal"
          /\ request[q].todo = {}
      <4>1. Len(Tables) = 2
        BY DEF Tables
      <4> QED
        BY <1>0, <2>2, <4>1 DEF NextTable
    <3>2. At("read", request[q].key) \in RequestRows
          /\ At("read", request[q].key).pc = "read"
          /\ At("read", request[q].key).key = request[q].key
          /\ At("read", request[q].key).text = Absent
      <4>1. "read" \in Pcs
        BY DEF Pcs
      <4> QED
        BY <1>1, <4>1, AtRows, AtFields
    <3>3. v \in RequestRows /\ v.pc = "read" /\ v.key = request[q].key
          /\ v.alone = request[q].alone /\ v.text = Absent
      BY <1>1, <3>2 DEF RequestRows
    <3> HIDE DEF v
    <3> QED
      BY <2>2, <3>1, <3>3 DEF Working
  <2>3. CASE NextTable(q) /\ request[q].table = 1
    <3> DEFINE u == [At("read", request[q].key) EXCEPT !.alone = request[q].alone]
               v == [request[q] EXCEPT !.pc = "select", !.table = request[q].table + 1]
    <3>1. request' = [request EXCEPT ![q] = v] /\ request[q].pc = "reseal"
          /\ request[q].todo = {}
      <4>1. Len(Tables) = 2 /\ request[q].table # 2
        BY <2>3 DEF Tables
      <4>2. request' = [request EXCEPT ![q] = IF request[q].table = Len(Tables) THEN u ELSE v]
            /\ request[q].pc = "reseal" /\ request[q].todo = {}
        BY <2>3 DEF NextTable
      <4> HIDE DEF u, v
      <4> QED
        BY <4>1, <4>2
    <3>2. v \in RequestRows /\ v.pc = "select" /\ v.key = request[q].key /\ v.table = 2
          /\ v.alone = request[q].alone /\ v.text = request[q].text
      BY <1>0, <2>3, NextRow
    <3> HIDE DEF v
    <3> QED
      BY <2>3, <3>1, <3>2 DEF Working
  <2> QED
    BY <1>1, <2>1, <2>2, <2>3
<1>3. request'[q] = v
  BY <1>0, <1>2
<1>4. ASSUME request[q].alone PROVE AloneFiles(q)' /\ AloneRows(q)'
  <2>1. AloneFiles(q) /\ AloneRows(q)
    BY <1>2, <1>4 DEF RotationInv, AloneOK, Active
  <2>2. Base(q)' = Base(q)
    BY <1>0, <1>2, <1>3 DEF Base
  <2>3. Left(q) = Left(q)'
    <3>1. Left(q)' = IF v.pc = "select" THEN IF v.table = 1 THEN Rows ELSE DnsRows
                     ELSE IF v.pc = "reseal"
                          THEN v.todo \union (IF v.table = 1 THEN DnsRows ELSE {})
                          ELSE {}
      BY <1>3 DEF Left
    <3>2. Tables[1] = EnvRows /\ Tables[2] = DnsRows /\ EnvRows \union DnsRows = Rows
      BY DEF Tables, Rows
    <3>3. CASE v.pc = "read" /\ request[q].pc = "reseal" /\ request[q].todo = {}
               /\ request[q].table = 2
      BY <3>1, <3>3 DEF Left
    <3>4. CASE v.pc = "select" /\ v.table = 2 /\ request[q].pc = "reseal"
               /\ request[q].todo = {} /\ request[q].table = 1
      BY <3>1, <3>4 DEF Left
    <3>5. CASE v.pc = "reseal" /\ v.table = request[q].table /\ request[q].pc = "select"
               /\ v.todo = Tables[request[q].table]
      <4>1. CASE request[q].table = 1
        <5>1. Left(q) = Rows
          BY <3>5, <4>1 DEF Left
        <5>2. Left(q)' = EnvRows \union DnsRows
          BY <3>1, <3>2, <3>5, <4>1
        <5> QED
          BY <3>2, <5>1, <5>2
      <4>2. CASE request[q].table = 2
        <5>1. Left(q) = DnsRows
          BY <3>5, <4>2 DEF Left
        <5>2. Left(q)' = DnsRows
          BY <3>1, <3>2, <3>5, <4>2
        <5> QED
          BY <5>1, <5>2
      <4> QED
        BY <1>1, <4>1, <4>2
    <3> QED
      BY <1>2, <3>3, <3>4, <3>5
  <2>4. AloneFiles(q)'
    BY <1>0, <1>2, <1>3, <2>1 DEF AloneFiles
  <2>5. KeysIn(ring)' = KeysIn(ring)
    BY <1>0 DEF KeysIn
  <2>6. AloneRows(q)'
    BY <1>0, <1>2, <1>3, <2>1, <2>2, <2>3, <2>5 DEF AloneRows
  <2> QED
    BY <2>4, <2>6
<1> QED
  BY <1>0, <1>2, <1>4, WorkingStep

\* reseal_value of a row.
LEMMA ResealStep ==
  ASSUME RotationInv, NEW q \in Rotations, NEW r \in Rows, ResealRow(q, r)
  PROVE  RotationInv'
<1>0. RotationTypeOK /\ up /\ request[q] \in RequestRows /\ sealed \in [Rows -> Keys]
      /\ request \in [Rotations -> RequestRows]
      /\ request[q].pc = "reseal" /\ r \in request[q].todo
      /\ UNCHANGED <<up, ring, made, keyFile, oldFile, writing, cached, invalid, outages,
                     unsure, harmed>>
  BY RotationTypes DEF RotationInv, ResealRow
<1>1. ring[1] \in Keys /\ ring[1] \in KeysIn(ring)
  BY <1>0, RingFront DEF RotationInv, RingHolds, RotationTypeOK
<1> DEFINE v == [request[q] EXCEPT !.todo = request[q].todo \ {r}]
           w == request[q].todo \ {r}
<1>2. w \subseteq Rows
  BY <1>0, RequestFields
<1>3. request' = [request EXCEPT ![q] = v]
  BY <1>0 DEF ResealRow
<1> HIDE DEF w
<1>4. v \in RequestRows /\ v.pc = "reseal" /\ v.key = request[q].key /\ v.todo = w
      /\ v.alone = request[q].alone /\ v.text = request[q].text
      /\ v.seen = request[q].seen /\ v.table = request[q].table
  BY <1>0, <1>2 DEF RequestRows, w
<1> HIDE DEF v
<1>5. /\ sealed' \in [Rows -> Keys]
      /\ sealed'[r] = IF Opens(q, r) THEN ring[1] ELSE sealed[r]
      /\ \A s \in Rows \ {r} : sealed'[s] = sealed[s]
  BY <1>0, <1>1 DEF ResealRow
<1>6. request'[q] = v /\ request[q].pc \in Working /\ v.pc \in Working
  BY <1>0, <1>3, <1>4 DEF Working
<1>7. ASSUME request[q].alone PROVE AloneFiles(q)' /\ AloneRows(q)'
  <2>1. AloneFiles(q) /\ AloneRows(q)
    BY <1>6, <1>7 DEF RotationInv, AloneOK, Active
  <2>2. Base(q)' = Base(q)
    BY <1>0, <1>4, <1>6 DEF Base
  <2>3. \A s \in Rows \ {r} : s \notin Left(q)' => s \notin Left(q)
    BY <1>0, <1>4, <1>6 DEF Left, w
  <2>4. AloneFiles(q)'
    BY <1>0, <1>4, <1>6, <2>1 DEF AloneFiles
  <2>5. KeysIn(ring)' = KeysIn(ring) /\ ring[1] = request[q].key
    BY <1>0, <2>1 DEF KeysIn, AloneFiles
  <2>6. ASSUME Base(q) \in Keys
        PROVE  /\ sealed'[r] \in KeysIn(ring) => sealed'[r] \in {Base(q), request[q].key}
               /\ \/ sealed'[r] = request[q].seen[r]
                  \/ sealed'[r] \in {Base(q), request[q].key}
    BY <1>0, <1>5, <2>1, <2>5, <2>6 DEF AloneRows, Opens
  <2>7. AloneRows(q)'
    BY <1>0, <1>4, <1>5, <1>6, <2>1, <2>2, <2>3, <2>5, <2>6 DEF AloneRows
  <2> QED
    BY <2>4, <2>7
<1> QED
  BY <1>0, <1>1, <1>3, <1>4, <1>5, <1>6, <1>7, WorkingStep

\* The first steps of write_key_files.
LEMMA FileSteps ==
  ASSUME RotationInv, NEW q \in Rotations,
         BackUpKey(q) \/ WriteOldFile(q) \/ OpenKeyFile(q)
  PROVE  RotationInv'
<1>0. RotationTypeOK /\ up /\ request[q] \in RequestRows /\ sealed \in [Rows -> Keys]
      /\ request \in [Rotations -> RequestRows]
      /\ UNCHANGED <<up, ring, made, sealed, writing, cached, invalid, outages, unsure,
                     harmed>>
  BY RotationTypes DEF RotationInv, BackUpKey, WriteOldFile, OpenKeyFile
<1>1. PICK v \in RequestRows :
        /\ request' = [request EXCEPT ![q] = v] /\ v.key = request[q].key
        /\ v.alone = request[q].alone /\ request[q].pc \in Working
        /\ \/ request[q].pc = "read" /\ v.pc = "old" /\ v.text = keyFile
              /\ keyFile' = keyFile /\ oldFile' = Empty
           \/ request[q].pc = "old" /\ v.pc = "trim" /\ v.text = request[q].text
              /\ keyFile' = keyFile /\ oldFile' = request[q].text
           \/ request[q].pc = "trim" /\ v.pc = "key" /\ v.text = request[q].text
              /\ keyFile' = Empty /\ oldFile' = oldFile
  <2>1. CASE BackUpKey(q)
    <3> DEFINE v == [request[q] EXCEPT !.pc = "old", !.text = keyFile]
    <3>1. request' = [request EXCEPT ![q] = v] /\ request[q].pc = "read"
          /\ keyFile' = keyFile /\ oldFile' = Empty
      BY <1>0, <2>1 DEF BackUpKey
    <3>2. keyFile \in KeyOrEmpty \union {Absent}
      BY <1>0 DEF RotationTypeOK
    <3>3. v \in RequestRows /\ v.pc = "old" /\ v.key = request[q].key
          /\ v.alone = request[q].alone /\ v.text = keyFile
      BY <1>0, <3>2 DEF RequestRows, Pcs
    <3> HIDE DEF v
    <3> QED
      BY <3>1, <3>3 DEF Working
  <2>2. CASE WriteOldFile(q)
    <3> DEFINE v == [request[q] EXCEPT !.pc = "trim"]
    <3>1. request' = [request EXCEPT ![q] = v] /\ request[q].pc = "old"
          /\ keyFile' = keyFile /\ oldFile' = request[q].text
      BY <1>0, <2>2 DEF WriteOldFile
    <3>2. v \in RequestRows /\ v.pc = "trim" /\ v.key = request[q].key
          /\ v.alone = request[q].alone /\ v.text = request[q].text
      BY <1>0 DEF RequestRows, Pcs
    <3> HIDE DEF v
    <3> QED
      BY <3>1, <3>2 DEF Working
  <2>3. CASE OpenKeyFile(q)
    <3> DEFINE v == [request[q] EXCEPT !.pc = "key"]
    <3>1. request' = [request EXCEPT ![q] = v] /\ request[q].pc = "trim"
          /\ keyFile' = Empty /\ oldFile' = oldFile
      BY <1>0, <2>3 DEF OpenKeyFile
    <3>2. v \in RequestRows /\ v.pc = "key" /\ v.key = request[q].key
          /\ v.alone = request[q].alone /\ v.text = request[q].text
      BY <1>0 DEF RequestRows, Pcs
    <3> HIDE DEF v
    <3> QED
      BY <3>1, <3>2 DEF Working
  <2> QED
    BY <2>1, <2>2, <2>3
<1>2. request'[q] = v /\ v.pc \in Working
  BY <1>0, <1>1 DEF Working
<1>3. ASSUME request[q].alone PROVE AloneFiles(q)' /\ AloneRows(q)'
  <2>1. AloneFiles(q) /\ AloneRows(q)
    BY <1>1, <1>3 DEF RotationInv, AloneOK, Active
  <2>2. Base(q)' = Base(q) /\ Left(q)' = {} /\ Left(q) = {}
    BY <1>0, <1>1, <1>2, <2>1 DEF Base, Left, AloneFiles
  <2>3. AloneFiles(q)'
    BY <1>0, <1>1, <1>2, <2>1 DEF AloneFiles
  <2>4. KeysIn(ring)' = KeysIn(ring)
    BY <1>0 DEF KeysIn
  <2>5. AloneRows(q)'
    BY <1>0, <1>1, <1>2, <2>1, <2>2, <2>4 DEF AloneRows
  <2> QED
    BY <2>3, <2>5
<1> QED
  BY <1>0, <1>1, <1>2, <1>3, WorkingStep

-----------------------------------------------------------------------------
\* A rotation ends, well or not.
LEMMA EndedRequest ==
  ASSUME RotationInv, NEW q \in Rotations, request[q].pc \in Working, NEW pc \in {"done",
         "failed"},
         request' = [request EXCEPT ![q] = At(pc, Empty)]
  PROVE  /\ request' \in [Rotations -> RequestRows]
         /\ \A p \in Rotations \ {q} : request'[p] = request[p]
         /\ Active' = Active \ {q}
         /\ UNCHANGED made => KeysLeft'
<1>0. request \in [Rotations -> RequestRows]
  BY RotationTypes DEF RotationInv
<1>1. pc \in Pcs /\ Empty \in KeyOrEmpty /\ pc \notin Working /\ pc # "new"
  BY DEF Pcs, KeyOrEmpty, Working
<1>2. At(pc, Empty) \in RequestRows /\ At(pc, Empty).pc = pc
  BY <1>1, AtRows, AtFields
<1>3. request' \in [Rotations -> RequestRows] /\ request'[q] = At(pc, Empty)
      /\ \A p \in Rotations \ {q} : request'[p] = request[p]
  BY <1>0, <1>2
<1>4. Active' = Active \ {q}
  BY <1>1, <1>2, <1>3 DEF Active
<1>5. \A p \in Rotations : request'[p].pc = "new" <=> request[p].pc = "new"
  BY <1>1, <1>2, <1>3 DEF Working
<1> QED
  BY <1>3, <1>4, <1>5, KeysLeftStep

\* A rotation that fails leaves everything as it is.
LEMMA FailStep ==
  ASSUME RotationInv, NEW q \in Rotations, RotationFails(q)
  PROVE  RotationInv'
<1>0. RotationTypeOK /\ up /\ q \in Active /\ request[q].pc \in Working
      /\ request' = [request EXCEPT ![q] = At("failed", Empty)]
      /\ UNCHANGED <<up, ring, made, keyFile, oldFile, sealed, writing, cached, invalid,
                     outages, unsure, harmed>>
  BY DEF RotationInv, RotationFails, Active
<1>1. /\ request' \in [Rotations -> RequestRows] /\ KeysLeft'
      /\ \A p \in Rotations \ {q} : request'[p] = request[p]
      /\ Active' = Active \ {q}
  BY <1>0, EndedRequest
<1>2. /\ Loaded' = Loaded /\ (Loadable' <=> Loadable) /\ KeysIn(cached)' = KeysIn(cached)
      /\ KeysIn(ring)' = KeysIn(ring) /\ KeysIn(Loaded)' = KeysIn(Loaded)
  BY <1>0 DEF KeysIn, Loaded, Loadable
<1>3. \A p \in Active' : p \in Active /\ request'[p] = request[p]
  BY <1>1 DEF Active
<1>4. unsure
  BY <1>0 DEF RotationInv, AloneIsOne
<1>5. RotationTypeOK'
  BY <1>0, <1>1 DEF RotationTypeOK, RequestRows
<1>6. KeysMade' /\ AloneIsOne' /\ AloneOK'
  <2>1. \A p \in Active' : ~request'[p].alone
    BY <1>0, <1>1, <1>3 DEF RotationInv, AloneIsOne
  <2> QED
    BY <1>0, <1>3, <1>4, <2>1 DEF RotationInv, KeysMade, AloneIsOne, AloneOK
<1>7. DownForgets' /\ CachedFront' /\ SettledDown' /\ SettledUp' /\ FilesOpen'
  BY <1>0, <1>4 DEF RotationInv, DownForgets, CachedFront, SettledDown, SettledUp, FilesOpen
<1>8. RingHolds' /\ RingOpens'
  BY <1>0, <1>2, <1>3 DEF RotationInv, RingHolds, RingOpens
<1> QED
  BY <1>1, <1>5, <1>6, <1>7, <1>8 DEF RotationInv

\* The key file is written: if the rotation was alone and found a key, the files have the
\* keys of everything.
LEMMA RotationFinishStep ==
  ASSUME RotationInv, NEW q \in Rotations, FinishRotation(q)
  PROVE  RotationInv'
<1>0. RotationTypeOK /\ up /\ request[q].pc = "key" /\ request[q].pc \in Working
        /\ q \in Active
      /\ request' = [request EXCEPT ![q] = At("done", Empty)]
      /\ keyFile' = request[q].key /\ invalid' = TRUE
      /\ unsure' = ~(request[q].alone /\ request[q].text \in Keys)
      /\ UNCHANGED <<up, ring, made, oldFile, sealed, writing, cached, outages, harmed>>
  BY DEF RotationInv, FinishRotation, Active, Working
<1>1. /\ request' \in [Rotations -> RequestRows] /\ KeysLeft'
      /\ \A p \in Rotations \ {q} : request'[p] = request[p]
      /\ Active' = Active \ {q}
  BY <1>0, EndedRequest
<1>2. KeysIn(cached)' = KeysIn(cached) /\ KeysIn(ring)' = KeysIn(ring)
  BY <1>0 DEF KeysIn
<1>3. \A p \in Active' : p \in Active /\ request'[p] = request[p]
  BY <1>1 DEF Active
<1>4. request[q].key \in Keys /\ request[q].key <= made /\ request[q].key \in KeysIn(ring)
  BY <1>0 DEF RotationInv, KeysMade, RingHolds
<1>5. RotationTypeOK'
  <2>1. invalid' \in BOOLEAN /\ unsure' \in BOOLEAN /\ keyFile' \in KeyOrEmpty
    BY <1>0, <1>4 DEF KeyOrEmpty
  <2> QED
    BY <1>0, <1>1, <2>1 DEF RotationTypeOK, RequestRows
<1>6. request[q].alone => Active' = {}
  BY <1>0, <1>1 DEF RotationInv, AloneIsOne
<1>7. AloneIsOne' /\ AloneOK'
  <2>1. \A p \in Active' : ~request'[p].alone
    BY <1>0, <1>1, <1>3 DEF RotationInv, AloneIsOne
  <2> QED
    BY <1>0, <1>6, <2>1 DEF AloneIsOne, AloneOK
<1>8. KeysMade' /\ DownForgets' /\ CachedFront' /\ SettledDown'
  BY <1>0, <1>3, <1>4 DEF RotationInv, KeysMade, DownForgets, CachedFront, SettledDown
<1>9. RingHolds' /\ RingOpens'
  BY <1>0, <1>2, <1>3, <1>4 DEF RotationInv, RingHolds, RingOpens
<1>10. SettledUp' /\ FilesOpen'
  <2> SUFFICES ASSUME ~unsure' PROVE SettledUp' /\ FilesOpen'
    BY DEF SettledUp, FilesOpen
  <2>1. request[q].alone /\ request[q].text \in Keys
    BY <1>0
  <2>2. AloneFiles(q) /\ AloneRows(q)
    BY <1>0, <2>1 DEF RotationInv, AloneOK
  <2>3. Base(q) = request[q].text /\ Left(q) = {} /\ oldFile = request[q].text
        /\ ring[1] = request[q].key
    BY <1>0, <2>2 DEF Base, Left, AloneFiles
  <2>4. request[q].text # request[q].key /\ (cached # <<>> => cached[1] = request[q].text)
        /\ \A r \in Rows :
             /\ writing[r] \in {Empty, request[q].text, request[q].key}
             /\ sealed[r] \in KeysIn(ring) => sealed[r] \in {request[q].text, request[q].key}
    BY <2>1, <2>2, <2>3 DEF AloneRows
  <2>5. Loadable'
    BY <1>0, <1>4, <2>1, <2>3, <2>4, KeyFacts DEF Loadable
  <2>6. KeysIn(Loaded)' = {request[q].key, request[q].text}
    <3>1. Loaded' = <<keyFile', oldFile'>>
      BY <1>0, <2>1, <2>3, KeyFacts DEF Loaded
    <3>2. KeysIn(<<keyFile', oldFile'>>) = {keyFile', oldFile'}
      <4>1. DOMAIN <<keyFile', oldFile'>> = {1, 2}
        OBVIOUS
      <4> QED
        BY <4>1 DEF KeysIn
    <3>3. KeysIn(Loaded)' = KeysIn(Loaded')
      BY DEF KeysIn
    <3> QED
      BY <1>0, <2>3, <3>1, <3>2, <3>3
  <2>7. SettledUp'
    BY <1>0, <2>3, <2>4, <2>6 DEF SettledUp
  <2>8. FilesOpen'
    BY <1>0, <1>2, <2>4, <2>5, <2>6 DEF FilesOpen
  <2> QED
    BY <2>7, <2>8
<1> QED
  BY <1>1, <1>5, <1>7, <1>8, <1>9, <1>10 DEF RotationInv

\* The process crashes.
LEMMA OutageStep ==
  ASSUME RotationInv, Outage
  PROVE  RotationInv'
<1>0. RotationTypeOK /\ up /\ up' = FALSE /\ outages < MaxOutages /\ outages' = outages + 1
      /\ ring' = <<>> /\ cached' = <<>> /\ invalid' = FALSE
      /\ writing' = [r \in Rows |-> Empty]
      /\ request' = [q \in Rotations |->
           IF q \in Active THEN At("failed", Empty) ELSE request[q]]
      /\ UNCHANGED <<made, keyFile, oldFile, sealed, unsure, harmed>>
  BY DEF RotationInv, Outage
<1>1. At("failed", Empty) \in RequestRows /\ At("failed", Empty).pc = "failed"
  <2>1. "failed" \in Pcs /\ Empty \in KeyOrEmpty
    BY DEF Pcs, KeyOrEmpty
  <2> QED
    BY <2>1, AtRows, AtFields
<1>2. request' \in [Rotations -> RequestRows]
      /\ \A q \in Rotations : \/ q \in Active /\ request'[q].pc = "failed"
                              \/ q \notin Active /\ request'[q] = request[q]
  BY <1>0, <1>1, RotationTypes
<1>3. Active' = {}
  BY <1>2 DEF Active, Working
<1>4. KeysLeft'
  <2>1. \A p \in Rotations : request'[p].pc = "new" <=> request[p].pc = "new"
    BY <1>2 DEF Active, Working
  <2> QED
    BY <1>0, <2>1, KeysLeftStep
<1>5. Loaded' = Loaded /\ (Loadable' <=> Loadable) /\ KeysIn(Loaded)' = KeysIn(Loaded)
  BY <1>0 DEF KeysIn, Loaded, Loadable
<1>6. RotationTypeOK'
  <2>1. up' \in BOOLEAN /\ invalid' \in BOOLEAN
    BY <1>0, Zenon
  <2>2. outages' \in 0..MaxOutages
    BY <1>0, RotationAssumption DEF RotationTypeOK
  <2>3. ring' \in Seq(Keys) /\ cached' \in Seq(Keys)
    BY <1>0
  <2>4. writing' \in [Rows -> KeyOrEmpty]
    BY <1>0 DEF KeyOrEmpty
  <2> QED
    BY <1>0, <1>2, <2>1, <2>2, <2>3, <2>4 DEF RotationTypeOK, RequestRows
<1>7. DownForgets'
  BY <1>0, <1>3 DEF DownForgets
<1>8. KeysMade' /\ RingHolds' /\ CachedFront' /\ AloneIsOne' /\ AloneOK' /\ SettledUp'
      /\ RingOpens'
  BY <1>0, <1>3 DEF RotationInv, KeysMade, RingHolds, CachedFront, AloneIsOne, AloneOK,
                    SettledUp, RingOpens
<1>9. FilesOpen'
  BY <1>0, <1>5 DEF RotationInv, FilesOpen
<1>10. SettledDown'
  <2> SUFFICES ASSUME ~unsure, ~harmed, NEW r \in Rows PROVE sealed[r] \in KeysIn(Loaded)
    BY <1>0, <1>5 DEF SettledDown
  <2>1. sealed[r] \in KeysIn(ring)
    <3>1. sealed[r] \in Keys
      BY <1>0 DEF RotationTypeOK
    <3> QED
      BY <1>0, <3>1, KeyFacts DEF RotationInv, RingOpens
  <2> QED
    BY <1>0, <2>1 DEF RotationInv, FilesOpen
<1> QED
  BY <1>4, <1>6, <1>7, <1>8, <1>9, <1>10 DEF RotationInv

\* The process starts with the keys of the files.
LEMMA OpenKeysStep ==
  ASSUME RotationInv, OpenKeys
  PROVE  RotationInv'
<1>0. RotationTypeOK /\ ~up /\ Loadable /\ up' = TRUE /\ ring' = Loaded
      /\ harmed' = (harmed \/ unsure)
      /\ UNCHANGED <<made, keyFile, oldFile, sealed, writing, cached, invalid, request,
                     outages, unsure>>
  BY DEF RotationInv, OpenKeys
<1>1. Active' = Active /\ Active = {} /\ cached = <<>> /\ ~invalid
      /\ \A r \in Rows : writing[r] = Empty
  BY <1>0 DEF RotationInv, DownForgets, Active
<1>2. /\ Loaded \in Seq(Keys) /\ Loaded # <<>> /\ Loaded[1] = keyFile
      /\ KeysIn(Loaded) = {keyFile} \union ({oldFile} \ {Absent})
      /\ keyFile \in KeysIn(Loaded)
  BY <1>0, LoadedFacts DEF RotationTypeOK
<1>3. Loaded' = Loaded /\ (Loadable' <=> Loadable) /\ KeysIn(Loaded)' = KeysIn(Loaded)
      /\ KeysIn(ring)' = KeysIn(Loaded) /\ KeysIn(cached)' = {}
  BY <1>0, <1>1 DEF KeysIn, Loaded, Loadable
<1>4. KeysLeft' /\ KeysMade'
  <2>1. KeysLeft'
    BY <1>0, KeysLeftStep
  <2>2. KeysMade'
    BY <1>0, <1>1 DEF RotationInv, KeysMade
  <2> QED
    BY <2>1, <2>2
<1>5. RotationTypeOK'
  <2>1. up' \in BOOLEAN /\ harmed' \in BOOLEAN
    BY <1>0
  <2> QED
    BY <1>0, <1>2, <2>1 DEF RotationTypeOK
<1>6. DownForgets' /\ CachedFront' /\ AloneIsOne' /\ AloneOK' /\ SettledDown'
  BY <1>0, <1>1 DEF DownForgets, CachedFront, AloneIsOne, AloneOK, SettledDown
<1>7. RingHolds'
  BY <1>0, <1>1, <1>2, <1>3 DEF RingHolds
<1>8. SettledUp' /\ FilesOpen'
  BY <1>0, <1>1, <1>2, <1>3 DEF SettledUp, FilesOpen
<1>9. RingOpens'
  <2> SUFFICES ASSUME ~harmed', NEW r \in Rows
               PROVE  {sealed[r], writing[r]} \subseteq KeysIn(ring)' \union {Empty}
    BY <1>0 DEF RingOpens
  <2>1. ~harmed /\ ~unsure
    BY <1>0
  <2>2. sealed[r] \in KeysIn(Loaded)
    BY <1>0, <2>1 DEF RotationInv, SettledDown
  <2> QED
    BY <1>1, <1>3, <2>2
<1> QED
  BY <1>4, <1>5, <1>6, <1>7, <1>8, <1>9 DEF RotationInv

\* For any number of rows, rotations and outages: the running platform opens every row at every
\* step of every rotation, and once a rotation has ended well, alone, the files and the DNS
\* storage have the keys of all of them (rotate.rs, keys/).
THEOREM RotationSealedOpens == RotationSpec => []SealedOpens
<1>1. RotationInit => RotationInv
  BY RotationInitial
<1>2. RotationInv /\ [RotationNext]_rotationVars => RotationInv'
  BY SealStep, KeepStep, StoreStep, InvalidateStep, StartStep, TableSteps, ResealStep, FileSteps,
     RotationFinishStep, FailStep, OutageStep, OpenKeysStep DEF RotationNext
<1>3. RotationInv => SealedOpens
  BY RotationInvImplies
<1> QED
  BY <1>1, <1>2, <1>3, PTL DEF RotationSpec
=============================================================================
