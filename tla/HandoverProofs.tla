--------------------------- MODULE HandoverProofs ---------------------------
(***************************************************************************)
(* The proof that a port that stays active is open through any number of   *)
(* upgrades and port changes, for every set of addresses and every bound.  *)
(* IInv says who has the descriptors of such a port (HeirInv): the process *)
(* that has not handed over yet, in its pool and in its manifest, or the   *)
(* new process, among the descriptors that it has not adopted.             *)
(***************************************************************************)
EXTENDS Handover, TLAPS

IInv == TypeOK /\ HeirInv


\* Type correctness is kept by every step.
LEMMA TypeStep == TypeOK /\ [Next]_vars => TypeOK'
<1> SUFFICES ASSUME TypeOK, [Next]_vars PROVE TypeOK'
    OBVIOUS
<1> USE HandoverAssumption DEF TypeOK
<1>1. CASE UNCHANGED vars
      BY <1>1 DEF vars
<1>2. ASSUME NEW p \in Procs, Step(p) PROVE TypeOK'
  <2>1. ASSUME NEW a \in Addrs, SetPorts(p, a) PROVE TypeOK'
        BY <2>1 DEF SetPorts, Listening
  <2>2. ASSUME NEW c \in Procs, Spawn(p, c) PROVE TypeOK'
        BY <2>2 DEF Spawn, Phases
  <2>3. CASE Send(p)
        BY <2>3 DEF Send, Phases
  <2>4. CASE Failed(p)
        BY <2>4 DEF Failed, Phases
  <2>5. CASE Timeout(p)
        BY <2>5 DEF Timeout, Phases
  <2>6. CASE Leave(p)
        BY <2>6 DEF Leave, Phases
  <2>7. CASE Drain(p)
        BY <2>7 DEF Drain, Phases
  <2>8. CASE Announce(p)
        BY <2>8 DEF Announce, Phases
  <2>9. CASE Dies(p)
        BY <2>9 DEF Dies, Phases
  <2>10. CASE Load(p)
        BY <2>10 DEF Load, Listening, Phases
  <2>11. CASE Publish(p)
        BY <2>11 DEF Publish
  <2> QED BY <1>2, <2>1, <2>2, <2>3, <2>4, <2>5, <2>6, <2>7, <2>8, <2>9, <2>10, <2>11
          DEF Step
<1> QED BY <1>1, <1>2 DEF Next

\* The first process has the sockets of all its ports, twice.
LEMMA InitInv == Init => IInv
<1> SUFFICES ASSUME Init PROVE IInv
    OBVIOUS
<1> USE HandoverAssumption DEF Init
<1>1. 0 \in Procs
      BY DEF Procs
<1>2. TypeOK
      BY <1>1 DEF TypeOK, Phases
<1>3. HeirInv
      BY <1>1 DEF HeirInv, Serving
<1> QED BY <1>2, <1>3 DEF IInv

\* No step loses the last descriptor of a kept port.
LEMMA HeirStep == IInv /\ [Next]_vars => HeirInv'
<1> SUFFICES ASSUME TypeOK, HeirInv, [Next]_vars PROVE HeirInv'
    BY DEF IInv
<1> USE DEF HeirInv, TypeOK, Serving
<1>1. CASE UNCHANGED vars
      BY <1>1 DEF vars
<1>2. ASSUME NEW p \in Procs, Step(p) PROVE HeirInv'
  <2>1. ASSUME NEW a \in Addrs, SetPorts(p, a) PROVE HeirInv'
        BY <2>1 DEF SetPorts, Listening
  <2>2. ASSUME NEW c \in Procs, Spawn(p, c) PROVE HeirInv'
        BY <2>2 DEF Spawn
  <2>3. CASE Send(p)
        BY <2>3 DEF Send
  <2>4. CASE Failed(p)
        BY <2>4 DEF Failed
  <2>5. CASE Timeout(p)
        BY <2>5 DEF Timeout
  <2>6. CASE Leave(p)
        BY <2>6 DEF Leave
  <2>7. CASE Drain(p)
        BY <2>7 DEF Drain
  <2>8. CASE Announce(p)
        BY <2>8 DEF Announce
  <2>9. CASE Dies(p)
        BY <2>9 DEF Dies
  <2>10. CASE Load(p)
        BY <2>10 DEF Load, Listening
  <2>11. CASE Publish(p)
        BY <2>11 DEF Publish
  <2> QED BY <1>2, <2>1, <2>2, <2>3, <2>4, <2>5, <2>6, <2>7, <2>8, <2>9, <2>10, <2>11
          DEF Step
<1> QED BY <1>1, <1>2 DEF Next

\* IInv holds in every reachable state.
LEMMA Invariant == Spec => []IInv
<1>1. IInv /\ [Next]_vars => IInv'
      BY TypeStep, HeirStep DEF IInv
<1> QED BY <1>1, InitInv, PTL DEF Spec

\* Type correctness of the upgrades.
THEOREM HandoverTypes == Spec => []TypeOK
<1>1. IInv => TypeOK
      BY DEF IInv
<1> QED BY <1>1, Invariant, PTL

\* Who has the descriptors of a port that stays active.
THEOREM HeirHasPorts == Spec => []HeirInv
<1>1. IInv => HeirInv
      BY DEF IInv
<1> QED BY <1>1, Invariant, PTL

\* Zero downtime: the socket of a port that stays active is open at every moment.
THEOREM ZeroDowntime == Spec => []AlwaysOpen
<1>1. IInv => AlwaysOpen
      BY DEF IInv, HeirInv, AlwaysOpen, Open, Serving
<1> QED BY <1>1, Invariant, PTL
=============================================================================
