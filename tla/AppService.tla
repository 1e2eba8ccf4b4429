----------------------------- MODULE AppService -----------------------------
(***************************************************************************)
(* What the platform promises to the users of an app: some deployment is   *)
(* current, the switch to the next one is a single step between two whose  *)
(* containers all run, and no container stops that belongs to the current  *)
(* one or gets traffic, until the app is deleted.  Rows, pipelines, locks, *)
(* tasks and restarts do not occur here; Deploy implements this            *)
(* specification.                                                          *)
(***************************************************************************)
CONSTANTS
  Apps,
  Deployments,
  AppOf,      \* [Deployments -> Apps]
  TargetsOf   \* [Deployments -> the hosts of its containers]

VARIABLES
  live,    \* the containers <<deployment, host>> that run
  stage,   \* [Deployments -> {"new", "current", "past"}]
  routed,  \* [Apps -> a set of containers], where the traffic of an app goes
  gone     \* the apps whose deletion has begun

serviceVars == <<live, stage, routed, gone>>

ContainersOf(d) == {d} \X TargetsOf[d]

\* What must not stop.
Needed ==
  (UNION {routed[a] : a \in Apps \ gone}) \cup
  (UNION {ContainersOf(d) : d \in {e \in Deployments :
                                    stage[e] = "current" /\ AppOf[e] \notin gone}})

Start ==
  /\ live \subseteq live'
  /\ UNCHANGED <<stage, routed, gone>>

Stop ==
  /\ live' \subseteq live /\ Needed \cap live \subseteq live'
  /\ UNCHANGED <<stage, routed, gone>>

\* The next deployment takes over.  It revives an app whose deletion was interrupted, if
\* no traffic of the app goes to what the deletion has stopped.
Switch(d) ==
  /\ ContainersOf(d) \subseteq live
  /\ AppOf[d] \in gone => routed[AppOf[d]] \subseteq live
  /\ stage' = [e \in Deployments |->
       IF e = d THEN "current"
       ELSE IF AppOf[e] = AppOf[d] /\ stage[e] = "current" THEN "past" ELSE stage[e]]
  /\ gone' = gone \ {AppOf[d]}
  /\ UNCHANGED <<live, routed>>

\* The traffic of every app is directed anew, only to what is or was current.
Route ==
  /\ \A a \in Apps \ gone : \A s \in routed'[a] :
       s \in live /\ AppOf[s[1]] = a /\ stage[s[1]] # "new"
  /\ UNCHANGED <<live, stage, gone>>

\* The containers of the app go, and then what is known of its deployments.
Delete(a) ==
  /\ gone' = gone \cup {a}
  /\ live' \subseteq live /\ \A s \in live \ live' : AppOf[s[1]] = a
  /\ UNCHANGED <<stage, routed>>

Forget(a) ==
  /\ a \in gone
  /\ stage' = [d \in Deployments |-> IF AppOf[d] = a THEN "new" ELSE stage[d]]
  /\ UNCHANGED <<live, routed, gone>>

ServiceInit ==
  /\ live = {} /\ gone = {}
  /\ stage = [d \in Deployments |-> "new"] /\ routed = [a \in Apps |-> {}]

ServiceNext ==
  \/ Start \/ Stop \/ Route
  \/ \E d \in Deployments : Switch(d)
  \/ \E a \in Apps : Delete(a) \/ Forget(a)

ServiceSpec == ServiceInit /\ [][ServiceNext]_serviceVars
=============================================================================
