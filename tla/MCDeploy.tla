------------------------------ MODULE MCDeploy ------------------------------
(* Instances of Deploy for TLC.                                             *)
EXTENDS Deploy, TLC

CONSTANTS a1, a2, d1, d2, d3, t1, t2

OneApp     == [d \in Deployments |-> a1]
AllTargets == [d \in Deployments |-> Targets]
\* Deployments, and hosts, that the constants do not tell apart.
Alike      == Permutations({d2, d3})
AlikeHosts == Alike \cup Permutations({t1, t2})
AllOfApp   == [a \in Apps |-> Targets]
=============================================================================
