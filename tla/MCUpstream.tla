---------------------------- MODULE MCUpstream ----------------------------
EXTENDS Upstream
\* Every server takes part, or the servers of Drained have weight 0.
CONSTANTS s1, s2, r1, r2, r3, Drained
Weights  == [g \in Gens |-> [s \in Servers |-> IF s \in Drained THEN 0 ELSE 1]]
AlwaysOn == [g \in Gens |-> TRUE]
===========================================================================
