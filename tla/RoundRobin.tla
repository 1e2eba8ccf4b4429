----------------------------- MODULE RoundRobin -----------------------------
(***************************************************************************)
(* The smooth weighted round robin of an upstream group.  Source:          *)
(* UpstreamGroup::order_round_robin of r3v3rs3/src/proxy/health.rs.  A     *)
(* request picks among the servers that are candidates at that moment, so  *)
(* the set may differ from one pick to the next.                           *)
(***************************************************************************)
EXTENDS Integers

CONSTANTS
  N,         \* the number of servers
  MaxWeight  \* bound on the weights; a server of weight 0 is no candidate

Indices == 1..N

ASSUME RoundRobinAssumption == N \in Nat \ {0} /\ MaxWeight \in Nat \ {0}

VARIABLES
  weight,   \* [Indices -> 1..MaxWeight], never changes
  current,  \* [Indices -> Int], current_weights
  picks,    \* history: the picks of each server in this cycle
  full,     \* history: every server was a candidate of every pick
  waits     \* history: how often a server was a candidate since it was picked

robinVars == <<weight, current, picks, full, waits>>

\* The sum of f over the members of S among the first n servers of the list.
Prefix(f, S) ==
  LET s[n \in 0..N] == IF n = 0 THEN 0 ELSE s[n - 1] + (IF n \in S THEN f[n] ELSE 0)
  IN s

Sum(f, S) == Prefix(f, S)[N]
Total     == Sum(weight, Indices)
Heaviest  == CHOOSE w \in {weight[i] : i \in Indices} : \A i \in Indices : weight[i] <= w

BestLowest(value, S) ==
  CHOOSE i \in S : \A j \in S : value[i] < value[j] \/ (value[j] = value[i] /\ i <= j)

\* The first server of the list with the highest value goes first.
Best(value, S) ==
  CHOOSE i \in S : \A j \in S : value[j] < value[i] \/ (value[j] = value[i] /\ i <= j)

\* Every candidate gains its weight ...
Gain(S) == [i \in Indices |-> current[i] + (IF i \in S THEN weight[i] ELSE 0)]

PayAll(S) == [Gain(S) EXCEPT ![Best(Gain(S), S)] = @ - Total]

PayNothing(S) == [Gain(S) EXCEPT ![Best(Gain(S), S)] = 0]

\* ... and the best one pays the total weight of the candidates.
Pay(S) == [Gain(S) EXCEPT ![Best(Gain(S), S)] = @ - Sum(weight, S)]

\* One pick.  A new cycle starts after as many picks as the total weight.
Pick(S) ==
  LET best == Best(Gain(S), S)
      old  == IF Sum(picks, Indices) = Total THEN [i \in Indices |-> 0] ELSE picks
  IN
  /\ current' = Pay(S)
  /\ picks' = [old EXCEPT ![best] = @ + 1]
  /\ full' = (full /\ S = Indices)
  /\ waits' = [i \in Indices |->
       IF i = best THEN 0 ELSE waits[i] + (IF i \in S THEN 1 ELSE 0)]
  /\ UNCHANGED weight

RobinInit ==
  /\ weight \in [Indices -> 1..MaxWeight]
  /\ current = [i \in Indices |-> 0]
  /\ picks = [i \in Indices |-> 0]
  /\ full = TRUE
  /\ waits = [i \in Indices |-> 0]

RobinNext == \E S \in (SUBSET Indices) \ {{}} : Pick(S)

RobinSpec == RobinInit /\ [][RobinNext]_robinVars
-----------------------------------------------------------------------------
\* The current weights stay balanced: what the candidates gain, the pick pays,
\* so a server that was away for long has no debt and no credit in its favour.
Balanced == Sum(current, Indices) = 0

\* While every server is a candidate, order_round_robin gives each server as
\* many picks of a cycle as its weight, and the cycle ends where it began.
Proportional ==
  full /\ Sum(picks, Indices) = Total =>
    picks = weight /\ \A i \in Indices : current[i] = 0

\* A candidate is passed over a bounded number of times, although the others
\* come and go with their health: their saved weights do not starve it.  The
\* bound grows with the number of servers; twice the total weight, for example,
\* is not enough for the weights 12, 1, 1 and 1.
NoStarvation ==
  \A i \in Indices : waits[i] * weight[i] <= 2 * (N - 1) * Heaviest

\* order_round_robin is fair in all three respects.
FairPicks == Balanced /\ Proportional /\ NoStarvation
=============================================================================
