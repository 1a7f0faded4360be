-------------------------- MODULE MCNodeDiscovery --------------------------
(* Instances of NodeDiscovery for TLC: two nodes, of which the first may    *)
(* restart and have an admin server.                                       *)
EXTENDS NodeDiscovery

CONSTANTS n1, n2, web

OneRestarts == [n \in {n1, n2} |-> IF n = n1 THEN 2 ELSE 1]
OneServes   == [n \in {n1, n2} |-> IF n = n1 THEN {web} ELSE {}]

\* The fairness and the liveness properties for one pair of nodes: the others'
\* packets are not needed.
PairSpec == Spec /\ FairLink(n1, n2)

\* Node n1 is eventually listed at n2 as the instance that runs, and stays so.
PairListed == ListedAt(n1, n2)
=============================================================================
