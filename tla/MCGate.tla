------------------------------- MODULE MCGate -------------------------------
(***************************************************************************)
(* Instances of Gate for TLC.                                              *)
(***************************************************************************)
EXTENDS GateClaims, TLC

Reliable == {"ok"}
Faulty == {"ok", "lost", "unknown"}

\* Threads are interchangeable until they take a request, so nothing is lost by
\* looking only at the behaviours in which they take requests in number order.
InOrder == \A t, u \in Threads : t < u /\ pc[u] # "new" => pc[t] # "new"

\* Bound: a serial behaviour is cut short by at most one kill.
OneKill == InOrder /\ Cardinality({t \in Threads : pc[t] = "killed"}) <= 1

Symmetry == Permutations(Users)
=============================================================================
