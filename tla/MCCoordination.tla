--------------------------- MODULE MCCoordination ---------------------------
(* Instances of Coordination for TLC. *)
EXTENDS Coordination, TLC

Symmetry == Permutations(Workers) \cup Permutations(Tasks)

\* Bound: many grants, two workers and their deaths on one task that depends
\* on nothing; or several tasks, dependencies and the coordinator with one
\* worker and one grant of each.
Registered == {t \in Tasks : status[t] # "none"}
OneTask ==
  /\ Cardinality(Registered) <= 1 /\ \A t \in Tasks : deps[t] = {}
  /\ grants[Coordinator] = <<>>
OneWorker ==
  /\ \A t \in Tasks : Epoch(t) <= 1
  /\ \E w \in Workers :
       /\ \A r \in Resources : \A e \in 1 .. Epoch(r) : grants[r][e] = w
       /\ \A u \in Workers \ {w} : u \in alive /\ evidence[u] = "none"
Focus == OneTask \/ OneWorker
=============================================================================
