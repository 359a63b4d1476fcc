--------------------------- MODULE MCEventStream ---------------------------
(* Instances of EventStream for TLC. *)
EXTENDS EventStream, TLC

\* Only for safety: writers are alike, and so are subscriptions.
Symmetry == Permutations(Writers) \cup Permutations(Ids)
\* From the beginning, asked for in two ways; and from the second event.
AfterNone == {-2, -1}
AfterSome == {-1, 0}
=============================================================================
