----------------------------- MODULE MCPipeline -----------------------------
(* Instances of Pipeline for TLC. *)
EXTENDS Pipeline

\* A stage behind a human gate, and one behind a checker's.
TwoGraphs == {<<"human", "script">>, <<"script", "none">>}
=============================================================================
