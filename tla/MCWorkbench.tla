---------------------------- MODULE MCWorkbench -----------------------------
(* An instance of Workbench for TLC. *)
EXTENDS Workbench

\* Two applies of two queues, or three queues and an apply; or with two
\* queues and an apply either an agent or a head that is chosen.
Focus ==
  \/ /\ AgentOps = {} /\ headGeneration = 0
     /\ (generation <= 2 \/ Len(approvals) <= 1)
  \/ /\ (AgentOps = {} \/ headGeneration = 0)
     /\ generation <= 2 /\ Len(approvals) <= 1
=============================================================================
