------------------------------ MODULE MCLedger ------------------------------
(* Instances of Ledger for TLC. *)
EXTENDS Ledger, TLC

Symmetry == Permutations(Procs) \cup Permutations(Docs) \cup Permutations(Txns)

\* Nothing is claimed of a directory whose lock has been stolen.
UntilStolen == Init /\ [][Next /\ ~stolen]_vars
=============================================================================
