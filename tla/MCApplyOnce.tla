---------------------------- MODULE MCApplyOnce ----------------------------
(* Instances of ApplyOnce for TLC. *)
EXTENDS ApplyOnce, TLC

\* Hosts are alike, and so are runs (an older runtime may have published any
\* of them) and the approvals of this plan.
Symmetry ==
  Permutations(Hosts) \cup Permutations(Runs)
    \cup Permutations(Approvals \ Foreign)

\* The retrying client of FairSpec on a root nobody tampers with: RetryRecovers
\* excuses tampering, and a changed source only adds refusals.
RetrySpec ==
  /\ Init /\ [][Next /\ UNCHANGED <<source, tampered>>]_vars
  /\ Fairness /\ Undisturbed
=============================================================================
