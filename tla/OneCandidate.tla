---------------------------- MODULE OneCandidate ----------------------------
(***************************************************************************)
(* What plan/apply promises for one plan, whatever happens on the way:     *)
(* at most one candidate is ever published for it by this runtime, it is   *)
(* never withdrawn, and every host that is answered with a candidate is    *)
(* answered with that one.  Crashes, retries, locks and journals do not    *)
(* show.                                                                   *)
(***************************************************************************)
CONSTANTS Hosts, Runs, None

VARIABLES
  published,   \* the plan's candidates
  answered     \* the candidate each host's last request was answered with

Init ==
  /\ published \in SUBSET Runs
  /\ answered = [h \in Hosts |-> None]

Publish ==
  /\ published = {}
  /\ \E r \in Runs : published' = {r}
  /\ UNCHANGED answered

Answer(h) ==
  /\ \E r \in Runs : /\ published = {r}
                     /\ answered' = [answered EXCEPT ![h] = r]
  /\ UNCHANGED published

\* A new request, a refusal or a death: the last answer is gone.
Forget(h) ==
  /\ answered' = [answered EXCEPT ![h] = None]
  /\ UNCHANGED published

Next == Publish \/ \E h \in Hosts : Answer(h) \/ Forget(h)

Spec == Init /\ [][Next]_<<published, answered>>
=============================================================================
