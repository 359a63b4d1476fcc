---------------------------- MODULE Coordination ----------------------------
(***************************************************************************)
(* The operations of CoordinationState on tasks, leases, checkpoints,      *)
(* results and side-effecting operations: who may work on a task, how it   *)
(* changes hands, and whose result counts.  Each operation is one atomic   *)
(* transaction (module Ledger shows why).                                  *)
(*                                                                         *)
(* A lease's epoch and fencing token are one number here, the position of  *)
(* its grant among all grants of the resource, so grants[r] is both the    *)
(* history and, in its last element, the holder on record.  Clocks are the *)
(* distinction between a fresh and an expired lease.  Task revisions are   *)
(* left out: they only refuse calls, and every caller may read again.      *)
(* Quotas and capabilities only restrict which worker a task is routed to; *)
(* here any worker or none may be eligible.                                *)
(***************************************************************************)
EXTENDS Naturals, Sequences, FiniteSets

CONSTANTS
  Workers,       \* registered worker identifiers
  Tasks,         \* task identifiers
  Coordinator,   \* the resource of the coordinator lease
  TaskGrants,    \* bound on the grants of a task's lease
  CoordinatorGrants, \* bound on those of the coordinator lease
  None           \* no worker

ASSUME CoordinationAssumption ==
  /\ Coordinator \notin Tasks
  /\ None \notin Workers
  /\ TaskGrants \in Nat /\ CoordinatorGrants \in Nat

Resources == Tasks \cup {Coordinator}
Epochs(r) == 1 .. IF r = Coordinator THEN CoordinatorGrants ELSE TaskGrants

VARIABLES
  deps,          \* the dependencies each task was registered with
  status,        \* "none" for a task not yet registered
  recovery,      \* recovery_required
  checkpoint,    \* epoch under which the task's checkpoint was written, or 0
  claimed,       \* handoff.claimed_by
  result,        \* accepted_epoch, or 0
  decision,      \* disposition of the result, "none" before
  inflight,      \* epochs with an operation in flight
  lease,         \* state of the latest grant
  grants,        \* holders of all grants, by epoch
  evidence,      \* what workers.json says of a worker's process
  alive,         \* workers whose process runs
  working,       \* epochs under which a running process thinks it owns it
  writtenOff     \* those an operator knew to be without a lease, resolving

taskVars == <<deps, status, recovery, checkpoint, claimed, result, decision>>
leaseVars == <<lease, grants>>
workerVars == <<evidence, alive>>
history == <<working, writtenOff>>
vars == <<taskVars, inflight, leaseVars, workerVars, history>>

Terminal == {"completed", "failed"}
Statuses == {"none", "queued", "working", "checkpointed", "blocked",
             "recovery-required"} \cup Terminal
Active == {"fresh", "expired"}
Evidence == {"none", "stopped", "dead"}

Epoch(r) == Len(grants[r])
Holder(r) == grants[r][Epoch(r)]

Init ==
  /\ deps = [t \in Tasks |-> {}]
  /\ status = [t \in Tasks |-> "none"]
  /\ recovery = [t \in Tasks |-> FALSE]
  /\ checkpoint = [t \in Tasks |-> 0]
  /\ claimed = [t \in Tasks |-> None]
  /\ result = [t \in Tasks |-> 0]
  /\ decision = [t \in Tasks |-> "none"]
  /\ inflight = [t \in Tasks |-> {}]
  /\ lease = [r \in Resources |-> "released"]
  /\ grants = [r \in Resources |-> <<>>]
  /\ evidence = [w \in Workers |-> "none"]
  /\ alive = Workers
  /\ working = [r \in Resources |-> {}]
  /\ writtenOff = [r \in Resources |-> {}]

-----------------------------------------------------------------------------
(* Workers.  On record as dead (process_alive False), as stopped           *)
(* (process_alive None, and a terminal mode), or neither.                  *)

\* update_worker and register_worker record what is true when they are called;
\* it may not be true for long.
Report(w, e) ==
  /\ e # evidence[w]
  /\ e # "none" => w \notin alive
  /\ evidence' = [evidence EXCEPT ![w] = e]
  /\ UNCHANGED <<taskVars, inflight, leaseVars, alive, history>>

\* What a process thought it owned dies with it.
Die(w) ==
  /\ w \in alive
  /\ alive' = alive \ {w}
  /\ working' = [r \in Resources |-> {e \in working[r] : grants[r][e] # w}]
  /\ writtenOff' = [r \in Resources |-> {e \in writtenOff[r] : grants[r][e] # w}]
  /\ UNCHANGED <<taskVars, inflight, leaseVars, evidence>>

\* A new process takes the identifier and registers.
Restart(w) ==
  /\ w \notin alive
  /\ alive' = alive \cup {w}
  /\ evidence' = [evidence EXCEPT ![w] = "none"]
  /\ UNCHANGED <<taskVars, inflight, leaseVars, history>>

-----------------------------------------------------------------------------
(* Tasks and their dependencies.                                           *)

\* _registration_closes_cycle: the search from the new task's dependencies,
\* through the tasks registered so far, comes back to it.
ClosesCycle_Itself(t, D) == t \in D
ClosesCycle(t, D) ==
  \A S \in SUBSET Tasks :
    D \subseteq S /\ (\A u \in S : deps[u] \subseteq S) => t \in S

RegisterTask(t, D) ==
  /\ status[t] = "none"
  /\ t \notin D
  /\ ~ClosesCycle(t, D)
  /\ deps' = [deps EXCEPT ![t] = D]
  /\ status' = [status EXCEPT ![t] = "queued"]
  /\ UNCHANGED <<recovery, checkpoint, claimed, result, decision, inflight,
                 leaseVars, workerVars, history>>

\* _dependencies_ready_locked.
Ready_Completed(t) == \A u \in deps[t] : status[u] = "completed"
Ready(t) ==
  \A u \in deps[t] :
    status[u] = "completed" /\ result[u] # 0 /\ decision[u] = "accepted"

-----------------------------------------------------------------------------
(* Leases.                                                                 *)

\* _lease_current_locked: the call names the latest grant, still active.
Current_AnyEpoch(r, e) == lease[r] \in Active
Current(r, e) == lease[r] \in Active /\ e = Epoch(r)

\* No lease is in the way: none is active, or it has expired and its holder is
\* on record as gone.
Vacant_Expired(r) == lease[r] # "fresh"
Vacant(r) ==
  \/ lease[r] = "released"
  \/ lease[r] = "expired" /\ evidence[Holder(r)] \in {"stopped", "dead"}

Grant(r, w) ==
  /\ Epoch(r) + 1 \in Epochs(r)
  /\ grants' = [grants EXCEPT ![r] = Append(@, w)]
  /\ lease' = [lease EXCEPT ![r] = "fresh"]
  /\ working' = [working EXCEPT ![r] =
                   IF w \in alive THEN @ \cup {Epoch(r) + 1} ELSE @]

\* The worker holds no other task lease that has not expired.
FreeHanded(t, w) ==
  \A u \in Tasks \ {t} : ~(lease[u] = "fresh" /\ Holder(u) = w)

\* Who has resumed the task from its checkpoint keeps it, until it is on
\* record as dead and the task's lease has expired.
Resumable_ByAnyone(t, w) == TRUE
Resumable(t, w) ==
  \/ claimed[t] \in {None, w}
  \/ claimed[t] # None /\ lease[t] = "expired" /\ evidence[claimed[t]] = "dead"

\* acquire_lease, claim_replacement and route_task all end here.  A handoff is
\* the task's checkpoint, presented by the caller.
AcquireTask(t, w, handoff) ==
  /\ status[t] \notin {"none"} \cup Terminal
  /\ ~recovery[t]
  /\ IF handoff THEN checkpoint[t] # 0
                ELSE status[t] # "checkpointed" /\ Ready(t)
  /\ Vacant(t)
  /\ FreeHanded(t, w)
  /\ Resumable(t, w)
  /\ Grant(t, w)
  /\ status' = [status EXCEPT ![t] = "working"]
  /\ claimed' = [claimed EXCEPT ![t] = IF handoff THEN w ELSE @]
  /\ UNCHANGED <<deps, recovery, checkpoint, result, decision, inflight,
                 workerVars, writtenOff>>

AcquireCoordinator(w) ==
  /\ Vacant(Coordinator)
  /\ Grant(Coordinator, w)
  /\ UNCHANGED <<taskVars, inflight, workerVars, writtenOff>>

Expire(r) ==
  /\ lease[r] = "fresh"
  /\ lease' = [lease EXCEPT ![r] = "expired"]
  /\ UNCHANGED <<taskVars, inflight, grants, workerVars, history>>

\* An expired lease can be renewed as long as nobody has taken it over.
Renew(r, e) ==
  /\ e \in working[r]
  /\ Current(r, e)
  /\ lease' = [lease EXCEPT ![r] = "fresh"]
  /\ UNCHANGED <<taskVars, inflight, grants, workerVars, history>>

Surrender(r, e) ==
  /\ lease' = [lease EXCEPT ![r] = "released"]
  /\ working' = [working EXCEPT ![r] = @ \ {e}]
  /\ writtenOff' = [writtenOff EXCEPT ![r] = @ \ {e}]

ReleaseLease(r, e) ==
  /\ e \in working[r]
  /\ Current(r, e)
  /\ Surrender(r, e)
  /\ UNCHANGED <<taskVars, inflight, grants, workerVars>>

-----------------------------------------------------------------------------
(* Checkpoints and recovery.                                               *)

\* Written by the holder itself, or with its token once it is known dead.  Its
\* mode becomes draining, which is no terminal mode.
CheckpointTask(t, e) ==
  /\ e \in working[t] \/ (e \in 1 .. Epoch(t) /\ grants[t][e] \notin alive)
  /\ Current(t, e)
  /\ checkpoint' = [checkpoint EXCEPT ![t] = e]
  /\ claimed' = [claimed EXCEPT ![t] = None]
  /\ status' = [status EXCEPT ![t] = "checkpointed"]
  /\ Surrender(t, e)
  /\ evidence' = [evidence EXCEPT ![grants[t][e]] =
                    IF @ = "stopped" THEN "none" ELSE @]
  /\ UNCHANGED <<deps, recovery, result, decision, inflight, grants, alive>>

MarkRecoveryState(t) ==
  /\ recovery' = [recovery EXCEPT ![t] = TRUE]
  /\ status' = [status EXCEPT ![t] = "recovery-required"]

\* The observation timed out on a process nothing is known of, or a native
\* save has no known outcome: the lease goes, its holder may still be at work.
CheckpointUnknown(t, e) ==
  /\ e \in 1 .. Epoch(t)
  /\ Current(t, e)
  /\ MarkRecoveryState(t)
  /\ lease' = [lease EXCEPT ![t] = "released"]
  /\ UNCHANGED <<deps, checkpoint, claimed, result, decision, inflight, grants,
                 workerVars, history>>

MarkRecovery(t) ==
  /\ status[t] # "none"
  /\ MarkRecoveryState(t)
  /\ UNCHANGED <<deps, checkpoint, claimed, result, decision, inflight,
                 leaseVars, workerVars, history>>

\* The operator answers for whoever is still at work without the lease.
ResolveRecovery(t) ==
  /\ recovery[t]
  /\ recovery' = [recovery EXCEPT ![t] = FALSE]
  /\ status' = [status EXCEPT ![t] =
                  IF checkpoint[t] # 0 THEN "checkpointed" ELSE "queued"]
  /\ writtenOff' = [writtenOff EXCEPT ![t] =
                      {e \in working[t] : ~Current(t, e)}]
  /\ UNCHANGED <<deps, checkpoint, claimed, result, decision, inflight,
                 leaseVars, workerVars, working>>

-----------------------------------------------------------------------------
(* Side-effecting operations, at most one in flight under a grant.         *)

BeginOperation(t, e) ==
  /\ e \in working[t]
  /\ ~recovery[t]
  /\ Current(t, e)
  /\ inflight' = [inflight EXCEPT ![t] = @ \cup {e}]
  /\ UNCHANGED <<taskVars, leaseVars, workerVars, history>>

\* No lease is asked for; an unknown outcome marks the task.
FinishOperation(t, e, known) ==
  /\ e \in inflight[t]
  /\ inflight' = [inflight EXCEPT ![t] = @ \ {e}]
  /\ IF known THEN UNCHANGED <<recovery, status>> ELSE MarkRecoveryState(t)
  /\ UNCHANGED <<deps, checkpoint, claimed, result, decision, leaseVars,
                 workerVars, history>>

-----------------------------------------------------------------------------
(* Results.                                                                *)

Unpublished_EvenAgain(t) == TRUE
Unpublished(t) == result[t] = 0

\* The lease need not be fresh, and recovery_required is not looked at.
PublishResult(t, e) ==
  /\ e \in working[t]
  /\ Unpublished(t)
  /\ Current(t, e)
  /\ result' = [result EXCEPT ![t] = e]
  /\ status' = [status EXCEPT ![t] = "completed"]
  /\ Surrender(t, e)
  /\ UNCHANGED <<deps, recovery, checkpoint, claimed, decision, inflight,
                 grants, workerVars>>

Canonical(t) == result[t] # 0

Undecided(t) == decision[t] = "none"

\* decide_result, by the holder of the coordinator lease.
DecideResult(c, t, d, terminal) ==
  /\ c \in working[Coordinator]
  /\ Current(Coordinator, c) /\ lease[Coordinator] = "fresh"
  /\ Canonical(t)
  /\ d = "superseded" => \E u \in Tasks \ {t} : Canonical(u)
  /\ Undecided(t)
  /\ decision' = [decision EXCEPT ![t] = d]
  /\ status' = [status EXCEPT ![t] =
                  IF d = "rejected" /\ terminal THEN "failed" ELSE "completed"]
  /\ UNCHANGED <<deps, recovery, checkpoint, claimed, result, inflight,
                 leaseVars, workerVars, history>>

-----------------------------------------------------------------------------
(* Nobody is eligible.                                                     *)

\* route_task: also when the task is leased and being worked on.
RouteBlocked(t) ==
  /\ ~recovery[t]
  /\ status[t] \notin {"none", "checkpointed"} \cup Terminal
  /\ Ready(t)
  /\ status' = [status EXCEPT ![t] = "blocked"]
  /\ UNCHANGED <<deps, recovery, checkpoint, claimed, result, decision,
                 inflight, leaseVars, workerVars, history>>

\* route_question, about a task in whatever status.
QuestionBlocked(t) ==
  /\ status[t] # "none"
  /\ ~recovery[t]
  /\ status' = [status EXCEPT ![t] = "blocked"]
  /\ UNCHANGED <<deps, recovery, checkpoint, claimed, result, decision,
                 inflight, leaseVars, workerVars, history>>

-----------------------------------------------------------------------------
WorkerStep ==
  \E w \in Workers :
    \/ \E e \in Evidence : Report(w, e)
    \/ Die(w) \/ Restart(w) \/ AcquireCoordinator(w)
    \/ \E t \in Tasks, handoff \in BOOLEAN : AcquireTask(t, w, handoff)

LeaseStep ==
  \E r \in Resources :
    Expire(r) \/ \E e \in Epochs(r) : Renew(r, e) \/ ReleaseLease(r, e)

TaskStep ==
  \E t \in Tasks :
    \/ \E D \in SUBSET Tasks : RegisterTask(t, D)
    \/ MarkRecovery(t) \/ ResolveRecovery(t)
    \/ RouteBlocked(t) \/ QuestionBlocked(t)
    \/ \E e \in Epochs(t) :
         \/ CheckpointTask(t, e) \/ CheckpointUnknown(t, e)
         \/ BeginOperation(t, e) \/ PublishResult(t, e)
         \/ \E known \in BOOLEAN : FinishOperation(t, e, known)
    \/ \E c \in Epochs(Coordinator), d \in {"accepted", "rejected", "superseded"},
          terminal \in BOOLEAN : DecideResult(c, t, d, terminal)

Next == WorkerStep \/ LeaseStep \/ TaskStep
Spec == Init /\ [][Next]_vars

-----------------------------------------------------------------------------
\* The variables have their types, and the documents agree: a task counts as
\* done only with a result, its dependencies only with a decision about one.
TypeOK ==
  /\ deps \in [Tasks -> SUBSET Tasks]
  /\ status \in [Tasks -> Statuses]
  /\ recovery \in [Tasks -> BOOLEAN]
  /\ checkpoint \in [Tasks -> Nat]
  /\ claimed \in [Tasks -> Workers \cup {None}]
  /\ result \in [Tasks -> Nat]
  /\ decision \in [Tasks -> {"none", "accepted", "rejected", "superseded"}]
  /\ inflight \in [Tasks -> SUBSET Nat]
  /\ lease \in [Resources -> Active \cup {"released"}]
  /\ grants \in [Resources -> Seq(Workers)]
  /\ evidence \in [Workers -> Evidence]
  /\ alive \subseteq Workers
  /\ working \in [Resources -> SUBSET Nat]
  /\ writtenOff \in [Resources -> SUBSET Nat]
  /\ \A r \in Resources : lease[r] \in Active => grants[r] # <<>>
  /\ \A t \in Tasks :
       /\ status[t] \in Terminal \/ decision[t] # "none" => result[t] # 0
       /\ claimed[t] # None => checkpoint[t] # 0

\* "If observation times out, do not start a duplicate": two running workers
\* never both own a task, or the coordinator's role, except one an operator
\* wrote off when resolving a recovery.
NoDuplicate ==
  \A r \in Resources : Cardinality(working[r] \ writtenOff[r]) <= 1

\* Nobody is ever given a task before the results it builds on were accepted,
\* and no later decision or recovery takes an acceptance back.
BuildsOnAccepted ==
  \A t \in Tasks :
    grants[t] # <<>> => \A u \in deps[t] : decision[u] = "accepted"

\* Tasks never wait for each other in a circle, whatever the order in which
\* they were registered and named as dependencies.
NoCircle ==
  \A S \in (SUBSET Tasks) \ {{}} : \E t \in S : deps[t] \cap S = {}

\* A task's result is integrated once and its decision taken once, also when
\* the task was reopened, granted again and worked on again.
CanonicalOnce ==
  [][\A t \in Tasks :
       /\ result[t] # 0 => result'[t] = result[t]
       /\ decision[t] # "none" => decision'[t] = decision[t]]_vars

\* "Late results from a replaced worker cannot publish": nothing canonical
\* comes from a worker that was written off while still running.
LateIsFenced ==
  [][\A t \in Tasks :
       /\ result'[t] # result[t] => result'[t] \notin writtenOff[t]
       /\ checkpoint'[t] # checkpoint[t] => checkpoint'[t] \notin writtenOff[t]
       /\ (inflight'[t] \ inflight[t]) \cap writtenOff[t] = {}]_vars

\* "A replacement resumes exactly once": a checkpoint's work passes from one
\* worker that has claimed it to another only over the first one's death.
ResumedOnce ==
  [][\A t \in Tasks :
       claimed[t] # None /\ claimed'[t] # claimed[t] /\ claimed'[t] # None
         => claimed[t] \notin alive]_vars

\* "Task must resume from its checkpoint": as long as nobody has claimed the
\* checkpoint, the task is granted only to whoever presents it.
ResumesFromCheckpoint ==
  [][\A t \in Tasks :
       grants'[t] # grants[t] /\ checkpoint[t] # 0 /\ claimed[t] = None
         => claimed'[t] # None]_vars

\* "Unresolved side effects require recovery before reassignment": a task is
\* not granted while an operation begun under an earlier grant is in flight.
SideEffectsResolved ==
  [][\A t \in Tasks : grants'[t] # grants[t] => inflight[t] = {}]_vars
=============================================================================
