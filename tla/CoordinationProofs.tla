------------------------- MODULE CoordinationProofs -------------------------
(***************************************************************************)
(* Theorems of Coordination, for any sets of workers and tasks.  All but   *)
(* NoCircle rest on one inductive invariant, Inv.                          *)
(***************************************************************************)
EXTENDS Coordination, FiniteSetTheorems, TLAPS

\* Whoever is on record as gone is gone.
Truthful == \A w \in Workers : evidence[w] # "none" => w \notin alive

\* A running process that thinks it owns the resource has its latest grant,
\* and the lease is active or the task waits for an operator; unless it was
\* written off, and then its grant is not the current one.
Owns(r, e) ==
  /\ e = Epoch(r)
  /\ lease[r] \in Active \/ (r \in Tasks /\ recovery[r])

Holding ==
  \A r \in Resources :
    /\ writtenOff[r] \subseteq working[r]
    /\ \A e \in working[r] :
         /\ e \in 1 .. Epoch(r) /\ grants[r][e] \in alive
         /\ IF e \in writtenOff[r] THEN ~Current(r, e) ELSE Owns(r, e)

\* Only a registered task is granted, and only a granted one checkpointed.
Granted ==
  \A t \in Tasks :
    /\ grants[t] = <<>> => checkpoint[t] = 0
    /\ status[t] = "none" => grants[t] = <<>>

Inv == TypeOK /\ Truthful /\ Holding /\ Granted

USE CoordinationAssumption DEF Resources, Active, Evidence, Terminal, Statuses

LEMMA InitInv == Init => Inv
  BY SMTT(60) DEF Init, Inv, TypeOK, Truthful, Holding, Granted, Epoch

-----------------------------------------------------------------------------
LEMMA ReportInv ==
  ASSUME Inv, NEW w \in Workers, NEW e \in Evidence, Report(w, e)
  PROVE  Inv'
  BY SMTT(60) DEF Report, Inv, TypeOK, Truthful, Holding, Granted, Owns, Epoch,
     Current, taskVars, leaseVars, history

LEMMA DieInv == ASSUME Inv, NEW w \in Workers, Die(w) PROVE Inv'
  BY SMTT(60) DEF Die, Inv, TypeOK, Truthful, Holding, Granted, Owns, Epoch,
     Current, taskVars, leaseVars

LEMMA RestartInv == ASSUME Inv, NEW w \in Workers, Restart(w) PROVE Inv'
  BY SMTT(60) DEF Restart, Inv, TypeOK, Truthful, Holding, Granted, Owns, Epoch,
     Current, taskVars, leaseVars, history

LEMMA RegisterInv ==
  ASSUME Inv, NEW t \in Tasks, NEW D \in SUBSET Tasks, RegisterTask(t, D)
  PROVE  Inv'
  BY SMTT(60) DEF RegisterTask, Inv, TypeOK, Truthful, Holding, Granted, Owns, Epoch,
     Current, leaseVars, workerVars, history

LEMMA ExpireInv == ASSUME Inv, NEW r \in Resources, Expire(r) PROVE Inv'
  BY SMTT(60) DEF Expire, Inv, TypeOK, Truthful, Holding, Granted, Owns, Epoch,
     Current, taskVars, workerVars, history

LEMMA RenewInv ==
  ASSUME Inv, NEW r \in Resources, NEW e \in Epochs(r), Renew(r, e)
  PROVE  Inv'
  BY SMTT(60) DEF Renew, Inv, TypeOK, Truthful, Holding, Granted, Owns, Epoch,
     Current, taskVars, workerVars, history

LEMMA ReleaseInv ==
  ASSUME Inv, NEW r \in Resources, NEW e \in Epochs(r), ReleaseLease(r, e)
  PROVE  Inv'
  BY SMTT(60) DEF ReleaseLease, Surrender, Inv, TypeOK, Truthful, Holding, Granted,
     Owns, Epoch, Current, taskVars, workerVars

LEMMA RecoveryInv ==
  ASSUME Inv, NEW t \in Tasks,
         MarkRecovery(t) \/ ResolveRecovery(t)
  PROVE  Inv'
<1>1. CASE MarkRecovery(t)
  BY <1>1, SMTT(60) DEF MarkRecovery, MarkRecoveryState, Inv, TypeOK, Truthful, Holding, Granted,
     Owns, Epoch, Current, leaseVars, workerVars, history
<1>2. CASE ResolveRecovery(t)
  BY <1>2, SMTT(60) DEF ResolveRecovery, Inv, TypeOK, Truthful, Holding, Granted,
     Owns, Epoch, Current, leaseVars, workerVars
<1> QED BY <1>1, <1>2

LEMMA CheckpointInv ==
  ASSUME Inv, NEW t \in Tasks, NEW e \in Epochs(t), CheckpointTask(t, e)
  PROVE  Inv'
  BY SMTT(60) DEF CheckpointTask, Surrender, Inv, TypeOK, Truthful, Holding, Granted,
     Owns, Epoch, Epochs, Current

LEMMA UnknownInv ==
  ASSUME Inv, NEW t \in Tasks, NEW e \in Epochs(t), CheckpointUnknown(t, e)
  PROVE  Inv'
  BY SMTT(60) DEF CheckpointUnknown, MarkRecoveryState, Inv, TypeOK, Truthful, Holding,
     Granted, Owns, Epoch, Current, workerVars, history

LEMMA OperationInv ==
  ASSUME Inv, NEW t \in Tasks, NEW e \in Epochs(t), NEW known \in BOOLEAN,
         BeginOperation(t, e) \/ FinishOperation(t, e, known)
  PROVE  Inv'
<1>1. CASE BeginOperation(t, e)
  BY <1>1, SMTT(60) DEF BeginOperation, Epochs, Inv, TypeOK, Truthful, Holding, Granted,
     Owns, Epoch, Current, taskVars, leaseVars, workerVars, history
<1>2. CASE FinishOperation(t, e, known)
  <2>1. CASE known
    BY <1>2, <2>1, SMTT(60) DEF FinishOperation, Inv, TypeOK, Truthful, Holding,
       Granted, Owns, Epoch, Current, leaseVars, workerVars, history
  <2>2. CASE ~known
    <3>1. /\ MarkRecoveryState(t)
          /\ inflight' \in [Tasks -> SUBSET Nat]
          /\ UNCHANGED <<deps, checkpoint, claimed, result, decision, lease, grants,
                         evidence, alive, working, writtenOff>>
      BY <1>2, <2>2, SMTT(30) DEF FinishOperation, Inv, TypeOK, leaseVars, workerVars, history
    <3>2. TypeOK'
      BY <3>1, SMTT(60) DEF MarkRecoveryState, Inv, TypeOK
    <3>3. Holding'
      BY <3>1, SMTT(60) DEF MarkRecoveryState, Inv, TypeOK, Holding, Owns, Epoch, Current
    <3>4. Truthful' /\ Granted'
      BY <3>1, SMTT(60) DEF MarkRecoveryState, Inv, TypeOK, Truthful, Granted
    <3> QED BY <3>2, <3>3, <3>4 DEF Inv
  <2> QED BY <2>1, <2>2
<1> QED BY <1>1, <1>2

LEMMA PublishInv ==
  ASSUME Inv, NEW t \in Tasks, NEW e \in Epochs(t), PublishResult(t, e)
  PROVE  Inv'
  BY SMTT(60) DEF PublishResult, Unpublished, Surrender, Inv, TypeOK, Truthful, Holding,
     Granted, Owns, Epoch, Current, workerVars

LEMMA DecideInv ==
  ASSUME Inv, NEW t \in Tasks, NEW c \in Epochs(Coordinator),
         NEW d \in {"accepted", "rejected", "superseded"},
         NEW terminal \in BOOLEAN, DecideResult(c, t, d, terminal)
  PROVE  Inv'
  BY SMTT(60) DEF DecideResult, Canonical, Inv, TypeOK, Truthful, Holding, Granted,
     Owns, Epoch, Current, leaseVars, workerVars, history

LEMMA BlockedInv ==
  ASSUME Inv, NEW t \in Tasks, RouteBlocked(t) \/ QuestionBlocked(t)
  PROVE  Inv'
<1>1. CASE RouteBlocked(t)
  BY <1>1, SMTT(60) DEF RouteBlocked, Inv, TypeOK, Truthful, Holding, Granted,
     Owns, Epoch, Current, leaseVars, workerVars, history
<1>2. CASE QuestionBlocked(t)
  BY <1>2, SMTT(60) DEF QuestionBlocked, Inv, TypeOK, Truthful, Holding, Granted,
     Owns, Epoch, Current, leaseVars, workerVars, history
<1> QED BY <1>1, <1>2

\* Nobody still owns what is granted anew: a task that waits for an operator is
\* not granted, and a holder on record as gone is gone.
LEMMA VacantUnowned ==
  ASSUME Inv, NEW r \in Resources, Vacant(r), r \in Tasks => ~recovery[r]
  PROVE  working[r] \subseteq writtenOff[r]
  BY SMTT(60) DEF Inv, TypeOK, Truthful, Holding, Owns, Vacant, Holder, Epoch

LEMMA GrantHolding ==
  ASSUME Inv, NEW r \in Resources, NEW w \in Workers,
         working[r] \subseteq writtenOff[r], Grant(r, w),
         UNCHANGED <<alive, writtenOff, recovery>>
  PROVE  Holding'
<1>1. /\ grants[r] \in Seq(Workers) /\ grants \in [Resources -> Seq(Workers)]
      /\ working \in [Resources -> SUBSET Nat]
      /\ lease \in [Resources -> Active \cup {"released"}]
  BY DEF Inv, TypeOK
<1>2. /\ Epoch(r)' = Epoch(r) + 1 /\ Epoch(r) \in Nat
      /\ \A e \in 1 .. Epoch(r) : grants'[r][e] = grants[r][e]
      /\ grants'[r][Epoch(r) + 1] = w
      /\ lease'[r] = "fresh"
      /\ working'[r] = IF w \in alive THEN working[r] \cup {Epoch(r) + 1}
                                      ELSE working[r]
  <2>1. /\ grants'[r] = Append(grants[r], w)
        /\ lease'[r] = "fresh"
        /\ working'[r] = IF w \in alive THEN working[r] \cup {Epoch(r) + 1}
                                        ELSE working[r]
    BY <1>1 DEF Grant
  <2>2. /\ Len(Append(grants[r], w)) = Len(grants[r]) + 1
        /\ Len(grants[r]) \in Nat
        /\ \A e \in 1 .. Len(grants[r]) : Append(grants[r], w)[e] = grants[r][e]
        /\ Append(grants[r], w)[Len(grants[r]) + 1] = w
    BY <1>1, SMTT(30)
  <2> QED BY <2>1, <2>2 DEF Epoch
<1>3. \A q \in Resources \ {r} :
        grants'[q] = grants[q] /\ lease'[q] = lease[q] /\ working'[q] = working[q]
  BY <1>1, SMTT(30) DEF Grant
<1>4. \A q \in Resources \ {r} :
        /\ writtenOff'[q] \subseteq working'[q]
        /\ \A e \in working'[q] :
             /\ e \in 1 .. Epoch(q)' /\ grants'[q][e] \in alive'
             /\ IF e \in writtenOff'[q] THEN ~Current(q, e)' ELSE Owns(q, e)'
  BY <1>3, SMTT(30) DEF Inv, Holding, Owns, Current, Epoch
<1>5. /\ writtenOff'[r] \subseteq working'[r]
      /\ \A e \in working'[r] :
           /\ e \in 1 .. Epoch(r)' /\ grants'[r][e] \in alive'
           /\ IF e \in writtenOff'[r] THEN ~Current(r, e)' ELSE Owns(r, e)'
  <2>1. \A e \in working[r] : e \in 1 .. Epoch(r) /\ grants[r][e] \in alive
    BY DEF Inv, Holding
  <2>2. writtenOff[r] = working[r]
    BY DEF Inv, Holding
  <2>3. \A e \in working'[r] : e \in writtenOff[r] \/ (e = Epoch(r) + 1 /\ w \in alive)
    BY <1>2, <2>2
  <2>4. \A e \in writtenOff[r] : e \in 1 .. Epoch(r) /\ e # Epoch(r) + 1
    BY <1>2, <2>1, <2>2, SMTT(30)
  <2>5. Epoch(r)' \in 1 .. Epoch(r)' /\ 1 .. Epoch(r) \subseteq 1 .. Epoch(r)'
    BY <1>2, SMTT(30)
  <2> QED BY <1>2, <2>1, <2>4, <2>5, <2>2, <2>3, SMTT(60) DEF Owns, Current, Epoch
<1> QED BY <1>4, <1>5 DEF Holding

LEMMA AcquireTaskInv ==
  ASSUME Inv, NEW t \in Tasks, NEW w \in Workers, NEW handoff \in BOOLEAN,
         AcquireTask(t, w, handoff)
  PROVE  Inv'
<1>1. working[t] \subseteq writtenOff[t]
  BY VacantUnowned DEF AcquireTask
<1>2. Holding'
  BY <1>1, GrantHolding DEF AcquireTask, workerVars
<1>3. TypeOK'
  BY SMTT(60) DEF AcquireTask, Grant, Epoch, Inv, TypeOK, workerVars
<1>4. Granted'
  <2>1. grants[t] \in Seq(Workers) /\ grants \in [Resources -> Seq(Workers)]
    BY DEF Inv, TypeOK
  <2>2. grants'[t] # <<>> /\ \A u \in Tasks \ {t} : grants'[u] = grants[u]
    BY <2>1, SMTT(30) DEF AcquireTask, Grant
  <2>3. /\ \A u \in Tasks \ {t} : status'[u] = status[u]
        /\ checkpoint' = checkpoint
    BY DEF AcquireTask, Inv, TypeOK
  <2>4. ASSUME NEW u \in Tasks
        PROVE  /\ grants'[u] = <<>> => checkpoint'[u] = 0
               /\ status'[u] = "none" => grants'[u] = <<>>
    <3>1. CASE u = t
      BY <2>2, <3>1 DEF AcquireTask, Inv, TypeOK
    <3>2. CASE u # t
      BY <2>2, <2>3, <3>2 DEF Inv, Granted
    <3> QED BY <3>1, <3>2
  <2> QED BY <2>4 DEF Granted
<1>5. Truthful'
  BY DEF AcquireTask, Inv, Truthful, workerVars
<1> QED BY <1>2, <1>3, <1>4, <1>5 DEF Inv

LEMMA AcquireCoordinatorInv ==
  ASSUME Inv, NEW w \in Workers, AcquireCoordinator(w)
  PROVE  Inv'
<1>1. working[Coordinator] \subseteq writtenOff[Coordinator]
  BY VacantUnowned DEF AcquireCoordinator
<1>2. Holding'
  BY <1>1, GrantHolding DEF AcquireCoordinator, workerVars, taskVars
<1>3. TypeOK'
  <2>1. /\ grants' \in [Resources -> Seq(Workers)]
        /\ lease' \in [Resources -> Active \cup {"released"}]
        /\ working' \in [Resources -> SUBSET Nat]
        /\ grants'[Coordinator] # <<>>
        /\ \A r \in Resources \ {Coordinator} :
             lease'[r] = lease[r] /\ grants'[r] = grants[r]
    <3>1. /\ grants \in [Resources -> Seq(Workers)]
          /\ lease \in [Resources -> Active \cup {"released"}]
          /\ working \in [Resources -> SUBSET Nat]
          /\ Grant(Coordinator, w)
      BY DEF AcquireCoordinator, Inv, TypeOK
    <3> QED BY <3>1, SMTT(30) DEF Grant, Epoch
  <2> QED BY <2>1, SMTT(30) DEF AcquireCoordinator, Inv, TypeOK, workerVars, taskVars
<1>4. Granted'
  BY SMTT(60) DEF AcquireCoordinator, Grant, Inv, TypeOK, Granted, workerVars, taskVars
<1>5. Truthful'
  BY DEF AcquireCoordinator, Inv, Truthful, workerVars
<1> QED BY <1>2, <1>3, <1>4, <1>5 DEF Inv

-----------------------------------------------------------------------------
LEMMA StepInv == Inv /\ [Next]_vars => Inv'
<1> SUFFICES ASSUME Inv, [Next]_vars PROVE Inv'
  OBVIOUS
<1>1. CASE WorkerStep
  BY <1>1, ReportInv, DieInv, RestartInv, AcquireCoordinatorInv, AcquireTaskInv
     DEF WorkerStep
<1>2. CASE LeaseStep
  BY <1>2, ExpireInv, RenewInv, ReleaseInv DEF LeaseStep
<1>3. CASE TaskStep
  BY <1>3, RegisterInv, RecoveryInv, BlockedInv, CheckpointInv, UnknownInv,
     OperationInv, PublishInv, DecideInv DEF TaskStep
<1>4. CASE UNCHANGED vars
  BY <1>4 DEF vars, taskVars, leaseVars, workerVars, history, Inv, TypeOK, Truthful,
     Holding, Granted, Owns, Epoch, Current
<1> QED BY <1>1, <1>2, <1>3, <1>4 DEF Next

\* What the theorems below rest on.
LEMMA Invariance == Spec => []Inv
<1> QED BY InitInv, StepInv, PTL DEF Spec

\* The variables keep their types, and the documents agree: a task counts as
\* done only with a result, a decision is only about one.
THEOREM TypeCorrect == Spec => []TypeOK
<1>1. Inv => TypeOK
  BY DEF Inv
<1> QED BY <1>1, Invariance, PTL

\* However many workers there are, however late their calls arrive, and whoever
\* dies: two running workers own a task only when an operator wrote one off.
THEOREM NoDuplicateWork == Spec => []NoDuplicate
<1>1. Inv => NoDuplicate
  <2> SUFFICES ASSUME Inv, NEW r \in Resources
               PROVE  Cardinality(working[r] \ writtenOff[r]) <= 1
    BY DEF NoDuplicate
  <2>1. working[r] \ writtenOff[r] \subseteq {Epoch(r)}
    BY DEF Inv, Holding, Owns
  <2>2. IsFiniteSet({Epoch(r)}) /\ Cardinality({Epoch(r)}) = 1
    BY FS_Singleton
  <2> QED BY <2>1, <2>2, FS_Subset
<1> QED BY <1>1, Invariance, PTL

\* Whoever has claimed a checkpoint keeps it while alive.
THEOREM ResumedByOne == Spec => ResumedOnce
<1>1. ASSUME Inv, [Next]_vars, NEW t \in Tasks,
             claimed[t] # None, claimed'[t] # claimed[t], claimed'[t] # None
      PROVE  claimed[t] \notin alive
  <2>1. PICK w \in Workers : AcquireTask(t, w, TRUE)
    <3>1. ASSUME NEW u \in Tasks, NEW e \in Epochs(u), CheckpointTask(u, e)
          PROVE  FALSE
      BY <1>1, <3>1, SMTT(30) DEF CheckpointTask, Inv, TypeOK
    <3>2. ASSUME NEW u \in Tasks, NEW w \in Workers, NEW handoff \in BOOLEAN,
                 AcquireTask(u, w, handoff)
          PROVE  u = t /\ handoff = TRUE
      BY <1>1, <3>2, SMTT(30) DEF AcquireTask, Inv, TypeOK
    <3>3. claimed' # claimed
      BY <1>1
    <3>4. CASE WorkerStep
      BY <3>2, <3>3, <3>4 DEF WorkerStep, Report, Die, Restart, AcquireCoordinator, taskVars
    <3>5. CASE LeaseStep
      BY <3>3, <3>5 DEF LeaseStep, Expire, Renew, ReleaseLease, taskVars
    <3>6. CASE TaskStep
      BY <3>1, <3>3, <3>6 DEF TaskStep, RegisterTask, MarkRecovery, ResolveRecovery,
         RouteBlocked, QuestionBlocked, CheckpointUnknown, BeginOperation,
         PublishResult, FinishOperation, DecideResult, taskVars
    <3> QED BY <1>1, <3>3, <3>4, <3>5, <3>6 DEF Next, vars, taskVars
  <2>2. claimed'[t] = w
    <3>1. claimed \in [Tasks -> Workers \cup {None}]
      BY <1>1 DEF Inv, TypeOK
    <3>2. claimed' = [claimed EXCEPT ![t] = w]
      BY <2>1, Zenon DEF AcquireTask
    <3> QED BY <3>1, <3>2
  <2> QED BY <1>1, <2>1, <2>2 DEF AcquireTask, Resumable, Inv, TypeOK, Truthful
<1>2. Inv /\ [Next]_vars => [\A t \in Tasks :
        claimed[t] # None /\ claimed'[t] # claimed[t] /\ claimed'[t] # None
          => claimed[t] \notin alive]_vars
  BY <1>1
<1> QED BY <1>2, Invariance, PTL DEF Spec, ResumedOnce

\* A task's result and its decision are final, also for a task that was reopened.
THEOREM CanonicalIsFinal == Spec => CanonicalOnce
<1>1. ASSUME Inv, [Next]_vars, NEW t \in Tasks
      PROVE  /\ result[t] # 0 => result'[t] = result[t]
             /\ decision[t] # "none" => decision'[t] = decision[t]
  <2>1. ASSUME NEW u \in Tasks, NEW e \in Epochs(u), PublishResult(u, e)
        PROVE  /\ result[t] # 0 => result'[t] = result[t]
               /\ decision' = decision
    BY <2>1, <1>1, SMTT(30) DEF PublishResult, Unpublished, Inv, TypeOK
  <2>2. ASSUME NEW c, NEW u \in Tasks, NEW d, NEW terminal, DecideResult(c, u, d, terminal)
        PROVE  /\ result' = result
               /\ decision[t] # "none" => decision'[t] = decision[t]
    BY <2>2, <1>1, SMTT(30) DEF DecideResult, Undecided, Inv, TypeOK
  <2>3. CASE WorkerStep
    BY <2>3 DEF WorkerStep, Report, Die, Restart, AcquireCoordinator, AcquireTask, taskVars
  <2>4. CASE LeaseStep
    BY <2>4 DEF LeaseStep, Expire, Renew, ReleaseLease, taskVars
  <2>5. CASE TaskStep
    BY <2>1, <2>2, <2>5 DEF TaskStep, RegisterTask, MarkRecovery, ResolveRecovery,
       RouteBlocked, QuestionBlocked, CheckpointTask, CheckpointUnknown,
       BeginOperation, FinishOperation, taskVars
  <2> QED BY <1>1, <2>3, <2>4, <2>5 DEF Next, vars, taskVars
<1>2. Inv /\ [Next]_vars => [\A t \in Tasks :
        /\ result[t] # 0 => result'[t] = result[t]
        /\ decision[t] # "none" => decision'[t] = decision[t]]_vars
  BY <1>1
<1> QED BY <1>2, Invariance, PTL DEF Spec, CanonicalOnce

\* Decisions are final, and a checkpoint, which frees a task from the check of its
\* dependencies, only exists where that check was passed before.
THEOREM AcceptedFirst == Spec => []BuildsOnAccepted
<1>1. Init => BuildsOnAccepted
  BY DEF Init, BuildsOnAccepted
<1>2. ASSUME Inv, BuildsOnAccepted, [Next]_vars
      PROVE  BuildsOnAccepted'
  <2> SUFFICES ASSUME NEW t \in Tasks, grants'[t] # <<>>, NEW u \in deps'[t]
               PROVE  decision'[u] = "accepted"
    BY DEF BuildsOnAccepted
  <2>1. ASSUME NEW v \in Tasks, NEW w \in Workers, NEW handoff \in BOOLEAN,
               AcquireTask(v, w, handoff)
        PROVE  decision'[u] = "accepted"
    <3>1. deps' = deps /\ decision' = decision
      BY <2>1 DEF AcquireTask
    <3>2. CASE grants[t] # <<>>
      BY <1>2, <3>1, <3>2 DEF BuildsOnAccepted
    <3>3. CASE grants[t] = <<>>
      <4>1. v = t
        BY <2>1, <3>3, SMTT(30) DEF AcquireTask, Grant, Inv, TypeOK
      <4>2. checkpoint[t] = 0
        BY <3>3, <1>2 DEF Inv, Granted
      <4>3. Ready(t)
        BY <2>1, <4>1, <4>2 DEF AcquireTask
      <4> QED BY <3>1, <4>3 DEF Ready
    <3> QED BY <3>2, <3>3
  <2>2. ASSUME NEW w \in Workers, AcquireCoordinator(w)
        PROVE  decision'[u] = "accepted"
    <3>1. grants'[t] = grants[t]
      BY <2>2, SMTT(30) DEF AcquireCoordinator, Grant, Inv, TypeOK
    <3> QED BY <1>2, <2>2, <3>1 DEF AcquireCoordinator, taskVars, BuildsOnAccepted
  <2>3. ASSUME NEW v \in Tasks, NEW D \in SUBSET Tasks, RegisterTask(v, D)
        PROVE  decision'[u] = "accepted"
    <3>1. grants' = grants /\ decision' = decision /\ v # t
      BY <2>3, <1>2 DEF RegisterTask, Inv, Granted, leaseVars
    <3>2. deps'[t] = deps[t]
      BY <2>3, <3>1, SMTT(30) DEF RegisterTask, Inv, TypeOK
    <3> QED BY <1>2, <3>1, <3>2 DEF BuildsOnAccepted
  <2>4. ASSUME NEW c, NEW v \in Tasks, NEW d, NEW terminal, DecideResult(c, v, d, terminal)
        PROVE  decision'[u] = "accepted"
    <3>1. grants' = grants /\ deps' = deps
      BY <2>4 DEF DecideResult, leaseVars
    <3>2. decision[u] = "accepted" /\ u \in Tasks
      BY <1>2, <3>1 DEF BuildsOnAccepted, Inv, TypeOK
    <3>3. v # u
      BY <2>4, <3>2 DEF DecideResult, Undecided
    <3> QED BY <2>4, <3>2, <3>3, SMTT(30) DEF DecideResult, Inv, TypeOK
  <2>5. ASSUME UNCHANGED <<grants, deps, decision>>
        PROVE  decision'[u] = "accepted"
    BY <1>2, <2>5 DEF BuildsOnAccepted
  <2>6. CASE WorkerStep
    BY <2>1, <2>2, <2>5, <2>6 DEF WorkerStep, Report, Die, Restart, taskVars, leaseVars
  <2>7. CASE LeaseStep
    BY <2>5, <2>7 DEF LeaseStep, Expire, Renew, ReleaseLease, taskVars
  <2>8. CASE TaskStep
    BY <2>3, <2>4, <2>5, <2>8 DEF TaskStep, MarkRecovery, ResolveRecovery, RouteBlocked,
       QuestionBlocked, CheckpointTask, CheckpointUnknown, BeginOperation,
       PublishResult, FinishOperation, taskVars, leaseVars
  <2>9. CASE UNCHANGED vars
    BY <2>5, <2>9 DEF vars, taskVars, leaseVars
  <2> QED BY <1>2, <2>6, <2>7, <2>8, <2>9 DEF Next
<1> QED BY <1>1, <1>2, Invariance, PTL DEF Spec

\* What a written-off worker still sends changes no result, no checkpoint, and
\* begins no operation.
THEOREM LateFenced == Spec => LateIsFenced
<1>1. ASSUME Inv, [Next]_vars, NEW t \in Tasks
      PROVE  /\ result'[t] # result[t] => result'[t] \notin writtenOff[t]
             /\ checkpoint'[t] # checkpoint[t] => checkpoint'[t] \notin writtenOff[t]
             /\ (inflight'[t] \ inflight[t]) \cap writtenOff[t] = {}
  <2>1. ASSUME NEW e, Current(t, e)
        PROVE  e \notin writtenOff[t]
    BY <1>1, <2>1 DEF Inv, Holding
  <2>2. ASSUME NEW u \in Tasks, NEW e \in Epochs(u), PublishResult(u, e)
        PROVE  /\ result'[t] # result[t] => result'[t] \notin writtenOff[t]
               /\ UNCHANGED <<checkpoint, inflight>>
    BY <1>1, <2>1, <2>2, SMTT(30) DEF PublishResult, Inv, TypeOK
  <2>3. ASSUME NEW u \in Tasks, NEW e \in Epochs(u), CheckpointTask(u, e)
        PROVE  /\ checkpoint'[t] # checkpoint[t] => checkpoint'[t] \notin writtenOff[t]
               /\ UNCHANGED <<result, inflight>>
    BY <1>1, <2>1, <2>3, SMTT(30) DEF CheckpointTask, Inv, TypeOK
  <2>4. ASSUME NEW u \in Tasks, NEW e \in Epochs(u), BeginOperation(u, e)
        PROVE  /\ (inflight'[t] \ inflight[t]) \cap writtenOff[t] = {}
               /\ UNCHANGED <<result, checkpoint>>
    BY <1>1, <2>1, <2>4, SMTT(30) DEF BeginOperation, Inv, TypeOK, taskVars
  <2>5. ASSUME NEW u \in Tasks, NEW e \in Epochs(u), NEW known \in BOOLEAN,
               FinishOperation(u, e, known)
        PROVE  /\ inflight'[t] \ inflight[t] = {}
               /\ UNCHANGED <<result, checkpoint>>
    BY <1>1, <2>5, SMTT(30) DEF FinishOperation, Inv, TypeOK
  <2>6. CASE UNCHANGED <<result, checkpoint, inflight>>
    BY <2>6
  <2>7. CASE WorkerStep
    BY <2>6, <2>7 DEF WorkerStep, Report, Die, Restart, AcquireCoordinator, AcquireTask,
       taskVars
  <2>8. CASE LeaseStep
    BY <2>6, <2>8 DEF LeaseStep, Expire, Renew, ReleaseLease, taskVars
  <2>9. CASE TaskStep
    BY <2>2, <2>3, <2>4, <2>5, <2>6, <2>9 DEF TaskStep, RegisterTask, MarkRecovery,
       ResolveRecovery, RouteBlocked, QuestionBlocked, CheckpointUnknown, DecideResult
  <2> QED BY <1>1, <2>6, <2>7, <2>8, <2>9 DEF Next, vars, taskVars
<1>2. Inv /\ [Next]_vars => [\A t \in Tasks :
        /\ result'[t] # result[t] => result'[t] \notin writtenOff[t]
        /\ checkpoint'[t] # checkpoint[t] => checkpoint'[t] \notin writtenOff[t]
        /\ (inflight'[t] \ inflight[t]) \cap writtenOff[t] = {}]_vars
  BY <1>1
<1> QED BY <1>2, Invariance, PTL DEF Spec, LateIsFenced

-----------------------------------------------------------------------------
\* A set closed under dependencies that holds those of a new task, but not the
\* task: a circle would lie inside it, where there was none, or outside, where
\* the new task has no dependency.
LEMMA RegisterNoCircle ==
  ASSUME NoCircle, deps \in [Tasks -> SUBSET Tasks],
         NEW t \in Tasks, NEW D \in SUBSET Tasks, ~ClosesCycle(t, D),
         deps' = [deps EXCEPT ![t] = D]
  PROVE  NoCircle'
<1> SUFFICES ASSUME NEW X \in SUBSET Tasks, X # {}
             PROVE  \E u \in X : deps'[u] \cap X = {}
  BY DEF NoCircle
<1>1. PICK S \in SUBSET Tasks :
        D \subseteq S /\ (\A u \in S : deps[u] \subseteq S) /\ t \notin S
  BY DEF ClosesCycle
<1>2. deps'[t] = D /\ \A u \in Tasks \ {t} : deps'[u] = deps[u]
  OBVIOUS
<1>3. CASE X \cap S # {}
  <2>1. PICK u \in X \cap S : deps[u] \cap (X \cap S) = {}
    BY <1>3 DEF NoCircle
  <2>2. deps[u] \subseteq S /\ deps'[u] = deps[u]
    BY <1>1, <1>2, <2>1
  <2> QED BY <2>1, <2>2
<1>4. CASE X \cap S = {} /\ t \in X
  BY <1>1, <1>2, <1>4
<1>5. CASE t \notin X
  <2>1. PICK u \in X : deps[u] \cap X = {}
    BY DEF NoCircle
  <2> QED BY <1>2, <1>5, <2>1
<1> QED BY <1>3, <1>4, <1>5

\* In whatever order tasks are registered and name each other, they never wait for
\* each other in a circle.
THEOREM NeverACircle == Spec => []NoCircle
<1>1. Init => NoCircle
  <2> SUFFICES ASSUME Init PROVE NoCircle
    OBVIOUS
  <2> SUFFICES ASSUME NEW S \in SUBSET Tasks, S # {}
               PROVE  \E t \in S : deps[t] \cap S = {}
    BY DEF NoCircle
  <2>1. \A t \in S : deps[t] = {}
    BY DEF Init
  <2> QED BY <2>1
<1>2. ASSUME Inv, NoCircle, [Next]_vars
      PROVE  NoCircle'
  <2>1. ASSUME NEW t \in Tasks, NEW D \in SUBSET Tasks, RegisterTask(t, D)
        PROVE  NoCircle'
    BY <1>2, <2>1, RegisterNoCircle DEF RegisterTask, Inv, TypeOK
  <2>2. CASE UNCHANGED deps
    BY <1>2, <2>2 DEF NoCircle
  <2>3. CASE WorkerStep
    BY <2>2, <2>3 DEF WorkerStep, Report, Die, Restart, AcquireCoordinator, AcquireTask,
       taskVars
  <2>4. CASE LeaseStep
    BY <2>2, <2>4 DEF LeaseStep, Expire, Renew, ReleaseLease, taskVars
  <2>5. CASE TaskStep
    BY <2>1, <2>2, <2>5 DEF TaskStep, MarkRecovery, ResolveRecovery, RouteBlocked,
       QuestionBlocked, CheckpointTask, CheckpointUnknown, BeginOperation,
       PublishResult, FinishOperation, DecideResult, taskVars
  <2> QED BY <1>2, <2>2, <2>3, <2>4, <2>5 DEF Next, vars, taskVars
<1> QED BY <1>1, <1>2, Invariance, PTL DEF Spec
=============================================================================
