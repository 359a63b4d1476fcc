-------------------------- MODULE ApplyOnceProofs --------------------------
(***************************************************************************)
(* Theorems about ApplyOnce, for any number of hosts, runs and approvals.  *)
(*                                                                         *)
(* The argument: the operating system's lock keeps hosts out of each       *)
(* other's way (LockHeld), so that what the holder found on disk when it   *)
(* looked is still there when it acts on it (Custody), so that the journal *)
(* never lies about what is published (JournalTruthful).  The conjunction  *)
(* is inductive; none of the parts is by itself.                           *)
(*                                                                         *)
(* The completion events rest on the other half of Custody: a host past an *)
(* append has its event on file, unless it was dropped, and a host that    *)
(* appends none found the journal published (Owing).  A plan record is     *)
(* only marked applied by the holder of a receipt, as nothing else that is *)
(* saved says applied (Modest).                                            *)
(***************************************************************************)
EXTENDS ApplyOnce, TLAPS

\* The named guards and markers of the actions, one line each, are opened in
\* every proof below.
USE DEF Release, LockFree, Binds, ProvenUndone, Completed, Committed,
        RetryAllowed, Historical, NoHistory, InspectJournal, InspectHistory

\* What a host holds in memory is fit for the step it is about to take.
Provisions ==
  \A h \in Hosts :
    /\ pc[h] \in {"verify"} \cup Executing \cup Finishing => run[h] \in Runs
    /\ pc[h] \in {"read_approval", "lock"} \cup Working => appr[h] \in Approvals
    /\ pc[h] = "save_approval" =>
         appr[h] \in Approvals \ Foreign /\ mem[h] \in {"approved", "rejected"}

\* TypeOK by the owner of the variables: the root and the hosts.
RootTypes ==
  /\ planState \in PlanStates
  /\ approval \in [Approvals -> ApprovalState]
  /\ signed \subseteq Approvals
  /\ source \in BOOLEAN
  /\ journal \in Journals
  /\ runDirs \subseteq Runs
  /\ workDirs \subseteq Runs
  /\ receipt \in [Runs -> Approvals \cup {None}]
  /\ tampered \subseteq Runs
  /\ events \subseteq [kind : EventKinds, run : Runs]
  /\ dropped \in BOOLEAN

HostTypes ==
  /\ lock \in Hosts \cup {None}
  /\ pc \in [Hosts -> Places]
  /\ appr \in [Hosts -> Approvals \cup {None}]
  /\ mem \in [Hosts -> PlanStates]
  /\ run \in [Hosts -> Runs \cup {None}]
  /\ emit \in [Hosts -> BOOLEAN]
  /\ exc \in [Hosts -> {"none", "rpc", "cancelled", "fault"}]
  /\ answer \in [Hosts -> Runs \cup {None}]
  /\ Provisions

Typed == RootTypes /\ HostTypes

LEMMA TypedTypeOK == Typed => TypeOK
BY DEF Typed, RootTypes, HostTypes, TypeOK

\* A host that answers leaves itself, and nobody else, empty-handed.
LEMMA FinishTypes ==
  ASSUME HostTypes, NEW h \in Hosts, NEW reply \in Runs \cup {None},
         Finish(h, reply)
  PROVE  HostTypes'
BY DEF HostTypes, Finish, Goto, Provisions, Working, Executing, Finishing,
       Places, PlanStates

LEMMA PlacesFact ==
  /\ Working \subseteq Places
  /\ "idle" \in Places /\ "idle" \notin Working
BY DEF Places, Working, Executing, Finishing

LEMMA OwesBoolean == ASSUME NEW c \in BOOLEAN PROVE OwesEvents(c) \in BOOLEAN
BY DEF OwesEvents

LEMMA InitTyped == Init => Typed
  <1> SUFFICES ASSUME Init PROVE Typed
    OBVIOUS
  <1> USE DEF Init
  <1>1. PICK old \in SUBSET Legacy, a \in Approvals \ Foreign :
          /\ receipt = [r \in Runs |-> IF r \in old THEN a ELSE None]
          /\ runDirs = old
          /\ approval = [b \in Approvals |->
                           IF b \in Foreign \/ (b = a /\ old # {})
                             THEN "approved" ELSE "absent"]
          /\ planState \in IF Legacy = {} THEN {"proposed"}
                           ELSE IF old = {} THEN {"proposed", "applied"}
                           ELSE {"approved", "applied"}
    OBVIOUS
  <1>2. RootTypes
    BY <1>1, ConstantsAssumption DEF RootTypes, PlanStates, ApprovalState, Journals
  <1>3. HostTypes
    BY ConstantsAssumption
    DEF HostTypes, Provisions, PlanStates, Places, Working, Executing, Finishing
  <1> QED
    BY <1>2, <1>3 DEF Typed

\* The steps that end no request leave the lock alone and move one host.
LEMMA StepTyped == Typed /\ [Next]_vars => Typed'
  <1> SUFFICES ASSUME Typed, [Next]_vars PROVE Typed'
    OBVIOUS
  <1> USE DEF Typed, recordVars, diskVars, eventVars, hostVars
  <1>1. ASSUME NEW h \in Hosts, Validate(h)
        PROVE Typed'
    BY <1>1 DEF Validate, RootTypes, HostTypes, Provisions, Goto,
       Places, Working, Executing, Finishing, PlanStates
  <1>2. ASSUME NEW h \in Hosts, SavePlan(h) PROVE Typed'
    <2>1. HostTypes'
      BY <1>2, FinishTypes DEF SavePlan
    <2> QED
      BY <1>2, <2>1 DEF SavePlan, RootTypes, HostTypes, PlanStates
  <1>3. ASSUME NEW h \in Hosts, NEW a \in Approvals, RequestApproval(h, a)
        PROVE Typed'
    BY <1>3 DEF RequestApproval, ApprovalState, RootTypes, HostTypes,
       Provisions, Goto, Places, Working, Executing, Finishing, PlanStates
  <1>4. ASSUME NEW h \in Hosts, NEW a \in Approvals,
               NEW d \in {"approved", "rejected"}, Resolve(h, a, d)
        PROVE Typed'
    BY <1>4 DEF Resolve, RootTypes, HostTypes, Provisions, Goto,
       Places, Working, Executing, Finishing, PlanStates
  <1>5. ASSUME NEW h \in Hosts, SaveApproval(h)
        PROVE Typed'
    BY <1>5 DEF SaveApproval, ApprovalState, RootTypes, HostTypes, Provisions, Goto,
       Places, Working, Executing, Finishing, PlanStates
  <1>6. ASSUME NEW h \in Hosts, NEW a \in Approvals, ReadPlan(h, a)
        PROVE Typed'
    BY <1>6 DEF ReadPlan, RootTypes, HostTypes, Provisions, Goto,
       Places, Working, Executing, Finishing, PlanStates
  <1>7. ASSUME NEW h \in Hosts, ReadApproval(h) PROVE Typed'
    <2>1. RootTypes'
      BY <1>7 DEF ReadApproval, RootTypes
    <2>2. CASE Finish(h, None)
      BY <2>1, <2>2, FinishTypes
    <2>3. CASE ~Finish(h, None)
      BY <1>7, <2>1, <2>3 DEF ReadApproval, HostTypes, Provisions, Goto,
         Places, Working, Executing, Finishing, PlanStates
    <2> QED
      BY <2>2, <2>3
  <1>8. ASSUME NEW h \in Hosts, TryLock(h) PROVE Typed'
    <2>1. RootTypes'
      BY <1>8 DEF TryLock, RootTypes
    <2>2. CASE Finish(h, None)
      BY <2>1, <2>2, FinishTypes
    <2>3. CASE /\ lock' = h /\ Goto(h, "inspect")
               /\ UNCHANGED <<appr, mem, run, emit, exc, answer>>
      <3>1. pc[h] = "lock"
        BY <1>8 DEF TryLock
      <3>2. appr[h] \in Approvals
        BY <3>1 DEF HostTypes, Provisions
      <3>3. Provisions'
        BY <2>3, <3>2 DEF HostTypes, Provisions, Goto, Working, Executing,
           Finishing
      <3>4. pc' \in [Hosts -> Places]
        BY <2>3 DEF HostTypes, Goto, Places, Working
      <3> QED
        BY <2>1, <2>3, <3>3, <3>4 DEF HostTypes
    <2> QED
      BY <1>8, <2>2, <2>3 DEF TryLock
  <1>9. ASSUME NEW h \in Hosts, Inspect(h) PROVE Typed'
    <2>1. CASE Finish(h, None) /\ UNCHANGED journal
      BY <1>9, <2>1, FinishTypes DEF Inspect, RootTypes
    <2>2. /\ pc[h] = "inspect" /\ appr[h] \in Approvals
          /\ UNCHANGED <<recordVars, source, runDirs, workDirs, receipt,
                         tampered, eventVars>>
      BY <1>9 DEF Inspect, HostTypes, Provisions, Working
    <2>3. ASSUME NEW r \in Runs, NEW c \in BOOLEAN, Replay(h, r, c)
          PROVE Typed'
      <3>1. RootTypes'
        BY <2>2, <2>3 DEF Replay, RootTypes
      <3>2. HostTypes'
        BY <2>2, <2>3, OwesBoolean DEF Replay, HostTypes, Provisions, Goto,
           Places, Working, Executing, Finishing
      <3> QED
        BY <3>1, <3>2
    <2>4. ASSUME NEW r \in Runs, ReserveRun(h, r) PROVE Typed'
      <3>1. RootTypes'
        BY <2>2, <2>4 DEF ReserveRun, RootTypes, Journals, AttemptState
      <3>2. HostTypes'
        BY <2>2, <2>4 DEF ReserveRun, HostTypes, Provisions, Goto, Places,
           Working, Executing, Finishing
      <3> QED
        BY <3>1, <3>2
    <2>5. journal # NoJournal => journal.run \in Runs
      BY DEF RootTypes, Journals
    <2> QED
      BY <1>9, <2>1, <2>3, <2>4, <2>5 DEF Inspect, OutcomeUnknown, Reserve
  <1>10. ASSUME NEW h \in Hosts, Verify(h) PROVE Typed'
    <2>1. RootTypes'
      BY <1>10 DEF Verify, RootTypes
    <2>2. CASE Finish(h, None)
      BY <2>1, <2>2, FinishTypes
    <2>3. CASE ~Finish(h, None)
      BY <1>10, <2>1, <2>3 DEF Verify, HostTypes, Provisions, Goto,
         Places, Working, Executing, Finishing, PlanStates
    <2> QED
      BY <2>2, <2>3
  <1>11. ASSUME NEW h \in Hosts, Execute(h)
        PROVE Typed'
    BY <1>11 DEF Execute, Raise, RootTypes, HostTypes, Provisions, Goto,
       Places, Working, Executing, Finishing, PlanStates
  <1>12. ASSUME NEW h \in Hosts, MakeDirs(h)
        PROVE Typed'
    BY <1>12 DEF MakeDirs, Raise, RootTypes, HostTypes, Provisions, Goto,
       Places, Working, Executing, Finishing, PlanStates
  <1>13. ASSUME NEW h \in Hosts, RunEngine(h)
        PROVE Typed'
    BY <1>13 DEF RunEngine, Raise, RootTypes, HostTypes, Provisions, Goto,
       Places, Working, Executing, Finishing, PlanStates
  <1>14. ASSUME NEW h \in Hosts, PublishReceipt(h) PROVE Typed'
    <2>1. RootTypes'
      BY <1>14 DEF PublishReceipt, RootTypes, HostTypes
    <2>2. HostTypes'
      BY <1>14 DEF PublishReceipt, Raise, HostTypes, Provisions, Goto,
         Places, Working, Executing, Finishing, PlanStates
    <2> QED
      BY <2>1, <2>2
  <1>15. ASSUME NEW h \in Hosts, CleanUp(h)
        PROVE Typed'
    BY <1>15 DEF CleanUp, RootTypes, HostTypes, Provisions, Goto,
       Places, Working, Executing, Finishing, PlanStates
  <1>16. ASSUME NEW h \in Hosts, Settle(h) PROVE Typed'
    <2>1. HostTypes'
      BY <1>16, FinishTypes DEF Settle
    <2>2. journal' \in Journals
      BY <1>16 DEF Settle, RootTypes, Journals, NoJournal, AttemptState, HostTypes,
         Provisions, Executing
    <2> QED
      BY <1>16, <2>1, <2>2 DEF Settle, RootTypes
  <1>17. ASSUME NEW h \in Hosts, Tidy(h)
        PROVE Typed'
    BY <1>17 DEF Tidy, RootTypes, HostTypes, Provisions, Goto,
       Places, Working, Executing, Finishing, PlanStates
  <1>18. ASSUME NEW h \in Hosts, Reconcile(h)
        PROVE Typed'
    BY <1>18 DEF Reconcile, RootTypes, HostTypes, Provisions, Goto,
       Places, Working, Executing, Finishing, PlanStates
  <1>19. ASSUME NEW h \in Hosts, EmitApplied(h) PROVE Typed'
    <2>1. run[h] \in Runs
      BY <1>19 DEF EmitApplied, Emit, HostTypes, Provisions, Finishing
    <2>2. events' \subseteq [kind : EventKinds, run : Runs]
      BY <1>19, <2>1 DEF EmitApplied, Emit, Event, EventKinds, RootTypes
    <2>3. dropped' \in BOOLEAN
      BY <1>19 DEF EmitApplied, Emit, RootTypes
    <2>4. RootTypes'
      BY <1>19, <2>2, <2>3 DEF EmitApplied, Emit, RootTypes
    <2>5. HostTypes'
      BY <1>19 DEF EmitApplied, Emit, HostTypes, Provisions, Goto, Places,
         Working, Executing, Finishing
    <2> QED
      BY <2>4, <2>5
  <1>20. ASSUME NEW h \in Hosts, EmitPublished(h) PROVE Typed'
    <2>1. run[h] \in Runs
      BY <1>20 DEF EmitPublished, Emit, HostTypes, Provisions, Finishing
    <2>2. events' \subseteq [kind : EventKinds, run : Runs]
      BY <1>20, <2>1 DEF EmitPublished, Emit, Event, EventKinds, RootTypes
    <2>3. dropped' \in BOOLEAN
      BY <1>20 DEF EmitPublished, Emit, RootTypes
    <2>4. RootTypes'
      BY <1>20, <2>2, <2>3 DEF EmitPublished, Emit, RootTypes
    <2>5. HostTypes'
      BY <1>20 DEF EmitPublished, Emit, HostTypes, Provisions, Goto, Places,
         Working, Executing, Finishing
    <2> QED
      BY <2>4, <2>5
  <1>21. ASSUME NEW h \in Hosts, Complete(h) PROVE Typed'
    <2>1. run[h] \in Runs
      BY <1>21 DEF Complete, HostTypes, Provisions, Finishing
    <2>2. HostTypes'
      BY <1>21, <2>1, FinishTypes DEF Complete
    <2> QED
      BY <1>21, <2>1, <2>2 DEF Complete, RootTypes, Journals, AttemptState
  <1>22. ASSUME NEW h \in Hosts, Crash(h) PROVE Typed'
    BY <1>22, FinishTypes DEF Crash, RootTypes
  <1>23. ASSUME NEW r \in Runs, Tamper(r) PROVE Typed'
    BY <1>23 DEF Tamper, RootTypes, HostTypes, Provisions
  <1>24. CASE SourceChanges
    BY <1>24 DEF SourceChanges, RootTypes, HostTypes, Provisions
  <1>25. CASE UNCHANGED vars
    BY <1>25 DEF vars, RootTypes, HostTypes, Provisions
  <1> QED
    BY <1>1, <1>2, <1>3, <1>4, <1>5, <1>6, <1>7, <1>8, <1>9, <1>10,
       <1>11, <1>12, <1>13, <1>14, <1>15, <1>16, <1>17, <1>18, <1>19,
       <1>20, <1>21, <1>22, <1>23, <1>24, <1>25
    DEF Next, Serve, Request, Step, Environment

\* Every variable keeps its type, and a host never acts on a run or an
\* approval it does not have.
THEOREM TypeCorrect == Spec => []Typed
  BY InitTyped, StepTyped, PTL DEF Spec

-----------------------------------------------------------------------------
(* The plan lock.                                                          *)

LEMMA FinishLock ==
  ASSUME Typed, LockHeld, NEW h \in Hosts, NEW reply, Finish(h, reply)
  PROVE  LockHeld'
BY ConstantsAssumption, PlacesFact
DEF LockHeld, Finish, Goto, Typed, HostTypes

\* A step that moves a host neither into apply_once nor out of it.
LEMMA StayLock ==
  ASSUME Typed, LockHeld, NEW h \in Hosts, NEW place, Goto(h, place),
         UNCHANGED lock, pc[h] \in Working <=> place \in Working
  PROVE  LockHeld'
BY DEF LockHeld, Goto, Typed, HostTypes

LEMMA LockStep == Typed /\ LockHeld /\ [Next]_vars => LockHeld'
  <1> SUFFICES ASSUME Typed, LockHeld, [Next]_vars PROVE LockHeld'
    OBVIOUS
  <1> USE DEF diskVars
  <1>1. ASSUME NEW h \in Hosts,
               \/ SavePlan(h) \/ Settle(h) \/ Complete(h) \/ Crash(h)
        PROVE  LockHeld'
    BY <1>1, FinishLock DEF SavePlan, Settle, Complete, Crash
  <1>2. ASSUME NEW h \in Hosts,
               \/ Validate(h) \/ SaveApproval(h)
               \/ \E a \in Approvals : ReadPlan(h, a)
               \/ \E a \in Approvals, d \in {"approved", "rejected"} :
                    Resolve(h, a, d)
        PROVE  LockHeld'
    BY <1>2, StayLock
    DEF Validate, SaveApproval, ReadPlan, Resolve, Working, Executing, Finishing
  <1>3. ASSUME NEW h \in Hosts, NEW a \in Approvals, RequestApproval(h, a)
        PROVE  LockHeld'
    BY <1>3 DEF RequestApproval, hostVars, LockHeld
  <1>4. ASSUME NEW h \in Hosts, ReadApproval(h) PROVE LockHeld'
    BY <1>4, FinishLock, StayLock
    DEF ReadApproval, Working, Executing, Finishing
  <1>5. ASSUME NEW h \in Hosts, TryLock(h) PROVE LockHeld'
    <2>1. CASE lock = None /\ lock' = h /\ Goto(h, "inspect")
      BY <1>5, <2>1, ConstantsAssumption
      DEF LockHeld, Goto, Typed, HostTypes, Working
    <2> QED
      BY <1>5, <2>1, FinishLock DEF TryLock
  <1>6. ASSUME NEW h \in Hosts, Inspect(h) PROVE LockHeld'
    <2>1. ASSUME NEW r, NEW c, Replay(h, r, c) PROVE LockHeld'
      BY <1>6, <2>1, StayLock DEF Inspect, Replay, Working
    <2>2. ASSUME NEW r \in Runs, ReserveRun(h, r) PROVE LockHeld'
      BY <1>6, <2>2, StayLock DEF Inspect, ReserveRun, Working, Executing
    <2> QED
      BY <1>6, <2>1, <2>2, FinishLock DEF Inspect, OutcomeUnknown, Reserve
  <1>7. ASSUME NEW h \in Hosts, Verify(h) PROVE LockHeld'
    BY <1>7, FinishLock, StayLock DEF Verify, Working, Finishing
  <1>8. ASSUME NEW h \in Hosts,
               \/ Execute(h) \/ MakeDirs(h) \/ RunEngine(h)
               \/ PublishReceipt(h) \/ CleanUp(h) \/ Tidy(h)
               \/ EmitApplied(h) \/ EmitPublished(h)
        PROVE  LockHeld'
    BY <1>8, StayLock
    DEF Execute, MakeDirs, RunEngine, PublishReceipt, CleanUp, Tidy,
        EmitApplied, EmitPublished, Emit, Raise, Working, Executing, Finishing
  <1>9. ASSUME NEW h \in Hosts, Reconcile(h) PROVE LockHeld'
    BY <1>9, StayLock DEF Reconcile, Working, Finishing
  <1>10. CASE (\E r \in Runs : Tamper(r)) \/ SourceChanges
    BY <1>10 DEF Tamper, SourceChanges, hostVars, LockHeld
  <1>11. CASE UNCHANGED vars
    BY <1>11 DEF vars, hostVars, LockHeld
  <1> QED
    BY <1>1, <1>2, <1>3, <1>4, <1>5, <1>6, <1>7, <1>8, <1>9, <1>10, <1>11
    DEF Next, Serve, Request, Step, Environment

\* Two hosts are never inside apply_once for the plan at the same time, and no
\* death or refusal leaves the lock behind.
THEOREM PlanLockIsExclusive == Spec => []LockHeld
  <1>1. Init => LockHeld
    BY ConstantsAssumption, PlacesFact DEF Init, LockHeld
  <1> QED
    BY <1>1, LockStep, TypeCorrect, PTL DEF Spec

-----------------------------------------------------------------------------
(* Custody and the journal.                                                *)

Charge == \A h \in Hosts : InCharge(h)
Ledger == Charge /\ JournalTruthful

\* The places where a host is in charge of a run.
Charged == {"verify"} \cup Executing \cup Finishing

\* While one host works, the others do not: the lock at work.
LEMMA OthersOut ==
  ASSUME Typed, LockHeld, NEW h \in Hosts, pc[h] \in Working,
         NEW place, Goto(h, place)
  PROVE  \A k \in Hosts \ {h} : InCharge(k)'
<1>1. \A k \in Hosts \ {h} : pc'[k] \notin Working
  BY DEF LockHeld, Goto, Typed, HostTypes
<1> QED
  BY <1>1 DEF InCharge, Working

\* A step that touches no journal, directory or receipt and leaves its host in
\* charge of nothing leaves everything as it was.
LEMMA Outside ==
  ASSUME Typed, Ledger, NEW h \in Hosts, NEW place, place \notin Charged,
         Goto(h, place), \A k \in Hosts \ {h} : run'[k] = run[k],
         UNCHANGED <<journal, runDirs, workDirs, receipt>>
  PROVE  Ledger'
<1>1. Published' = Published
  BY DEF Published
<1>2. JournalTruthful'
  BY <1>1 DEF Ledger, JournalTruthful, Removed
<1>3. ASSUME NEW k \in Hosts PROVE InCharge(k)'
  <2>1. CASE k = h
    BY <2>1 DEF Goto, InCharge, Charged, Typed, HostTypes
  <2>2. CASE k # h
    <3>1. pc'[k] = pc[k] /\ run'[k] = run[k]
      BY <2>2 DEF Goto, Typed, HostTypes
    <3>2. InCharge(k)
      BY DEF Ledger, Charge
    <3> QED
      BY <1>1, <3>1, <3>2 DEF InCharge
  <2> QED
    BY <2>1, <2>2
<1> QED
  BY <1>2, <1>3 DEF Ledger, Charge

LEMMA FinishLedger ==
  ASSUME Typed, Ledger, NEW h \in Hosts, NEW reply, Finish(h, reply),
         UNCHANGED <<journal, runDirs, workDirs, receipt>>
  PROVE  Ledger'
<1>1. "idle" \notin Charged
  BY DEF Charged, Executing, Finishing
<1>2. \A k \in Hosts \ {h} : run'[k] = run[k]
  BY DEF Finish, Typed, HostTypes
<1> QED
  BY <1>1, <1>2, Outside DEF Finish

\* A host in charge that moves on within the same phase of its work without
\* touching journal or receipts stays in charge.
LEMMA MoveOn ==
  ASSUME Typed, LockHeld, Ledger, NEW h \in Hosts, NEW place, Goto(h, place),
         UNCHANGED <<run, journal, receipt>>,
         \/ pc[h] \in Executing /\ place \in Executing
         \/ pc[h] \in {"verify"} \cup Finishing /\ place \in Finishing,
         journal.state = "not_applied" => UNCHANGED <<runDirs, workDirs>>
  PROVE  Ledger'
<1>1. Published' = Published
  BY DEF Published
<1>2. pc[h] \in Working
  BY DEF Working
<1>3. \A k \in Hosts \ {h} : InCharge(k)'
  BY <1>2, OthersOut
<1>4. InCharge(h)'
  BY <1>1 DEF Goto, Ledger, Charge, InCharge, Typed, HostTypes, Executing,
     Finishing
<1>5. JournalTruthful'
  BY <1>1 DEF Ledger, JournalTruthful, Removed
<1> QED
  BY <1>3, <1>4, <1>5 DEF Ledger, Charge

LEMMA LedgerStep == Typed /\ LockHeld /\ Ledger /\ [Next]_vars => Ledger'
  <1> SUFFICES ASSUME Typed, LockHeld, Ledger, [Next]_vars PROVE Ledger'
    OBVIOUS
  <1> USE DEF diskVars
  <1>0. /\ "save_plan" \notin Charged /\ "save_approval" \notin Charged
        /\ "read_approval" \notin Charged /\ "lock" \notin Charged
        /\ "inspect" \notin Charged
    BY DEF Charged, Executing, Finishing
  <1>1. ASSUME NEW h \in Hosts, SavePlan(h) \/ Crash(h) PROVE Ledger'
    BY <1>1, FinishLedger DEF SavePlan, Crash
  <1>2. ASSUME NEW h \in Hosts,
               \/ Validate(h) \/ SaveApproval(h)
               \/ \E a \in Approvals : ReadPlan(h, a)
               \/ \E a \in Approvals, d \in {"approved", "rejected"} :
                    Resolve(h, a, d)
        PROVE  Ledger'
    BY <1>0, <1>2, Outside DEF Validate, SaveApproval, ReadPlan, Resolve
  <1>3. CASE \/ \E h \in Hosts, a \in Approvals : RequestApproval(h, a)
             \/ (\E r \in Runs : Tamper(r)) \/ SourceChanges
             \/ UNCHANGED vars
    BY <1>3
    DEF RequestApproval, Tamper, SourceChanges, vars, hostVars, Ledger, Charge,
        JournalTruthful, InCharge, Published, Removed
  <1>4. ASSUME NEW h \in Hosts, ReadApproval(h) PROVE Ledger'
    BY <1>0, <1>4, FinishLedger, Outside DEF ReadApproval
  <1>5. ASSUME NEW h \in Hosts, TryLock(h) PROVE Ledger'
    BY <1>0, <1>5, FinishLedger, Outside DEF TryLock
  <1>6. ASSUME NEW h \in Hosts, Inspect(h) PROVE Ledger'
    <2>0. /\ pc[h] \in Working
          /\ journal # NoJournal => journal.run \in Runs
      BY <1>6 DEF Inspect, Working, Typed, RootTypes, Journals
    <2>1. ASSUME NEW r \in Runs, NEW c, Replay(h, r, c), Published = {r},
                 journal = NoJournal \/ journal.run = r
          PROVE Ledger'
      <3>1. Published' = Published /\ JournalTruthful'
        BY <1>6, <2>1
        DEF Inspect, Replay, Published, Ledger, JournalTruthful, Removed
      <3>2. InCharge(h)'
        BY <2>1, <3>1
        DEF Replay, Goto, InCharge, Typed, HostTypes, Executing, Finishing
      <3> QED
        BY <2>0, <2>1, <3>1, <3>2, OthersOut DEF Replay, Ledger, Charge
    <2>2. ASSUME NEW r \in Runs, ReserveRun(h, r), Published = {}
          PROVE  Ledger'
      <3>1. /\ journal' = [run |-> r, state |-> "pending"]
            /\ run' = [run EXCEPT ![h] = r]
            /\ Goto(h, "execute")
        BY <2>2 DEF ReserveRun
      <3>2. Published' = {}
        BY <1>6, <2>2 DEF Inspect, Published
      <3>3. InCharge(h)'
        BY <3>1, <3>2 DEF Goto, InCharge, Typed, HostTypes, Executing, Finishing
      <3>4. JournalTruthful'
        BY <3>1, <3>2 DEF JournalTruthful
      <3> QED
        BY <2>0, <3>1, <3>3, <3>4, OthersOut DEF Ledger, Charge
    <2>3. CASE Finish(h, None) /\ UNCHANGED journal
      BY <1>6, <2>3, FinishLedger DEF Inspect
    <2>4. ASSUME journal # NoJournal, receipt[journal.run] # None
          PROVE  Published = {journal.run}
      BY <2>0, <2>4 DEF Ledger, JournalTruthful, Published
    <2>5. ASSUME journal # NoJournal, journal.state = "not_applied"
          PROVE  Published = {}
      BY <2>5 DEF Ledger, JournalTruthful
    <2> QED
      BY <1>6, <2>0, <2>1, <2>2, <2>3, <2>4, <2>5
      DEF Inspect, OutcomeUnknown, Reserve
  <1>7. ASSUME NEW h \in Hosts, Verify(h) PROVE Ledger'
    <2>1. CASE Goto(h, "reconcile") /\ UNCHANGED run
      BY <1>7, <2>1, MoveOn DEF Verify, Finishing
    <2> QED
      BY <1>7, <2>1, FinishLedger DEF Verify
  <1>8. ASSUME NEW h \in Hosts, Execute(h) \/ RunEngine(h) PROVE Ledger'
    BY <1>8, MoveOn DEF Execute, RunEngine, Raise, Executing
  <1>9. ASSUME NEW h \in Hosts, MakeDirs(h) \/ CleanUp(h) PROVE Ledger'
    <2>1. journal.state = "pending"
      BY <1>9 DEF MakeDirs, CleanUp, Ledger, Charge, InCharge, Executing
    <2> QED
      BY <1>9, <2>1, MoveOn DEF MakeDirs, CleanUp, Raise, Executing
  <1>10. ASSUME NEW h \in Hosts, PublishReceipt(h) PROVE Ledger'
    <2>1. /\ run[h] \in Runs /\ Published = {}
          /\ journal = [run |-> run[h], state |-> "pending"]
      BY <1>10 DEF PublishReceipt, Ledger, Charge, InCharge, Executing
    <2>2. CASE Raise(h, "fault", "cleanup") /\ UNCHANGED receipt
      BY <1>10, <2>2, MoveOn DEF PublishReceipt, Raise, Executing
    <2>3. CASE /\ receipt' = [receipt EXCEPT ![run[h]] = appr[h]]
               /\ Goto(h, "tidy")
      <3>1. appr[h] # None
        BY <1>10, ConstantsAssumption
        DEF PublishReceipt, Typed, HostTypes, Provisions, Working, Executing
      <3>2. Published' = {run[h]}
        BY <2>1, <2>3, <3>1 DEF Published, Typed, RootTypes
      <3>3. InCharge(h)'
        BY <1>10, <2>1, <2>3, <3>2
        DEF PublishReceipt, Goto, InCharge, Typed, HostTypes, Executing,
            Finishing
      <3>4. JournalTruthful'
        BY <1>10, <2>1, <3>2 DEF PublishReceipt, JournalTruthful
      <3> QED
        BY <1>10, <2>3, <3>3, <3>4, OthersOut
        DEF PublishReceipt, Ledger, Charge, Working, Executing
    <2> QED
      BY <1>10, <2>2, <2>3 DEF PublishReceipt
  <1>11. ASSUME NEW h \in Hosts, Settle(h) PROVE Ledger'
    <2>1. /\ run[h] \in Runs /\ Published = {}
          /\ journal = [run |-> run[h], state |-> "pending"]
      BY <1>11 DEF Settle, Ledger, Charge, InCharge, Executing
    <2>2. Published' = {}
      BY <1>11, <2>1 DEF Settle, Published
    <2>3. JournalTruthful'
      BY <1>11, <2>1, <2>2 DEF Settle, JournalTruthful, Removed
    <2>4. InCharge(h)'
      BY <1>11
      DEF Settle, Finish, Goto, InCharge, Typed, HostTypes, Executing, Finishing
    <2> QED
      BY <1>11, <2>3, <2>4, OthersOut
      DEF Settle, Finish, Ledger, Charge, Working, Executing
  <1>12. ASSUME NEW h \in Hosts, Tidy(h) PROVE Ledger'
    <2>1. journal.state # "not_applied"
      BY <1>12 DEF Tidy, Ledger, Charge, InCharge, Finishing, JournalTruthful
    <2> QED
      BY <1>12, <2>1, MoveOn DEF Tidy, Finishing
  <1>13. ASSUME NEW h \in Hosts,
                Reconcile(h) \/ EmitApplied(h) \/ EmitPublished(h)
         PROVE  Ledger'
    BY <1>13, MoveOn DEF Reconcile, EmitApplied, EmitPublished, Emit, Finishing
  <1>14. ASSUME NEW h \in Hosts, Complete(h) PROVE Ledger'
    <2>1. Published = {run[h]}
      BY <1>14 DEF Complete, Ledger, Charge, InCharge, Finishing
    <2>2. Published' = {run[h]}
      BY <1>14, <2>1 DEF Complete, Published
    <2>3. JournalTruthful'
      BY <1>14, <2>2 DEF Complete, JournalTruthful
    <2>4. InCharge(h)'
      BY <1>14
      DEF Complete, Finish, Goto, InCharge, Typed, HostTypes, Executing,
          Finishing
    <2> QED
      BY <1>14, <2>3, <2>4, OthersOut
      DEF Complete, Finish, Ledger, Charge, Working, Finishing
  <1> QED
    BY <1>1, <1>2, <1>3, <1>4, <1>5, <1>6, <1>7, <1>8, <1>9, <1>10, <1>11,
       <1>12, <1>13, <1>14
    DEF Next, Serve, Request, Step, Environment

LEMMA InitLedger == Init => Ledger
<1> SUFFICES ASSUME Init PROVE Ledger
  OBVIOUS
<1>1. Charge
  BY DEF Init, Charge, InCharge, Executing, Finishing
<1>2. JournalTruthful
  BY DEF Init, JournalTruthful, NoJournal
<1> QED
  BY <1>1, <1>2 DEF Ledger

LEMMA LedgerHolds == Spec => [](Typed /\ LockHeld /\ Ledger)
  BY InitLedger, LedgerStep, TypeCorrect, PlanLockIsExclusive, PTL DEF Spec

\* The journal never claims what the disk does not show, whatever dies when.
THEOREM JournalIsTruthful == Spec => []JournalTruthful
<1>1. Ledger => JournalTruthful
  BY DEF Ledger
<1> QED
  BY <1>1, LedgerHolds, PTL

-----------------------------------------------------------------------------
(* What the steps do to the receipts and to the answers.                   *)

\* A receipt is only ever added where there was none.
LEMMA ReceiptStep ==
  Typed /\ Ledger /\ [Next]_vars =>
    \A r \in Runs : receipt'[r] # receipt[r] => Published = {}
<1> SUFFICES ASSUME Typed, Ledger, [Next]_vars, UNCHANGED receipt => FALSE
             PROVE  Published = {}
  OBVIOUS
<1>1. PICK h \in Hosts : PublishReceipt(h)
  BY DEF Next, Serve, Request, Step, Environment, vars, diskVars, Validate, SavePlan,
     RequestApproval, Resolve, SaveApproval, ReadPlan, ReadApproval, TryLock,
     Inspect, Verify, Execute, MakeDirs, RunEngine, CleanUp, Settle, Tidy,
     Reconcile, EmitApplied, EmitPublished, Emit, Complete, Crash, Tamper,
     SourceChanges
<1> QED
  BY <1>1 DEF PublishReceipt, Ledger, Charge, InCharge, Executing

\* The journal moves to a new run only from none, or from a run that is known
\* not to have been applied.
LEMMA JournalStep ==
  Typed /\ Ledger /\ [Next]_vars =>
    (journal # NoJournal /\ journal'.run # journal.run =>
       journal.state = "not_applied" /\ Removed(journal.run))
<1> SUFFICES ASSUME Typed, Ledger, [Next]_vars,
                    journal # NoJournal, journal'.run # journal.run
             PROVE  journal.state = "not_applied" /\ Removed(journal.run)
  OBVIOUS
<1>1. PICK h \in Hosts : Inspect(h) \/ Settle(h) \/ Complete(h)
  BY DEF Next, Serve, Request, Step, Environment, vars, diskVars, Validate, SavePlan,
     RequestApproval, Resolve, SaveApproval, ReadPlan, ReadApproval, TryLock,
     Verify, Execute, MakeDirs, RunEngine, PublishReceipt, CleanUp, Tidy,
     Reconcile, EmitApplied, EmitPublished, Emit, Crash, Tamper, SourceChanges
<1>2. CASE Inspect(h)
  BY <1>2 DEF Inspect, Replay, OutcomeUnknown, Ledger, JournalTruthful
<1>3. CASE Settle(h)
  BY <1>3 DEF Settle, Ledger, Charge, InCharge, Executing
<1>4. CASE Complete(h)
  BY <1>4 DEF Complete, Ledger, Charge, InCharge, Finishing
<1> QED
  BY <1>1, <1>2, <1>3, <1>4

\* A step that leaves journal and receipts alone and gives no new answer.
LEMMA NoNewAnswer ==
  ASSUME AnswersAgree, UNCHANGED <<journal, receipt>>,
         \A h \in Hosts : answer'[h] \in {answer[h], None}
  PROVE  AnswersAgree'
BY ConstantsAssumption DEF AnswersAgree, Published

\* While a host executes, nobody holds an answer; so what it does to the
\* journal or the receipts contradicts none.
LEMMA NoAnswerYet ==
  ASSUME AnswersAgree, journal.state # "published",
         \A h \in Hosts : answer'[h] \in {answer[h], None}
  PROVE  AnswersAgree'
BY ConstantsAssumption DEF AnswersAgree

LEMMA AnswerStep ==
  Typed /\ Ledger /\ AnswersAgree /\ [Next]_vars => AnswersAgree'
<1> SUFFICES ASSUME Typed, Ledger, AnswersAgree, [Next]_vars
             PROVE  AnswersAgree'
  OBVIOUS
<1> USE DEF Typed, HostTypes
<1>1. ASSUME NEW h \in Hosts, Complete(h) PROVE AnswersAgree'
  <2>1. run[h] \in Runs /\ Published = {run[h]}
    BY <1>1 DEF Complete, Ledger, Charge, InCharge, Finishing
  <2>2. \A k \in Hosts : answer'[k] \in Runs => answer'[k] = run[h]
    BY <1>1, <2>1 DEF Complete, Finish, AnswersAgree
  <2>3. Published' = {run[h]} /\ journal' = [run |-> run[h], state |-> "published"]
    BY <1>1, <2>1 DEF Complete, Published
  <2> QED
    BY <2>2, <2>3 DEF AnswersAgree
<1>2. ASSUME NEW h \in Hosts, PublishReceipt(h) \/ Settle(h)
      PROVE  AnswersAgree'
  <2>1. journal.state = "pending"
    BY <1>2 DEF PublishReceipt, Settle, Ledger, Charge, InCharge, Executing
  <2> QED
    BY <1>2, <2>1, NoAnswerYet DEF PublishReceipt, Settle, Finish
<1>3. ASSUME NEW h \in Hosts, Inspect(h) PROVE AnswersAgree'
  <2>1. \A k \in Hosts : answer'[k] \in {answer[k], None}
    BY <1>3 DEF Inspect, Replay, OutcomeUnknown, Reserve, ReserveRun, Finish
  <2>2. CASE UNCHANGED journal
    BY <1>3, <2>1, <2>2, NoNewAnswer DEF Inspect
  <2>3. CASE journal' # journal
    <3>1. journal = NoJournal \/ journal.state = "not_applied"
      BY <1>3, <2>3 DEF Inspect, Replay, OutcomeUnknown
    <3> QED
      BY <2>1, <3>1, NoAnswerYet DEF NoJournal
  <2> QED
    BY <2>2, <2>3
<1>4. ASSUME NEW h \in Hosts,
             \/ SavePlan(h) \/ ReadApproval(h) \/ TryLock(h) \/ Verify(h)
             \/ Crash(h)
      PROVE  AnswersAgree'
  BY <1>4, NoNewAnswer
  DEF SavePlan, ReadApproval, TryLock, Verify, Crash, Finish
<1>5. ASSUME NEW h \in Hosts,
             \/ Validate(h)
             \/ \E a \in Approvals : ReadPlan(h, a)
             \/ \E a \in Approvals, d \in {"approved", "rejected"} :
                  Resolve(h, a, d)
      PROVE  AnswersAgree'
  BY <1>5, NoNewAnswer DEF Validate, ReadPlan, Resolve, diskVars
<1>6. CASE UNCHANGED <<journal, receipt, answer>>
  BY <1>6, NoNewAnswer
<1> QED
  BY <1>1, <1>2, <1>3, <1>4, <1>5, <1>6
  DEF Next, Serve, Request, Step, Environment, vars, hostVars, diskVars,
      RequestApproval, SaveApproval, Execute, MakeDirs, RunEngine, CleanUp,
      Tidy, Reconcile, EmitApplied, EmitPublished, Emit, Tamper, SourceChanges

\* All answers name the plan's one candidate.
THEOREM AnswersAlwaysAgree == Spec => []AnswersAgree
<1>1. Init => AnswersAgree
  BY ConstantsAssumption DEF Init, AnswersAgree
<1> QED
  BY <1>1, AnswerStep, LedgerHolds, PTL DEF Spec

\* At most one candidate is published for a plan, and it stays.
THEOREM PublishedOnce == Spec => PublishOnce
<1>1. Typed /\ Ledger /\ [Next]_vars =>
        [\A r \in Runs : receipt'[r] # receipt[r] => Published = {}]_vars
  BY ReceiptStep
<1> QED
  BY <1>1, LedgerHolds, PTL DEF Spec, PublishOnce

\* A run of unknown outcome is never given up for another one.
THEOREM NeverRetriedBlindly == Spec => NoBlindRetry
<1>1. Typed /\ Ledger /\ [Next]_vars =>
        [journal # NoJournal /\ journal'.run # journal.run =>
           journal.state = "not_applied" /\ Removed(journal.run)]_vars
  BY JournalStep
<1> QED
  BY <1>1, LedgerHolds, PTL DEF Spec, NoBlindRetry

-----------------------------------------------------------------------------
(* Refinement.                                                             *)

\* The step of OneCandidate that a step of ApplyOnce is.
LEMMA PromiseStep ==
  Typed /\ Ledger /\ [Next]_vars => [Promise!Next]_<<Published, answer>>
<1> SUFFICES ASSUME Typed, Ledger, [Next]_vars
             PROVE  [Promise!Next]_<<Published, answer>>
  OBVIOUS
<1> USE DEF Typed, HostTypes
<1>1. ASSUME NEW h \in Hosts, Complete(h)
      PROVE  [Promise!Next]_<<Published, answer>>
  <2>1. run[h] \in Runs /\ Published = {run[h]}
    BY <1>1 DEF Complete, Ledger, Charge, InCharge, Finishing
  <2>2. Published' = Published /\ answer' = [answer EXCEPT ![h] = run[h]]
    BY <1>1 DEF Complete, Finish, Published
  <2>3. Promise!Answer(h)
    BY <2>1, <2>2 DEF Promise!Answer
  <2> QED
    BY <2>3 DEF Promise!Next
<1>2. ASSUME NEW h \in Hosts, PublishReceipt(h)
      PROVE  [Promise!Next]_<<Published, answer>>
  <2>1. run[h] \in Runs /\ Published = {} /\ UNCHANGED answer
    BY <1>2 DEF PublishReceipt, Ledger, Charge, InCharge, Executing
  <2>2. Published' \in {Published, {run[h]}}
    BY <1>2, <2>1 DEF PublishReceipt, Published, RootTypes
  <2> QED
    BY <2>1, <2>2 DEF Promise!Next, Promise!Publish
<1>3. ASSUME NEW h \in Hosts, UNCHANGED receipt,
             answer' = [answer EXCEPT ![h] = None]
      PROVE  [Promise!Next]_<<Published, answer>>
  <2>1. Published' = Published
    BY <1>3 DEF Published
  <2> QED
    BY <1>3, <2>1 DEF Promise!Next, Promise!Forget
<1>4. ASSUME UNCHANGED <<receipt, answer>>
      PROVE  [Promise!Next]_<<Published, answer>>
  BY <1>4 DEF Published
<1>5. ASSUME NEW h \in Hosts,
             \/ SavePlan(h) \/ ReadApproval(h) \/ TryLock(h) \/ Inspect(h)
             \/ Verify(h) \/ Settle(h) \/ Crash(h) \/ Validate(h)
             \/ \E a \in Approvals : ReadPlan(h, a)
             \/ \E a \in Approvals, d \in {"approved", "rejected"} :
                  Resolve(h, a, d)
      PROVE  [Promise!Next]_<<Published, answer>>
  BY <1>3, <1>4, <1>5
  DEF SavePlan, ReadApproval, TryLock, Inspect, Replay, OutcomeUnknown, Reserve,
      ReserveRun, Verify, Settle, Crash, Finish, Validate, ReadPlan, Resolve, diskVars
<1> QED
  BY <1>1, <1>2, <1>4, <1>5
  DEF Next, Serve, Request, Step, Environment, vars, hostVars, diskVars,
      RequestApproval, SaveApproval, Execute, MakeDirs, RunEngine, CleanUp,
      Tidy, Reconcile, EmitApplied, EmitPublished, Emit, Tamper, SourceChanges

\* The apply protocol implements OneCandidate: seen through its candidates and
\* answers, locks, journals, crashes and retries do not exist.
THEOREM KeepsThePromise == Spec => OneCandidatePromise
<1>1. Init => Promise!Init
  BY DEF Init, Promise!Init, Published
<1> QED
  BY <1>1, PromiseStep, LedgerHolds, PTL
  DEF Spec, OneCandidatePromise, Promise!Spec

-----------------------------------------------------------------------------
(* Approvals.                                                              *)

\* What is saved as approved has been signed by a host.
Signatures == \A a \in Approvals : approval[a] = "approved" => a \in signed

\* A host that has checked its approval and holds on to it keeps SignedReceipts
\* when nothing is published.
LEMMA SignedStep ==
  Typed /\ Signatures /\ SignedReceipts /\ [Next]_vars =>
    Signatures' /\ SignedReceipts'
<1> SUFFICES ASSUME Typed, Signatures, SignedReceipts, [Next]_vars
             PROVE  Signatures' /\ SignedReceipts'
  OBVIOUS
<1> USE DEF Typed, RootTypes, HostTypes, Signatures, SignedReceipts, Published,
        Working, Executing, Finishing, recordVars, diskVars, hostVars, Goto
<1>1. ASSUME NEW h \in Hosts, SavePlan(h) \/ Settle(h) \/ Complete(h) \/ Crash(h)
      PROVE  Signatures' /\ SignedReceipts'
  BY <1>1 DEF SavePlan, Settle, Complete, Crash, Finish
<1>2. ASSUME NEW h \in Hosts, SaveApproval(h)
      PROVE  Signatures' /\ SignedReceipts'
  BY <1>2 DEF SaveApproval
<1>3. ASSUME NEW h \in Hosts,
             \/ Validate(h)
             \/ \E a \in Approvals : ReadPlan(h, a) \/ RequestApproval(h, a)
             \/ \E a \in Approvals, d \in {"approved", "rejected"} :
                  Resolve(h, a, d)
      PROVE  Signatures' /\ SignedReceipts'
  BY <1>3 DEF Validate, ReadPlan, RequestApproval, Resolve
<1>4. ASSUME NEW h \in Hosts, ReadApproval(h)
      PROVE  Signatures' /\ SignedReceipts'
  <2>1. CASE Finish(h, None)
    BY <1>4, <2>1 DEF ReadApproval, Finish
  <2>2. CASE ~Finish(h, None)
    BY <1>4, <2>2 DEF ReadApproval, Provisions
  <2> QED
    BY <2>1, <2>2
<1>5. ASSUME NEW h \in Hosts, TryLock(h) \/ Inspect(h) \/ Verify(h)
      PROVE  Signatures' /\ SignedReceipts'
  <2>1. CASE Finish(h, None)
    BY <1>5, <2>1 DEF TryLock, Inspect, Verify, Finish
  <2>2. CASE ~Finish(h, None)
    BY <1>5, <2>2
    DEF TryLock, Inspect, Replay, OutcomeUnknown, Reserve,
        ReserveRun, Verify
  <2> QED
    BY <2>1, <2>2
<1>6. ASSUME NEW h \in Hosts, PublishReceipt(h)
      PROVE  Signatures' /\ SignedReceipts'
  BY <1>6 DEF PublishReceipt, Raise
<1>7. ASSUME NEW h \in Hosts,
             \/ Execute(h) \/ MakeDirs(h) \/ RunEngine(h) \/ CleanUp(h)
             \/ Tidy(h) \/ Reconcile(h) \/ EmitApplied(h) \/ EmitPublished(h)
      PROVE  Signatures' /\ SignedReceipts'
  BY <1>7
  DEF Execute, MakeDirs, RunEngine, CleanUp, Tidy, Reconcile, EmitApplied,
      EmitPublished, Emit, Raise
<1>8. CASE (\E r \in Runs : Tamper(r)) \/ SourceChanges \/ UNCHANGED vars
  BY <1>8 DEF Tamper, SourceChanges, vars
<1> QED
  BY <1>1, <1>2, <1>3, <1>4, <1>5, <1>6, <1>7, <1>8
  DEF Next, Serve, Request, Step, Environment

\* No candidate, and no attempt at one, without an approval of this very plan
\* that a host saved.
THEOREM OnlySignedPlansArePublished == Spec => []SignedReceipts
<1>1. Init => Signatures /\ SignedReceipts
  BY ConstantsAssumption
  DEF Init, Signatures, SignedReceipts, Published, Working, Executing, Finishing
<1> QED
  BY <1>1, SignedStep, TypeCorrect, PTL DEF Spec
-----------------------------------------------------------------------------
(* The completion events.                                                  *)

Debts == \A h \in Hosts : Owing(h)

\* While one host works, nobody else owes an event.
LEMMA OthersOweNothing ==
  ASSUME Typed, LockHeld, NEW h \in Hosts, pc[h] \in Working,
         NEW place, Goto(h, place)
  PROVE  \A k \in Hosts \ {h} : Owing(k)'
<1>1. \A k \in Hosts \ {h} : pc'[k] \notin Working
  BY DEF LockHeld, Goto, Typed, HostTypes
<1> QED
  BY <1>1 DEF Owing, Working, Finishing

\* A step of a host that comes to a place where it owes nothing, with journal,
\* receipts and events as they were.
LEMMA OwesNothing ==
  ASSUME Typed, Debts, CompletionEvents, NEW h \in Hosts, NEW place,
         place \notin {"verify"} \cup Finishing, Goto(h, place),
         \A k \in Hosts \ {h} : run'[k] = run[k] /\ emit'[k] = emit[k],
         UNCHANGED <<journal, receipt, events, dropped>>
  PROVE  Debts' /\ CompletionEvents'
<1>1. CompletionEvents'
  BY DEF CompletionEvents
<1>2. ASSUME NEW k \in Hosts \ {h} PROVE Owing(k)'
  <2>1. pc'[k] = pc[k] /\ run'[k] = run[k] /\ emit'[k] = emit[k] /\ Owing(k)
    BY DEF Goto, Typed, HostTypes, Debts
  <2> QED
    BY <2>1 DEF Owing
<1>3. Owing(h)'
  BY DEF Goto, Owing, Finishing, Typed, HostTypes
<1> QED
  BY <1>1, <1>2, <1>3 DEF Debts

LEMMA FinishOwes ==
  ASSUME Typed, Debts, CompletionEvents, NEW h \in Hosts, NEW reply,
         Finish(h, reply), UNCHANGED <<journal, receipt, events, dropped>>
  PROVE  Debts' /\ CompletionEvents'
<1>1. "idle" \notin {"verify"} \cup Finishing
  BY DEF Finishing
<1>2. \A k \in Hosts \ {h} : run'[k] = run[k] /\ emit'[k] = emit[k]
  BY DEF Finish, Typed, HostTypes
<1> QED
  BY <1>1, <1>2, OwesNothing DEF Finish

\* Each append either lands or is remembered as dropped.
LEMMA EmitOwes ==
  ASSUME Typed, LockHeld, Ledger, Debts, CompletionEvents, NEW h \in Hosts,
         EmitApplied(h) \/ EmitPublished(h)
  PROVE  Debts' /\ CompletionEvents'
<1>1. /\ run[h] \in Runs /\ receipt[run[h]] # None /\ pc[h] \in Working
      /\ UNCHANGED <<receipt, journal, run, emit>>
      /\ events \subseteq events' /\ (dropped => dropped')
  BY DEF EmitApplied, EmitPublished, Emit, Ledger, Charge, InCharge, Finishing,
     Working, Published, diskVars
<1>2. CompletionEvents'
  <2>1. \A e \in events' : e \in events \/ e.run = run[h]
    BY DEF EmitApplied, EmitPublished, Emit, Event
  <2> QED
    BY <1>1, <2>1 DEF CompletionEvents
<1>3. ASSUME EmitApplied(h) PROVE Debts'
  <2>1. /\ Goto(h, "emit_published")
        /\ dropped' \/ Event("plan.applied", run[h]) \in events'
    BY <1>3 DEF EmitApplied, Emit
  <2>2. pc'[h] = "emit_published"
    BY <2>1 DEF Goto, Typed, HostTypes
  <2>3. Owing(h)'
    <3>1. ~emit[h] => journal = [run |-> run[h], state |-> "published"]
      BY <1>3 DEF EmitApplied, Emit, Debts, Owing, Finishing
    <3> QED
      BY <1>1, <2>1, <2>2, <3>1 DEF Owing, Event
  <2> QED
    BY <1>1, <2>1, <2>3, OthersOweNothing DEF Debts
<1>4. ASSUME EmitPublished(h) PROVE Debts'
  <2>1. /\ Goto(h, "complete") /\ pc[h] = "emit_published"
        /\ dropped' \/ Event("candidate.published", run[h]) \in events'
    BY <1>4 DEF EmitPublished, Emit
  <2>2. pc'[h] = "complete"
    BY <2>1 DEF Goto, Typed, HostTypes
  <2>3. dropped \/ Event("plan.applied", run[h]) \in events
    BY <2>1 DEF Debts, Owing
  <2>4. Owing(h)'
    <3>1. ~emit[h] => journal = [run |-> run[h], state |-> "published"]
      BY <2>1 DEF Debts, Owing, Finishing
    <3>2. dropped' \/ \A k \in EventKinds : Event(k, run[h]) \in events'
      BY <1>1, <2>1, <2>3 DEF EventKinds
    <3> QED
      BY <1>1, <2>2, <3>1, <3>2 DEF Owing, Event
  <2> QED
    BY <1>1, <2>1, <2>4, OthersOweNothing DEF Debts
<1> QED
  BY <1>2, <1>3, <1>4

LEMMA OwingStep ==
  Typed /\ LockHeld /\ Ledger /\ Debts /\ CompletionEvents /\ [Next]_vars =>
    Debts' /\ CompletionEvents'
<1> SUFFICES ASSUME Typed, LockHeld, Ledger, Debts, CompletionEvents, [Next]_vars
             PROVE  Debts' /\ CompletionEvents'
  OBVIOUS
<1> USE DEF diskVars, eventVars
<1>0. \A p \in {"save_plan", "save_approval", "read_approval", "lock", "inspect"}
              \cup Executing : p \notin {"verify"} \cup Finishing
  BY DEF Executing, Finishing
<1>1. ASSUME NEW h \in Hosts, SavePlan(h) \/ Crash(h)
      PROVE  Debts' /\ CompletionEvents'
  BY <1>1, FinishOwes DEF SavePlan, Crash
<1>2. ASSUME NEW h \in Hosts,
             \/ Validate(h) \/ SaveApproval(h)
             \/ \E a \in Approvals : ReadPlan(h, a)
             \/ \E a \in Approvals, d \in {"approved", "rejected"} :
                  Resolve(h, a, d)
      PROVE  Debts' /\ CompletionEvents'
  BY <1>0, <1>2, OwesNothing DEF Validate, SaveApproval, ReadPlan, Resolve
<1>3. CASE \/ \E h \in Hosts, a \in Approvals : RequestApproval(h, a)
           \/ (\E r \in Runs : Tamper(r)) \/ SourceChanges
           \/ UNCHANGED vars
  BY <1>3
  DEF RequestApproval, Tamper, SourceChanges, vars, hostVars, Debts, Owing,
      CompletionEvents
<1>4. ASSUME NEW h \in Hosts, ReadApproval(h) \/ TryLock(h)
      PROVE  Debts' /\ CompletionEvents'
  BY <1>0, <1>4, FinishOwes, OwesNothing DEF ReadApproval, TryLock
<1>5. ASSUME NEW h \in Hosts, Inspect(h) PROVE Debts' /\ CompletionEvents'
  <2>1. /\ pc[h] \in Working /\ UNCHANGED <<receipt, events, dropped>>
    BY <1>5 DEF Inspect, Working
  <2>2. ASSUME NEW r \in Runs, NEW c \in BOOLEAN, Replay(h, r, c),
               c => journal = [run |-> r, state |-> "published"]
        PROVE  Debts' /\ CompletionEvents'
    <3>1. /\ UNCHANGED journal /\ Goto(h, "verify")
          /\ run'[h] = r /\ emit'[h] = ~c /\ pc'[h] = "verify"
      BY <2>2 DEF Replay, Goto, OwesEvents, Typed, HostTypes
    <3>2. Owing(h)'
      BY <2>2, <3>1 DEF Owing
    <3> QED
      BY <2>1, <3>1, <3>2, OthersOweNothing DEF Debts, CompletionEvents
  <2>3. ASSUME NEW r \in Runs, ReserveRun(h, r)
        PROVE  Debts' /\ CompletionEvents'
    <3>1. /\ journal' = [run |-> r, state |-> "pending"]
          /\ Goto(h, "execute") /\ pc'[h] = "execute"
      BY <2>3 DEF ReserveRun, Goto, Typed, HostTypes
    <3>2. Owing(h)'
      BY <3>1 DEF Owing, Finishing
    <3> QED
      BY <2>1, <3>1, <3>2, OthersOweNothing DEF Debts, CompletionEvents
  <2>4. CASE Finish(h, None) /\ UNCHANGED journal
    BY <2>1, <2>4, FinishOwes
  <2>5. journal # NoJournal =>
          /\ journal.run \in Runs
          /\ journal.state = "published" =>
               journal = [run |-> journal.run, state |-> "published"]
    BY DEF Typed, RootTypes, Journals
  <2> QED
    BY <1>5, <2>2, <2>3, <2>4, <2>5 DEF Inspect, OutcomeUnknown, Reserve
<1>6. ASSUME NEW h \in Hosts, Verify(h) PROVE Debts' /\ CompletionEvents'
  <2>1. CASE Goto(h, "reconcile") /\ UNCHANGED <<run, emit>>
    <3>1. /\ pc[h] \in Working /\ pc'[h] = "reconcile"
          /\ ~emit[h] => journal = [run |-> run[h], state |-> "published"]
      BY <1>6, <2>1 DEF Verify, Working, Goto, Typed, HostTypes, Debts, Owing
    <3>2. Owing(h)'
      BY <1>6, <2>1, <3>1 DEF Verify, Owing
    <3> QED
      BY <1>6, <2>1, <3>1, <3>2, OthersOweNothing
      DEF Verify, Debts, CompletionEvents
  <2> QED
    BY <1>6, <2>1, FinishOwes DEF Verify
<1>7. ASSUME NEW h \in Hosts,
             Execute(h) \/ MakeDirs(h) \/ RunEngine(h) \/ CleanUp(h)
      PROVE  Debts' /\ CompletionEvents'
  BY <1>0, <1>7, OwesNothing
  DEF Execute, MakeDirs, RunEngine, CleanUp, Raise, Executing
<1>8. ASSUME NEW h \in Hosts, PublishReceipt(h)
      PROVE  Debts' /\ CompletionEvents'
  <2>1. CASE Raise(h, "fault", "cleanup") /\ UNCHANGED <<receipt, emit>>
    BY <1>0, <1>8, <2>1, OwesNothing DEF PublishReceipt, Raise, Executing
  <2>2. CASE /\ receipt' = [receipt EXCEPT ![run[h]] = appr[h]]
             /\ emit' = [emit EXCEPT ![h] = TRUE]
             /\ Goto(h, "tidy")
    <3>1. /\ pc[h] \in Working /\ pc'[h] = "tidy" /\ emit'[h]
          /\ run[h] \in Runs /\ Published = {}
          /\ UNCHANGED <<journal, events, dropped>>
      BY <1>8, <2>2
      DEF PublishReceipt, Working, Executing, Goto, Typed, HostTypes, Ledger,
          Charge, InCharge
    <3>2. Owing(h)'
      BY <3>1 DEF Owing
    <3>3. \A r \in Runs : receipt[r] = None
      BY <3>1 DEF Published
    <3>4. events = {}
      BY <3>3 DEF CompletionEvents, Typed, RootTypes
    <3>5. CompletionEvents'
      BY <3>1, <3>4 DEF CompletionEvents
    <3> QED
      BY <2>2, <3>1, <3>2, <3>5, OthersOweNothing DEF Debts
  <2> QED
    BY <1>8, <2>1, <2>2 DEF PublishReceipt
<1>9. ASSUME NEW h \in Hosts, Settle(h) PROVE Debts' /\ CompletionEvents'
  <2>1. /\ pc[h] \in Working /\ Goto(h, "idle") /\ pc'[h] = "idle"
        /\ UNCHANGED <<receipt, events, dropped>>
        /\ journal' = journal \/ journal'.state = "not_applied"
    BY <1>9 DEF Settle, Finish, Goto, Working, Executing, Typed, HostTypes
  <2>2. Owing(h)'
    BY <2>1 DEF Owing, Finishing
  <2>3. CompletionEvents'
    BY <2>1 DEF CompletionEvents
  <2> QED
    BY <2>1, <2>2, <2>3, OthersOweNothing DEF Debts
<1>10. ASSUME NEW h \in Hosts, Tidy(h) \/ Reconcile(h)
       PROVE  Debts' /\ CompletionEvents'
  <2>1. /\ pc[h] \in Working
        /\ UNCHANGED <<journal, receipt, events, dropped, run, emit>>
        /\ \E place \in {"reconcile", "emit_applied", "complete"} :
             Goto(h, place) /\ pc'[h] = place
        /\ pc'[h] = "complete" => ~emit[h]
        /\ ~emit[h] => journal = [run |-> run[h], state |-> "published"]
    BY <1>10
    DEF Tidy, Reconcile, Working, Finishing, Goto, Typed, HostTypes, Debts,
        Owing
  <2>2. Owing(h)'
    BY <2>1 DEF Owing
  <2> QED
    BY <2>1, <2>2, OthersOweNothing DEF Debts, CompletionEvents
<1>11. ASSUME NEW h \in Hosts, EmitApplied(h) \/ EmitPublished(h)
       PROVE  Debts' /\ CompletionEvents'
  BY <1>11, EmitOwes
<1>12. ASSUME NEW h \in Hosts, Complete(h) PROVE Debts' /\ CompletionEvents'
  <2>1. /\ pc[h] \in Working /\ Goto(h, "idle") /\ pc'[h] = "idle"
        /\ UNCHANGED <<receipt, events, dropped>>
        /\ journal' = [run |-> run[h], state |-> "published"]
    BY <1>12 DEF Complete, Finish, Goto, Working, Finishing, Typed, HostTypes
  <2>2. Owing(h)'
    BY <2>1 DEF Owing, Finishing
  <2>3. dropped \/ \A k \in EventKinds : Event(k, run[h]) \in events
    BY <1>12 DEF Complete, Debts, Owing, Finishing, CompletionEvents
  <2>4. CompletionEvents'
    BY <2>1, <2>3 DEF CompletionEvents
  <2> QED
    BY <2>1, <2>2, <2>4, OthersOweNothing DEF Debts
<1> QED
  BY <1>1, <1>2, <1>3, <1>4, <1>5, <1>6, <1>7, <1>8, <1>9, <1>10, <1>11, <1>12
  DEF Next, Serve, Request, Step, Environment

LEMMA OwingHolds == Spec => [](Ledger /\ Debts /\ CompletionEvents)
<1>1. Init => Debts /\ CompletionEvents
  BY DEF Init, Debts, Owing, CompletionEvents, NoJournal, Finishing
<1> QED
  BY <1>1, OwingStep, LedgerHolds, PTL DEF Spec

\* What the lock's holder found on disk and in the journal is still so when it
\* acts on it, and it forgets no event it owes (apply_once, finish_commit).
THEOREM CustodyIsKept == Spec => []Custody
<1>1. Ledger /\ Debts => Custody
  BY DEF Ledger, Charge, Debts, Custody
<1> QED
  BY <1>1, OwingHolds, PTL

\* A journal marked published leaves no completion event owing, wherever hosts
\* died before, and no event precedes its receipt.
THEOREM CompletionIsAnnounced == Spec => []CompletionEvents
  BY OwingHolds, PTL

-----------------------------------------------------------------------------
(* The plan record.                                                        *)

\* What validate and resolve are about to save never marks a plan as applied.
Modest == \A h \in Hosts : pc[h] = "save_plan" => mem[h] # "applied"

LEMMA ModestStep == Typed /\ Modest /\ [Next]_vars => Modest'
<1> SUFFICES ASSUME Typed, Modest, [Next]_vars, NEW k \in Hosts,
                    pc'[k] = "save_plan"
             PROVE  mem'[k] # "applied"
  BY DEF Modest
<1> USE DEF Typed, HostTypes, Goto, Finish, Raise
<1>1. ASSUME NEW h \in Hosts, Validate(h) PROVE mem'[k] # "applied"
  BY <1>1 DEF Validate, Modest
<1>2. ASSUME NEW h \in Hosts, SaveApproval(h) PROVE mem'[k] # "applied"
  BY <1>2 DEF SaveApproval, Provisions, Modest
<1>3. ASSUME NEW h \in Hosts, NEW place \in Places \ {"save_plan"},
             Goto(h, place), \A i \in Hosts \ {h} : mem'[i] = mem[i]
      PROVE  mem'[k] # "applied"
  BY <1>3 DEF Modest
<1>4. ASSUME NEW h \in Hosts,
             \/ SavePlan(h) \/ Settle(h) \/ Complete(h) \/ Crash(h)
             \/ ReadApproval(h) \/ TryLock(h) \/ Verify(h)
             \/ \E a \in Approvals : ReadPlan(h, a)
             \/ \E a \in Approvals, d \in {"approved", "rejected"} :
                  Resolve(h, a, d)
      PROVE  mem'[k] # "applied"
  BY <1>3, <1>4
  DEF SavePlan, Settle, Complete, Crash, ReadApproval, TryLock, Verify,
      ReadPlan, Resolve, Places, Working, Executing, Finishing
<1>5. ASSUME NEW h \in Hosts, Inspect(h) PROVE mem'[k] # "applied"
  BY <1>3, <1>5
  DEF Inspect, Replay, OutcomeUnknown, Reserve, ReserveRun, Places, Working,
      Executing, Finishing
<1>6. ASSUME NEW h \in Hosts,
             \/ Execute(h) \/ MakeDirs(h) \/ RunEngine(h) \/ PublishReceipt(h)
             \/ CleanUp(h) \/ Tidy(h) \/ Reconcile(h) \/ EmitApplied(h)
             \/ EmitPublished(h)
      PROVE  mem'[k] # "applied"
  BY <1>3, <1>6
  DEF Execute, MakeDirs, RunEngine, PublishReceipt, CleanUp, Tidy, Reconcile,
      EmitApplied, EmitPublished, Emit, Places, Working, Executing, Finishing
<1>7. CASE UNCHANGED <<pc, mem>>
  BY <1>7 DEF Modest
<1> QED
  BY <1>1, <1>2, <1>4, <1>5, <1>6, <1>7
  DEF Next, Serve, Request, Step, Environment, vars, hostVars, RequestApproval,
      Tamper, SourceChanges

LEMMA PlanStep ==
  Typed /\ Ledger /\ Modest /\ [Next]_vars =>
    (planState' = "applied" /\ planState # "applied" => Published # {})
<1> SUFFICES ASSUME Typed, Ledger, Modest, [Next]_vars,
                    planState' = "applied", planState # "applied"
             PROVE  Published # {}
  OBVIOUS
<1>1. PICK h \in Hosts : SavePlan(h) \/ Reconcile(h)
  BY DEF Next, Serve, Request, Step, Environment, vars, recordVars, Validate,
     RequestApproval, Resolve, SaveApproval, ReadPlan, ReadApproval, TryLock,
     Inspect, Verify, Execute, MakeDirs, RunEngine, PublishReceipt, CleanUp,
     Settle, Tidy, EmitApplied, EmitPublished, Emit, Complete, Crash, Tamper,
     SourceChanges
<1>2. ~SavePlan(h)
  BY DEF SavePlan, Modest
<1> QED
  BY <1>1, <1>2 DEF Reconcile, Ledger, Charge, InCharge, Finishing

\* The plan record is marked applied only behind its receipt, although two
\* hosts overwrite each other's records.
THEOREM AppliedBehindReceipt == Spec => AppliedAfterReceipt
<1>1. Init => Modest
  BY DEF Init, Modest
<1>2. Typed /\ Ledger /\ Modest /\ [Next]_vars =>
        [planState' = "applied" /\ planState # "applied"
           => Published # {}]_vars
  BY PlanStep
<1> QED
  BY <1>1, <1>2, ModestStep, LedgerHolds, PTL DEF Spec, AppliedAfterReceipt
=============================================================================
