-------------------------- MODULE WorkbenchProofs --------------------------
(***************************************************************************)
(* Proofs about Workbench, for any number of documents, edits, queues,     *)
(* approvals and waiting functions.                                        *)
(*                                                                         *)
(* What is applied is what is shown because every plan number the page     *)
(* holds names a plan of the runtime with the same document, operations    *)
(* and base (Records), and every approval that stands has been consented   *)
(* to for its plan (Consented).  It is applied once because plan numbers   *)
(* are used once: as long as the draft has the plan of an apply whose      *)
(* answer was lost, the outcome of its document is that very apply, and    *)
(* while an apply is under way the draft has no such plan at all (Once).   *)
(*                                                                         *)
(* An outcome is its document's own because every candidate is of the      *)
(* document of its plan, and every function that waits for one holds a     *)
(* plan of the document it was called in (Truth).  A newer intent wins     *)
(* because what an agent was asked for is newer than all that was in the   *)
(* queue beside it, and is adopted only while that is the queue (Intent).  *)
(***************************************************************************)
EXTENDS Workbench, TLAPS, SequenceTheorems

\* The fields of the records that are updated in place.
IsDraft(d) ==
  d = [ops |-> d.ops, session |-> d.session, base |-> d.base,
       plan |-> d.plan, phase |-> d.phase, gen |-> d.gen]
IsOutcome(o) ==
  o = [applied |-> o.applied, error |-> o.error, recovery |-> o.recovery]
IsRecovery(r) ==
  r = [plan |-> r.plan, approval |-> r.approval, outcome |-> r.outcome,
       run |-> r.run]
IsSequence(p) == \E S : p \in Seq(S)
ApprovalRecords == [plan : Nat, state : {"pending", "approved", "rejected"}]

Shapes ==
  /\ active \in Sessions
  /\ IsDraft(draft)
  /\ outcomes = [s \in Sessions |-> outcomes[s]]
  /\ \A s \in Sessions : /\ IsOutcome(outcomes[s])
                         /\ IsRecovery(outcomes[s].recovery)
  /\ IsSequence(plans)
  /\ approvals \in Seq(ApprovalRecords)

\* The user has agreed to the plan of approval i.
Consented(i) ==
  LET p == plans[approvals[i].plan]
  IN  [approval |-> i, ops |-> p.ops, session |-> p.session] \in consent

\* What the page holds of plans and approvals is on record.
Records ==
  /\ draft.plan # 0 =>
       /\ draft.plan \in DOMAIN plans
       /\ draft.session \in Sessions
       /\ plans[draft.plan].session = draft.session
       /\ plans[draft.plan].ops = draft.ops
       /\ plans[draft.plan].base = draft.base
  /\ approval.plan # 0 =>
       /\ approval.id \in DOMAIN approvals
       /\ approvals[approval.id].plan = approval.plan
       /\ approval.state = "approved" =>
            approvals[approval.id].state = "approved"
  /\ \A i \in DOMAIN approvals :
       /\ approvals[i].plan \in DOMAIN plans
       /\ approvals[i].state = "approved" => Consented(i)

\* What a waiting function has captured.
Captured(t) ==
  /\ t.kind = "queue" => /\ t.owner.draft.session = t.owner.session
                         /\ t.owner.session \in Sessions
  /\ t.kind = "adopt" =>
       /\ t.plan \in DOMAIN plans
       /\ plans[t.plan].session = t.owner.session
       /\ t.owner.session \in Sessions
       /\ t.approval # 0 => /\ t.approval \in DOMAIN approvals
                            /\ approvals[t.approval].plan = t.plan
  /\ t.kind = "request" => /\ t.approval \in DOMAIN approvals
                           /\ approvals[t.approval].plan = t.draft.plan
  /\ t.kind = "decide" =>
       /\ t.approval \in DOMAIN approvals
       /\ approvals[t.approval].plan = t.plan
       /\ t.decision \in {"approved", "rejected"}
       /\ t.decision = "approved" => Consented(t.approval)
  /\ t.kind \in {"apply", "recover"} => t.session \in Sessions
  /\ t.kind = "apply" => t.plan \in DOMAIN plans
Waiting == \A t \in tasks : Captured(t)

\* The plan an adoption waits for has not been in the draft yet.
Unused(p) ==
  /\ draft.plan # p
  /\ \A u \in unsure : u.plan # p
  /\ \A t \in Applies : t.plan # p
Adoptions == {t \in tasks : t.kind = "adopt"}
Adoptable ==
  \A t \in Adoptions :
    /\ Unused(t.plan)
    /\ \A v \in Adoptions : v.plan = t.plan => v = t

OneApply ==
  /\ \A t \in Applies : inFlight
  /\ \A t, v \in Applies : t = v
  /\ \A t \in Applies : draft.plan = t.plan =>
       /\ approval.id = t.approval /\ approval.plan = t.plan
       /\ draft.session = t.session

Once ==
  /\ \A t \in Applies, u \in unsure : u.plan # t.plan /\ u.plan # draft.plan
  /\ \A u \in unsure :
       /\ u.plan \in DOMAIN plans
       /\ u.plan = draft.plan =>
            /\ approval.id = u.approval /\ approval.plan = u.plan
            /\ outcomes[draft.session].recovery.plan = u.plan
            /\ outcomes[draft.session].recovery.approval = u.approval

IInv == Shapes /\ Records /\ Waiting /\ Adoptable /\ OneApply /\ Once

-----------------------------------------------------------------------------
LEMMA Appended ==
  ASSUME NEW p, IsSequence(p), NEW x
  PROVE  /\ IsSequence(Append(p, x))
         /\ Len(p) \in Nat /\ DOMAIN p = 1 .. Len(p)
         /\ Len(Append(p, x)) = Len(p) + 1
         /\ DOMAIN Append(p, x) = 1 .. (Len(p) + 1)
         /\ Append(p, x)[Len(p) + 1] = x
         /\ \A i \in DOMAIN p : Append(p, x)[i] = p[i]
<1>1. PICK S : p \in Seq(S)
  BY DEF IsSequence
<1> DEFINE T == S \cup {x}
<1>2. Seq(S) \subseteq Seq(T)
  BY SeqMonotonic
<1>3. p \in Seq(T) /\ x \in T
  BY <1>1, <1>2
<1> HIDE DEF T
<1>4. /\ Append(p, x) \in Seq(T)
      /\ Len(Append(p, x)) = Len(p) + 1
      /\ \A i \in 1 .. Len(p) : Append(p, x)[i] = p[i]
      /\ Append(p, x)[Len(p) + 1] = x
  BY <1>3, AppendProperties
<1>5. /\ Len(p) \in Nat /\ DOMAIN p = 1 .. Len(p)
      /\ DOMAIN Append(p, x) = 1 .. Len(Append(p, x))
  BY <1>3, <1>4, LenProperties
<1> QED
  BY <1>4, <1>5 DEF IsSequence

LEMMA InitInvariant == Init => IInv
<1> SUFFICES ASSUME Init PROVE IInv
  OBVIOUS
<1>1. /\ plans = << >> /\ approvals = << >> /\ tasks = {} /\ unsure = {}
      /\ draft = EmptyDraft /\ approval = NoApproval /\ active = First
      /\ outcomes = [s \in Sessions |-> NoOutcome]
  BY DEF Init
<1>2. approvals \in Seq(ApprovalRecords) /\ DOMAIN approvals = {}
  BY <1>1, EmptySeq
<1>3. IsSequence(plans)
  BY <1>1, <1>2 DEF IsSequence
<1>4. IsDraft(draft) /\ draft.plan = 0 /\ approval.plan = 0
  BY <1>1 DEF IsDraft, EmptyDraft, NoApproval
<1>5. \A s \in Sessions : /\ IsOutcome(outcomes[s])
                          /\ IsRecovery(outcomes[s].recovery)
  BY <1>1 DEF IsOutcome, IsRecovery, NoOutcome, NoRecovery
<1>6. outcomes = [s \in Sessions |-> outcomes[s]]
  BY <1>1
<1> QED
  BY <1>1, <1>2, <1>3, <1>4, <1>5, <1>6, FirstAssumption
     DEF IInv, Shapes, Records, Waiting, Adoptable, Adoptions, OneApply, Once,
         Applies

\* A step of the page that sends no apply and gives the draft no plan.
LEMMA Quiet ==
  ASSUME IInv, active' \in Sessions,
         UNCHANGED <<plans, approvals, consent, inFlight, unsure, outcomes>>,
         \/ /\ IsDraft(draft') /\ approval' = approval
            /\ draft'.plan = draft.plan /\ draft'.session = draft.session
            /\ draft'.ops = draft.ops /\ draft'.base = draft.base
         \/ IsDraft(draft') /\ draft'.plan = 0 /\ approval' = NoApproval,
         \A t \in tasks' \ tasks :
           \/ t.kind \in {"load", "head", "agent", "late"}
           \/ t.kind = "recover" /\ t.session \in Sessions
           \/ /\ t.kind = "queue" /\ t.owner.session \in Sessions
              /\ t.owner.draft.session = t.owner.session
  PROVE  IInv'
<1>1. Shapes'
  BY DEF IInv, Shapes
<1>2. \A i : Consented(i)' <=> Consented(i)
  BY DEF Consented
<1>3. Records'
  BY <1>2 DEF IInv, Records, NoApproval
<1>4. Waiting'
  <2> SUFFICES ASSUME NEW t \in tasks' PROVE Captured(t)'
    BY DEF Waiting
  <2>1. CASE t \in tasks
    BY <1>2, <2>1 DEF IInv, Waiting, Captured
  <2>2. CASE t \notin tasks
    BY <2>2 DEF Captured
  <2> QED
    BY <2>1, <2>2
<1>5. Applies' \subseteq Applies /\ Adoptions' \subseteq Adoptions
  BY DEF Applies, Adoptions
<1>6. draft'.plan \in {draft.plan, 0}
  OBVIOUS
<1>7. 0 \notin DOMAIN plans
  <2>1. DOMAIN plans = 1 .. Len(plans) /\ Len(plans) \in Nat
    BY Appended DEF IInv, Shapes
  <2> QED
    BY <2>1
<1>8. Adoptable'
  BY <1>5, <1>6, <1>7 DEF IInv, Adoptable, Unused, Waiting, Captured, Adoptions
<1>9. \A t \in Applies : t.plan # 0
  BY <1>7 DEF IInv, Waiting, Captured, Applies
<1>10. \A u \in unsure : u.plan # 0
  BY <1>7 DEF IInv, Once
<1>11. OneApply'
  BY <1>5, <1>9 DEF IInv, OneApply
<1>12. Once'
  BY <1>5, <1>6, <1>10 DEF IInv, Once
<1> QED
  BY <1>1, <1>3, <1>4, <1>8, <1>11, <1>12 DEF IInv

\* setQueue, and the waiting function it leaves.
LEMMA QueueSet ==
  ASSUME IInv, NEW ops, NEW base, NEW h, NEW others,
         SetQueue(ops, base, h, others), active' = active,
         \A t \in others \ tasks :
            t.kind \in {"load", "head", "agent", "late"},
         UNCHANGED <<plans, approvals, consent, inFlight, unsure, outcomes>>
  PROVE  IInv'
<1>1. approval' = NoApproval /\ IsDraft(draft') /\ draft'.plan = 0
  BY DEF SetQueue, EmptyDraft, Proposing, IsDraft
<1>2. active' \in Sessions
  BY DEF IInv, Shapes
<1>3. ASSUME NEW t \in tasks' \ tasks
      PROVE  \/ t.kind \in {"load", "head", "agent", "late"}
             \/ t.kind = "recover" /\ t.session \in Sessions
             \/ /\ t.kind = "queue" /\ t.owner.session \in Sessions
                /\ t.owner.draft.session = t.owner.session
  <2>1. CASE t \in others
    BY <1>3, <2>1
  <2>2. CASE t \notin others
    <3>1. t = [kind |-> "queue", owner |-> Owner(draft', h)] /\ ops # {}
      BY <1>3, <2>2 DEF SetQueue
    <3>2. draft'.session = active
      BY <3>1 DEF SetQueue, Proposing
    <3> QED
      BY <1>2, <3>1, <3>2 DEF Owner
  <2> QED
    BY <2>1, <2>2
<1> QED
  BY <1>1, <1>2, <1>3, Quiet

LEMMA UserQueues ==
  ASSUME IInv, Revises
  PROVE  IInv'
<1>1. CASE Edit
  <2>1. PICK ops, base : SetQueue(ops, base, head, tasks)
    BY <1>1 DEF Edit
  <2> QED
    BY <1>1, <2>1, QueueSet DEF Edit, pageVars, applyVars, runtimeVars
<1>2. CASE Remove
  <2>1. PICK ops, base : SetQueue(ops, base, head, tasks)
    BY <1>2 DEF Remove
  <2> QED
    BY <1>2, <2>1, QueueSet DEF Remove, pageVars, applyVars, runtimeVars,
                               historyVars
<1>3. CASE Repropose
  BY <1>3, QueueSet DEF Repropose, pageVars, applyVars, runtimeVars,
                        historyVars
<1>4. CASE ClearQueue
  <2>1. IsDraft(draft') /\ draft'.plan = 0 /\ approval' = NoApproval
    BY <1>4 DEF ClearQueue, EmptyDraft, IsDraft
  <2> QED
    BY <1>4, <2>1, Quiet DEF ClearQueue, pageVars, applyVars, runtimeVars,
                             historyVars, IInv, Shapes
<1> QED
  BY <1>1, <1>2, <1>3, <1>4 DEF Revises

\* The draft does not move, and what is new in tasks is harmless.
LEMMA Still ==
  ASSUME IInv, active' \in Sessions, draft' = draft, approval' = approval,
         UNCHANGED <<plans, approvals, consent, inFlight, unsure, outcomes>>,
         \A t \in tasks' \ tasks :
           \/ t.kind \in {"load", "head", "agent", "late"}
           \/ t.kind = "recover" /\ t.session \in Sessions
  PROVE  IInv'
  BY Quiet DEF IInv, Shapes

LEMMA UserLooks ==
  ASSUME IInv,
         \/ \E s \in Sessions : SelectSession(s)
         \/ \E r \in {0} \cup candidates[active] : SetHead(r)
         \/ Instruct \/ Recover
  PROVE  IInv'
<1>0. active \in Sessions
  BY DEF IInv, Shapes
<1>1. CASE \E s \in Sessions : SelectSession(s)
  BY <1>1, Still DEF SelectSession, reviewVars, applyVars, runtimeVars,
                     historyVars
<1>2. CASE \E r \in {0} \cup candidates[active] : SetHead(r)
  <2>1. PICK r \in {0} \cup candidates[active] : SetHead(r)
    BY <1>2
  <2>2. CASE r = 0 /\ draft.ops # {}
    BY <2>1, <2>2, QueueSet DEF SetHead, applyVars, runtimeVars, historyVars
  <2>3. CASE ~(r = 0 /\ draft.ops # {})
    BY <1>0, <2>1, <2>3, Still DEF SetHead, reviewVars, applyVars,
                                   runtimeVars, historyVars
  <2> QED
    BY <2>2, <2>3
<1>3. CASE Instruct
  <2>1. \A t \in tasks' \ tasks : t.kind = "agent"
    <3> DEFINE new == [kind |-> "agent", op |-> Len(authored'),
                       owner |-> Owner(draft, head)]
    <3>1. tasks' = tasks \cup {new}
      BY <1>3 DEF Instruct
    <3>2. new.kind = "agent"
      OBVIOUS
    <3> HIDE DEF new
    <3> QED
      BY <3>1, <3>2
  <2>2. UNCHANGED <<pageVars, reviewVars, applyVars, runtimeVars, consent>>
    BY <1>3 DEF Instruct
  <2> QED
    BY <1>0, <2>1, <2>2, Still DEF pageVars, reviewVars, applyVars,
                                   runtimeVars
<1>4. CASE Recover
  BY <1>0, <1>4, Still DEF Recover, pageVars, reviewVars, applyVars,
                           runtimeVars, historyVars
<1> QED
  BY <1>1, <1>2, <1>3, <1>4

LEMMA QuietAnswers ==
  ASSUME IInv, NEW t \in tasks, Loaded(t) \/ HeadRead(t) \/ LateEnd(t)
  PROVE  IInv'
<1>0. active \in Sessions
  BY DEF IInv, Shapes
<1>1. CASE Loaded(t)
  BY <1>0, <1>1, Still DEF Loaded, reviewVars, applyVars, runtimeVars,
                           historyVars
<1>2. CASE HeadRead(t)
  <2>1. CASE OwnsHead(t) /\ draft.ops # {}
    BY <1>2, <2>1, QueueSet DEF HeadRead, pageVars, applyVars, runtimeVars,
                                historyVars
  <2>2. CASE ~(OwnsHead(t) /\ draft.ops # {})
    BY <1>0, <1>2, <2>2, Still DEF HeadRead, pageVars, reviewVars, applyVars,
                                   runtimeVars, historyVars
  <2> QED
    BY <2>1, <2>2
<1>3. CASE LateEnd(t)
  BY <1>0, <1>3, Still DEF LateEnd, pageVars, reviewVars, applyVars,
                           historyVars
<1> QED
  BY <1>1, <1>2, <1>3

-----------------------------------------------------------------------------
LEMMA PlanNumbers ==
  ASSUME IInv
  PROVE  /\ 0 \notin DOMAIN plans /\ Len(plans) \in Nat
         /\ DOMAIN plans = 1 .. Len(plans)
         /\ \A t \in Applies : t.plan \in DOMAIN plans
         /\ \A t \in Adoptions : t.plan \in DOMAIN plans
         /\ \A u \in unsure : u.plan \in DOMAIN plans
<1>1. DOMAIN plans = 1 .. Len(plans) /\ Len(plans) \in Nat
  BY Appended DEF IInv, Shapes
<1> QED
  BY <1>1 DEF IInv, Waiting, Captured, Applies, Adoptions, Once

\* A plan more on record disturbs nothing that was there.
LEMMA PlanAdded ==
  ASSUME IInv, NEW x, plans' = Append(plans, x)
  PROVE  /\ IsSequence(plans') /\ DOMAIN plans \subseteq DOMAIN plans'
         /\ Len(plans') = Len(plans) + 1
         /\ Len(plans') \in DOMAIN plans' /\ Len(plans') \notin DOMAIN plans
         /\ plans'[Len(plans')] = x /\ Len(plans') # 0
         /\ \A p \in DOMAIN plans : plans'[p] = plans[p]
  BY Appended DEF IInv, Shapes

LEMMA ProposedKeeps ==
  ASSUME IInv, NEW t \in tasks, Proposed(t)
  PROVE  IInv'
<1>0. active \in Sessions
  BY DEF IInv, Shapes
<1>u. UNCHANGED <<active, approval, approvals, consent, inFlight, unsure,
                  outcomes>> /\ tasks' = tasks \ {t}
  BY DEF Proposed, pageVars, applyVars, historyVars
<1>1. CASE ~Fresh(t)
  BY <1>0, <1>1, <1>u, Still DEF Proposed
<1>2. CASE Fresh(t)
  <2>1. /\ t.owner.draft = draft /\ t.owner.session = active
        /\ draft.session = active
    BY <1>2 DEF Fresh, OwnsDraft, Owner, IInv, Waiting, Captured, Proposed
  <2>2. CASE /\ draft' = [t.owner.draft EXCEPT !.phase = "failed"]
             /\ plans' = plans
    <3>1. /\ IsDraft(draft') /\ draft'.plan = draft.plan
          /\ draft'.session = draft.session
          /\ draft'.ops = draft.ops /\ draft'.base = draft.base
      BY <2>1, <2>2 DEF IInv, Shapes, IsDraft
    <3> QED
      BY <1>0, <1>u, <2>2, <3>1, Quiet
  <2>3. CASE /\ plans' = Append(plans, [session |-> t.owner.session,
                                        ops |-> t.owner.draft.ops,
                                        base |-> t.owner.draft.base])
             /\ draft' = [t.owner.draft EXCEPT !.plan = Len(plans'),
                                               !.phase = "ready"]
    <3>1. /\ IsDraft(draft') /\ draft'.plan = Len(plans')
          /\ draft'.session = active
          /\ draft'.ops = draft.ops /\ draft'.base = draft.base
      BY <2>1, <2>3 DEF IInv, Shapes, IsDraft
    <3>2. /\ IsSequence(plans') /\ DOMAIN plans \subseteq DOMAIN plans'
          /\ Len(plans') \in DOMAIN plans' /\ Len(plans') \notin DOMAIN plans
          /\ plans'[Len(plans')] = [session |-> active, ops |-> draft.ops,
                                    base |-> draft.base]
          /\ \A p \in DOMAIN plans : plans'[p] = plans[p]
      BY <2>1, <2>3, PlanAdded
    <3>3. Shapes'
      BY <1>u, <3>1, <3>2 DEF IInv, Shapes
    <3>4. \A i \in DOMAIN approvals : Consented(i) => Consented(i)'
      BY <1>u, <3>2 DEF IInv, Records, Consented
    <3>5. Records'
      BY <1>0, <1>u, <3>1, <3>2, <3>4 DEF IInv, Records
    <3>6. Waiting'
      BY <1>u, <3>2, <3>4 DEF IInv, Waiting, Captured
    <3>7. Applies' \subseteq Applies /\ Adoptions' \subseteq Adoptions
      BY <1>u DEF Applies, Adoptions
    <3>8. Adoptable'
      BY <1>u, <3>1, <3>2, <3>7, PlanNumbers DEF IInv, Adoptable, Unused
    <3>9. OneApply'
      BY <1>u, <3>1, <3>2, <3>7, PlanNumbers DEF IInv, OneApply
    <3>10. Once'
      BY <1>u, <3>1, <3>2, <3>7, PlanNumbers DEF IInv, Once
    <3> QED
      BY <3>3, <3>5, <3>6, <3>8, <3>9, <3>10 DEF IInv
  <2> QED
    BY <1>2, <2>2, <2>3 DEF Proposed
<1> QED
  BY <1>1, <1>2

-----------------------------------------------------------------------------
\* An approval more on record.
LEMMA ApprovalAdded ==
  ASSUME IInv, NEW p \in Nat,
         approvals' = Append(approvals, [plan |-> p, state |-> "pending"])
  PROVE  /\ approvals' \in Seq(ApprovalRecords) /\ approvals' # approvals
         /\ DOMAIN approvals' = DOMAIN approvals \cup {Len(approvals')}
         /\ Len(approvals') \notin DOMAIN approvals
         /\ approvals'[Len(approvals')] = [plan |-> p, state |-> "pending"]
         /\ \A i \in DOMAIN approvals : approvals'[i] = approvals[i]
<1> DEFINE a == [plan |-> p, state |-> "pending"]
<1>1. a \in ApprovalRecords /\ approvals \in Seq(ApprovalRecords)
  BY DEF ApprovalRecords, IInv, Shapes
<1>2. a.plan = p /\ a.state = "pending"
  OBVIOUS
<1> HIDE DEF a
<1>3. /\ approvals' \in Seq(ApprovalRecords)
      /\ Len(approvals') = Len(approvals) + 1
      /\ \A i \in 1 .. Len(approvals) : approvals'[i] = approvals[i]
      /\ approvals'[Len(approvals) + 1] = a
  BY <1>1, AppendProperties DEF a
<1>4. /\ Len(approvals) \in Nat /\ DOMAIN approvals = 1 .. Len(approvals)
      /\ DOMAIN approvals' = 1 .. Len(approvals')
  BY <1>1, <1>3, LenProperties
<1>5. approvals' # approvals
  <2> SUFFICES ASSUME approvals' = approvals PROVE FALSE
    OBVIOUS
  <2>1. Len(approvals') = Len(approvals)
    OBVIOUS
  <2> QED
    BY <1>3, <1>4, <2>1
<1>6. /\ DOMAIN approvals' = DOMAIN approvals \cup {Len(approvals')}
      /\ Len(approvals') \notin DOMAIN approvals
  BY <1>3, <1>4
<1>7. approvals'[Len(approvals')] = a
  BY <1>3
<1> QED
  BY <1>3, <1>4, <1>5, <1>6, <1>7 DEF a

LEMMA AgentKeeps ==
  ASSUME IInv, NEW t \in tasks, AgentDone(t)
  PROVE  IInv'
<1>0. active \in Sessions
  BY DEF IInv, Shapes
<1>u. UNCHANGED <<active, draft, approval, consent, inFlight, unsure,
                  outcomes>>
  BY DEF AgentDone, pageVars, reviewVars, applyVars, historyVars
<1>1. CASE tasks' = tasks \ {t} /\ UNCHANGED <<plans, approvals>>
  BY <1>0, <1>1, <1>u, Still
<1>2. CASE ~(tasks' = tasks \ {t} /\ UNCHANGED <<plans, approvals>>)
  <2>1. PICK base :
          /\ OwnsDraft(t.owner)
          /\ plans' = Append(plans, [session |-> t.owner.session,
                                     ops |-> {t.op}, base |-> base])
          /\ \/ UNCHANGED approvals
             \/ approvals' = Append(approvals, [plan |-> Len(plans'),
                                                state |-> "pending"])
          /\ tasks' = (tasks \ {t})
               \cup {[kind |-> "adopt", owner |-> t.owner, gen |-> generation,
                      plan |-> Len(plans'),
                      approval |-> IF approvals' = approvals THEN 0
                                   ELSE Len(approvals')]}
    BY <1>2 DEF AgentDone
  <2>2. /\ IsSequence(plans') /\ DOMAIN plans \subseteq DOMAIN plans'
        /\ Len(plans') \in DOMAIN plans' /\ Len(plans') \notin DOMAIN plans
        /\ Len(plans') \in Nat
        /\ plans'[Len(plans')].session = t.owner.session
        /\ Len(plans') # 0
        /\ \A p \in DOMAIN plans : plans'[p] = plans[p]
    <3> DEFINE x == [session |-> t.owner.session, ops |-> {t.op},
                     base |-> base]
    <3>1. plans' = Append(plans, x) /\ x.session = t.owner.session
      BY <2>1
    <3> HIDE DEF x
    <3>2. /\ IsSequence(plans') /\ DOMAIN plans \subseteq DOMAIN plans'
          /\ Len(plans') = Len(plans) + 1
          /\ Len(plans') \in DOMAIN plans' /\ Len(plans') \notin DOMAIN plans
          /\ plans'[Len(plans')] = x /\ Len(plans') # 0
          /\ \A p \in DOMAIN plans : plans'[p] = plans[p]
      BY <3>1, PlanAdded
    <3>3. Len(plans') \in Nat
      BY <3>2, PlanNumbers
    <3> QED
      BY <3>1, <3>2, <3>3
  <2>3. /\ approvals' \in Seq(ApprovalRecords)
        /\ DOMAIN approvals \subseteq DOMAIN approvals'
        /\ \A i \in DOMAIN approvals : approvals'[i] = approvals[i]
        /\ \A i \in DOMAIN approvals' \ DOMAIN approvals :
             approvals'[i] = [plan |-> Len(plans'), state |-> "pending"]
        /\ approvals' # approvals =>
             /\ Len(approvals') \in DOMAIN approvals'
             /\ Len(approvals') \notin DOMAIN approvals
    <3>1. CASE UNCHANGED approvals
      BY <3>1 DEF IInv, Shapes
    <3>2. CASE approvals' = Append(approvals, [plan |-> Len(plans'),
                                               state |-> "pending"])
      BY <2>2, <3>2, ApprovalAdded
    <3> QED
      BY <2>1, <3>1, <3>2
  <2>4. PICK new : /\ new.kind = "adopt" /\ new.plan = Len(plans')
                   /\ new.owner = t.owner
                   /\ new.approval = IF approvals' = approvals THEN 0
                                     ELSE Len(approvals')
                   /\ tasks' = (tasks \ {t}) \cup {new}
    <3> DEFINE n == [kind |-> "adopt", owner |-> t.owner, gen |-> generation,
                     plan |-> Len(plans'),
                     approval |-> IF approvals' = approvals THEN 0
                                  ELSE Len(approvals')]
    <3>1. /\ n.kind = "adopt" /\ n.plan = Len(plans') /\ n.owner = t.owner
          /\ n.approval = IF approvals' = approvals THEN 0
                          ELSE Len(approvals')
      OBVIOUS
    <3>2. tasks' = (tasks \ {t}) \cup {n}
      BY <2>1
    <3> HIDE DEF n
    <3> QED
      BY <3>1, <3>2
  <2>5. t.owner.session = active
    BY <2>1 DEF OwnsDraft, Owner
  <2>6. \A i \in DOMAIN approvals : Consented(i) => Consented(i)'
    BY <1>u, <2>2, <2>3 DEF IInv, Records, Consented
  <2>7. Shapes'
    BY <1>u, <2>2, <2>3 DEF IInv, Shapes
  <2>8. Records'
    <3>1. ASSUME NEW i \in DOMAIN approvals'
          PROVE  /\ approvals'[i].plan \in DOMAIN plans'
                 /\ approvals'[i].state = "approved" => Consented(i)'
      BY <2>2, <2>3, <2>6 DEF IInv, Records
    <3>2. draft.plan # 0 =>
            /\ draft.plan \in DOMAIN plans'
            /\ plans'[draft.plan] = plans[draft.plan]
      BY <2>2 DEF IInv, Records
    <3>3. approval.plan # 0 =>
            /\ approval.id \in DOMAIN approvals'
            /\ approvals'[approval.id] = approvals[approval.id]
      BY <2>3 DEF IInv, Records
    <3> QED
      BY <1>u, <3>1, <3>2, <3>3 DEF IInv, Records
  <2>9. Waiting'
    <3>1. Captured(new)'
      <4>1. new.approval # 0 => /\ new.approval \in DOMAIN approvals'
                                /\ approvals'[new.approval].plan = new.plan
        BY <2>3, <2>4
      <4> QED
        BY <1>0, <2>2, <2>4, <2>5, <4>1 DEF Captured
    <3>2. ASSUME NEW v \in tasks PROVE Captured(v)'
      BY <2>2, <2>3, <2>6 DEF IInv, Waiting, Captured
    <3> QED
      BY <2>4, <3>1, <3>2 DEF Waiting
  <2>10. /\ Applies' \subseteq Applies
         /\ Adoptions' \subseteq Adoptions \cup {new}
    BY <2>4 DEF Applies, Adoptions
  <2>11. Adoptable'
    <3>1. Unused(new.plan)'
      <4>1. draft.plan # new.plan
        BY <2>2, <2>4 DEF IInv, Records
      <4> QED
        BY <1>u, <2>2, <2>4, <2>10, <4>1, PlanNumbers DEF Unused
    <3>2. \A v \in Adoptions : v.plan # new.plan /\ Unused(v.plan)'
      BY <1>u, <2>2, <2>4, <2>10, PlanNumbers DEF IInv, Adoptable, Unused
    <3> QED
      BY <2>10, <3>1, <3>2 DEF IInv, Adoptable
  <2>12. OneApply'
    BY <1>u, <2>10 DEF IInv, OneApply
  <2>13. Once'
    BY <1>u, <2>2, <2>10 DEF IInv, Once
  <2> QED
    BY <2>7, <2>8, <2>9, <2>11, <2>12, <2>13 DEF IInv
<1> QED
  BY <1>1, <1>2

LEMMA AdoptedKeeps ==
  ASSUME IInv, NEW t \in tasks, Adopted(t)
  PROVE  IInv'
<1>0. active \in Sessions
  BY DEF IInv, Shapes
<1>u. UNCHANGED <<active, plans, approvals, consent, inFlight, unsure,
                  outcomes>> /\ tasks' = tasks \ {t} /\ t.kind = "adopt"
  BY DEF Adopted, pageVars, applyVars, runtimeVars, historyVars
<1>1. CASE ~OwnsFence(t)
  BY <1>0, <1>1, <1>u, Still DEF Adopted
<1>2. CASE OwnsFence(t)
  <2>1. /\ IsDraft(draft') /\ draft'.plan = t.plan
        /\ draft'.session = t.owner.session
        /\ draft'.ops = plans[t.plan].ops
        /\ draft'.base = plans[t.plan].base
    BY <1>2 DEF Adopted, IsDraft
  <2>2. \/ approval' = NoApproval
        \/ /\ t.approval # 0
           /\ approval' = [id |-> t.approval, plan |-> t.plan,
                           state |-> approvals[t.approval].state]
    BY <1>2 DEF Adopted
  <2>3. Captured(t) /\ t \in Adoptions
    BY <1>u DEF IInv, Waiting, Adoptions
  <2>4. \A i : Consented(i)' <=> Consented(i)
    BY <1>u DEF Consented
  <2>5. Shapes'
    BY <1>u, <2>1 DEF IInv, Shapes
  <2>6. Records'
    BY <1>u, <2>1, <2>2, <2>3, <2>4 DEF IInv, Records, Captured, NoApproval
  <2>7. Waiting'
    BY <1>u, <2>4 DEF IInv, Waiting, Captured
  <2>8. /\ Applies' \subseteq Applies /\ Adoptions' \subseteq Adoptions
        /\ t \notin Adoptions'
    BY <1>u DEF Applies, Adoptions
  <2>9. Unused(t.plan)
    BY <2>3 DEF IInv, Adoptable
  <2>10. Adoptable'
    BY <1>u, <2>1, <2>3, <2>8 DEF IInv, Adoptable, Unused
  <2>11. OneApply'
    BY <1>u, <2>1, <2>8, <2>9 DEF IInv, OneApply, Unused
  <2>12. Once'
    BY <1>u, <2>1, <2>8, <2>9 DEF IInv, Once, Unused
  <2> QED
    BY <2>5, <2>6, <2>7, <2>10, <2>11, <2>12 DEF IInv
<1> QED
  BY <1>1, <1>2

-----------------------------------------------------------------------------
LEMMA RequestKeeps ==
  ASSUME IInv, RequestApproval
  PROVE  IInv'
<1>0. active \in Sessions
  BY DEF IInv, Shapes
<1>u. UNCHANGED <<active, draft, approval, plans, consent, inFlight, unsure,
                  outcomes>>
  BY DEF RequestApproval, pageVars, applyVars, historyVars
<1>1. /\ draft.plan \in DOMAIN plans /\ draft.plan \in Nat
      /\ approvals' = Append(approvals, [plan |-> draft.plan,
                                         state |-> "pending"])
  BY PlanNumbers DEF RequestApproval, IInv, Records
<1>2. /\ approvals' \in Seq(ApprovalRecords)
      /\ DOMAIN approvals' = DOMAIN approvals \cup {Len(approvals')}
      /\ Len(approvals') \notin DOMAIN approvals
      /\ approvals'[Len(approvals')] = [plan |-> draft.plan,
                                        state |-> "pending"]
      /\ \A i \in DOMAIN approvals : approvals'[i] = approvals[i]
  BY <1>1, ApprovalAdded
<1>3. PICK new : /\ new.kind = "request" /\ new.approval = Len(approvals')
                 /\ new.draft = draft /\ tasks' = tasks \cup {new}
  <2> DEFINE n == [kind |-> "request", approval |-> Len(approvals'),
                   draft |-> draft, session |-> active, head |-> head]
  <2>1. /\ n.kind = "request" /\ n.approval = Len(approvals')
        /\ n.draft = draft
    OBVIOUS
  <2>2. tasks' = tasks \cup {n}
    BY DEF RequestApproval
  <2> HIDE DEF n
  <2> QED
    BY <2>1, <2>2
<1>4. \A i \in DOMAIN approvals : Consented(i) => Consented(i)'
  BY <1>u, <1>2 DEF Consented
<1>5. Shapes'
  BY <1>u, <1>2 DEF IInv, Shapes
<1>6. Records'
  <2>1. ASSUME NEW i \in DOMAIN approvals'
        PROVE  /\ approvals'[i].plan \in DOMAIN plans
               /\ approvals'[i].state = "approved" => Consented(i)'
    <3>1. CASE i \in DOMAIN approvals
      BY <1>2, <1>4, <3>1 DEF IInv, Records
    <3>2. CASE i = Len(approvals')
      BY <1>1, <1>2, <3>2
    <3> QED
      BY <1>2, <3>1, <3>2
  <2>2. approval.plan # 0 =>
          /\ approval.id \in DOMAIN approvals'
          /\ approvals'[approval.id] = approvals[approval.id]
    BY <1>2 DEF IInv, Records
  <2> QED
    BY <1>u, <2>1, <2>2 DEF IInv, Records
<1>7. Waiting'
  <2>1. Captured(new)'
    <3>1. new.approval = Len(approvals') /\ new.draft.plan = draft.plan
      BY <1>3
    <3>2. /\ new.approval \in DOMAIN approvals'
          /\ approvals'[new.approval] = [plan |-> draft.plan,
                                         state |-> "pending"]
      BY <1>2, <3>1
    <3>3. approvals'[new.approval].plan = new.draft.plan
      BY <3>1, <3>2
    <3> QED
      BY <1>3, <3>2, <3>3 DEF Captured
  <2>2. ASSUME NEW v \in tasks PROVE Captured(v)'
    BY <1>u, <1>2, <1>4 DEF IInv, Waiting, Captured
  <2> QED
    BY <1>3, <2>1, <2>2 DEF Waiting
<1>8. Applies' = Applies /\ Adoptions' = Adoptions
  BY <1>3 DEF Applies, Adoptions
<1> QED
  BY <1>u, <1>5, <1>6, <1>7, <1>8 DEF IInv, Adoptable, Unused, OneApply, Once

LEMMA RequestedKeeps ==
  ASSUME IInv, NEW t \in tasks, Requested(t)
  PROVE  IInv'
<1>0. active \in Sessions
  BY DEF IInv, Shapes
<1>u. UNCHANGED <<active, draft, plans, approvals, consent, inFlight, unsure,
                  outcomes>> /\ tasks' = tasks \ {t} /\ t.kind = "request"
  BY DEF Requested, pageVars, applyVars, runtimeVars, historyVars
<1>1. CASE approval' = approval
  BY <1>0, <1>1, <1>u, Still
<1>2. CASE approval' # approval
  <2>1. /\ approval = NoApproval /\ draft = t.draft
        /\ approval' = [id |-> t.approval, plan |-> t.draft.plan,
                        state |-> "pending"]
    BY <1>2 DEF Requested, Awaited
  <2>2. Captured(t)
    BY DEF IInv, Waiting
  <2>3. \A i : Consented(i)' <=> Consented(i)
    BY <1>u DEF Consented
  <2>4. Records'
    BY <1>u, <2>1, <2>2, <2>3 DEF IInv, Records, Captured
  <2>5. Waiting'
    BY <1>u, <2>3 DEF IInv, Waiting, Captured
  <2>6. Applies' \subseteq Applies /\ Adoptions' \subseteq Adoptions
    BY <1>u DEF Applies, Adoptions
  <2>7. approval.plan = 0
    BY <2>1 DEF NoApproval
  <2>8. OneApply'
    BY <1>u, <2>6, <2>7, PlanNumbers DEF IInv, OneApply
  <2>9. Once'
    BY <1>u, <2>6, <2>7, PlanNumbers DEF IInv, Once
  <2> QED
    BY <1>u, <2>4, <2>5, <2>6, <2>8, <2>9
       DEF IInv, Shapes, Adoptable, Unused
<1> QED
  BY <1>1, <1>2

LEMMA DecideKeeps ==
  ASSUME IInv, NEW d \in {"approved", "rejected"}, Decide(d)
  PROVE  IInv'
<1>u. /\ UNCHANGED <<active, draft, approval, plans, approvals, inFlight,
                     unsure, outcomes>>
      /\ consent \subseteq consent'
  BY DEF Decide, pageVars, applyVars, runtimeVars
<1>1. PICK new : /\ new.kind = "decide" /\ new.approval = approval.id
                 /\ new.plan = draft.plan /\ new.decision = d
                 /\ tasks' = tasks \cup {new}
  <2> DEFINE n == [kind |-> "decide", decision |-> d, approval |-> approval.id,
                   plan |-> draft.plan, draft |-> draft, session |-> active,
                   head |-> head]
  <2>1. /\ n.kind = "decide" /\ n.approval = approval.id
        /\ n.plan = draft.plan /\ n.decision = d
    OBVIOUS
  <2>2. tasks' = tasks \cup {n}
    BY DEF Decide
  <2> HIDE DEF n
  <2> QED
    BY <2>1, <2>2
<1>2. /\ approval.plan = draft.plan /\ draft.plan # 0
      /\ draft.session = active
  BY DEF Decide, Bound
<1>3. /\ approval.id \in DOMAIN approvals
      /\ approvals[approval.id].plan = draft.plan
      /\ plans[draft.plan].session = active
      /\ plans[draft.plan].ops = draft.ops
  BY <1>2 DEF IInv, Records
<1>4. d = "approved" => Consented(approval.id)'
  BY <1>u, <1>3 DEF Decide, Consented
<1>5. \A i : Consented(i) => Consented(i)'
  BY <1>u DEF Consented
<1>6. Records'
  BY <1>u, <1>5 DEF IInv, Records
<1>7. Waiting'
  <2>1. Captured(new)'
    <3>1. new.decision = "approved" => Consented(new.approval)'
      BY <1>u, <1>1, <1>4 DEF Consented
    <3>2. /\ new.approval \in DOMAIN approvals
          /\ approvals[new.approval].plan = new.plan
      BY <1>1, <1>3
    <3> QED
      BY <1>u, <1>1, <3>1, <3>2 DEF Captured
  <2>2. ASSUME NEW v \in tasks PROVE Captured(v)'
    BY <1>u, <1>5 DEF IInv, Waiting, Captured
  <2> QED
    BY <1>1, <2>1, <2>2 DEF Waiting
<1>8. Applies' = Applies /\ Adoptions' = Adoptions
  BY <1>1 DEF Applies, Adoptions
<1> QED
  BY <1>u, <1>6, <1>7, <1>8
     DEF IInv, Shapes, Adoptable, Unused, OneApply, Once

-----------------------------------------------------------------------------
\* What the early returns of applyApproved let through.
LEMMA MayBeSent ==
  ASSUME IInv, NEW a, MayApply(a), a.id = approval.id
  PROVE  /\ draft.plan \in DOMAIN plans /\ draft.session = active
         /\ a.plan = draft.plan /\ a.state = "approved" /\ ~LeftBehind
         /\ Applies = {}
         /\ approval.plan = draft.plan =>
              \A u \in unsure : u.plan # draft.plan
<1>1. /\ draft.session = active /\ draft.plan # 0 /\ ~LeftBehind
      /\ a.plan = draft.plan /\ a.state = "approved" /\ ~inFlight
  BY DEF MayApply, Bound
<1>2. draft.plan \in DOMAIN plans /\ draft.plan # 0
  BY <1>1 DEF IInv, Records
<1>3. Applies = {}
  BY <1>1 DEF IInv, OneApply
<1>4. ASSUME NEW u \in unsure, u.plan = draft.plan PROVE FALSE
  <2>1. /\ outcomes[active].recovery.plan = draft.plan
        /\ outcomes[active].recovery.approval = a.id
    BY <1>1, <1>4 DEF IInv, Once
  <2>2. outcomes[active].recovery # NoRecovery
    BY <1>2, <2>1 DEF NoRecovery
  <2> QED
    BY <2>1, <2>2 DEF MayApply, AlreadySent
<1> QED
  BY <1>1, <1>2, <1>3, <1>4

LEMMA Started ==
  ASSUME IInv, NEW a, MayApply(a), a.id = approval.id,
         approval.plan = draft.plan,
         NEW others \in SUBSET tasks, StartApply(a, others),
         UNCHANGED <<draft, plans, outcomes, unsure, active>>,
         approval'.id = approval.id, approval'.plan = approval.plan
  PROVE  /\ Adoptable' /\ OneApply' /\ Once'
         /\ \A t \in tasks' \ others : /\ t.kind = "apply"
                                       /\ t.plan \in DOMAIN plans
                                       /\ t.session \in Sessions
<1> DEFINE new == [kind |-> "apply", approval |-> a.id,
                   plan |-> draft.plan, draft |-> draft,
                   session |-> active, head |-> head]
<1>1. tasks' = others \cup {new} /\ inFlight' = TRUE
  BY DEF StartApply
<1>2. /\ new.kind = "apply" /\ new.plan = draft.plan
      /\ new.approval = approval.id /\ new.session = active
  OBVIOUS
<1> HIDE DEF new
<1>3. /\ draft.plan \in DOMAIN plans /\ draft.session = active
      /\ Applies = {} /\ \A u \in unsure : u.plan # draft.plan
  BY MayBeSent
<1>4. Applies' = {new} /\ Adoptions' \subseteq Adoptions
  BY <1>1, <1>2, <1>3 DEF Applies, Adoptions
<1>5. Adoptable'
  BY <1>2, <1>4 DEF IInv, Adoptable, Unused
<1>6. OneApply'
  BY <1>1, <1>2, <1>3, <1>4 DEF OneApply
<1>7. Once'
  BY <1>2, <1>3, <1>4 DEF IInv, Once
<1>8. active \in Sessions
  BY DEF IInv, Shapes
<1> QED
  BY <1>1, <1>2, <1>3, <1>5, <1>6, <1>7, <1>8

LEMMA ApplyKeeps ==
  ASSUME IInv, ApplyApproved
  PROVE  IInv'
<1>u. UNCHANGED <<active, draft, approval, plans, approvals, consent, unsure,
                  outcomes>>
  BY DEF ApplyApproved, pageVars, reviewVars, runtimeVars, historyVars
<1>1. /\ MayApply(approval) /\ StartApply(approval, tasks)
      /\ approval.plan = draft.plan
  BY DEF ApplyApproved, MayApply, Bound
<1>2. /\ Adoptable' /\ OneApply' /\ Once'
      /\ \A t \in tasks' \ tasks : /\ t.kind = "apply"
                                   /\ t.plan \in DOMAIN plans
                                   /\ t.session \in Sessions
  BY <1>u, <1>1, Started
<1>3. \A i : Consented(i)' <=> Consented(i)
  BY <1>u DEF Consented
<1>4. Records'
  BY <1>u, <1>3 DEF IInv, Records
<1>5. Waiting'
  BY <1>u, <1>2, <1>3 DEF IInv, Waiting, Captured
<1> QED
  BY <1>u, <1>2, <1>4, <1>5 DEF IInv, Shapes

\* A decision recorded by the runtime.
LEMMA Resolved ==
  ASSUME IInv, NEW t \in tasks, t.kind = "decide",
         approvals' = [approvals EXCEPT ![t.approval].state = t.decision],
         UNCHANGED <<plans, consent>>
  PROVE  /\ approvals' \in Seq(ApprovalRecords)
         /\ DOMAIN approvals' = DOMAIN approvals
         /\ \A i \in DOMAIN approvals :
              /\ approvals'[i].plan = approvals[i].plan
              /\ Consented(i) => Consented(i)'
         /\ \A i \in DOMAIN approvals \ {t.approval} :
              approvals'[i] = approvals[i]
         /\ approvals'[t.approval].state = t.decision
         /\ \A i \in DOMAIN approvals :
              approvals'[i].state = "approved" => Consented(i)'
<1> DEFINE i == t.approval
           a == [approvals[i] EXCEPT !.state = t.decision]
<1>1. /\ i \in DOMAIN approvals /\ t.decision \in {"approved", "rejected"}
      /\ t.decision = "approved" => Consented(i)
  BY DEF IInv, Waiting, Captured
<1>2. /\ approvals \in Seq(ApprovalRecords) /\ Len(approvals) \in Nat
      /\ DOMAIN approvals = 1 .. Len(approvals)
  BY LenProperties DEF IInv, Shapes
<1>3. approvals[i] \in ApprovalRecords
  BY <1>1, <1>2, ElementOfSeq
<1>4. /\ a \in ApprovalRecords /\ a.plan = approvals[i].plan
      /\ a.state = t.decision
  BY <1>1, <1>3 DEF ApprovalRecords
<1>5. approvals' = [approvals EXCEPT ![i] = a]
  BY <1>1
<1> HIDE DEF a
<1>6. approvals' \in Seq(ApprovalRecords)
  BY <1>1, <1>2, <1>4, <1>5, ExceptSeq
<1>7. /\ DOMAIN approvals' = DOMAIN approvals /\ approvals'[i] = a
      /\ \A j \in DOMAIN approvals \ {i} : approvals'[j] = approvals[j]
  BY <1>1, <1>5
<1>8. \A j \in DOMAIN approvals : /\ approvals'[j].plan = approvals[j].plan
                                  /\ Consented(j) => Consented(j)'
  BY <1>4, <1>7 DEF Consented
<1>9. ASSUME NEW j \in DOMAIN approvals, approvals'[j].state = "approved"
      PROVE  Consented(j)'
  BY <1>1, <1>4, <1>7, <1>8, <1>9 DEF IInv, Records
<1> QED
  BY <1>4, <1>6, <1>7, <1>8, <1>9

LEMMA DecidedKeeps ==
  ASSUME IInv, NEW t \in tasks, Decided(t)
  PROVE  IInv'
<1> DEFINE resolved ==
      [id |-> t.approval, plan |-> t.plan, state |-> t.decision]
<1>u. /\ t.kind = "decide" /\ approvals[t.approval].state = "pending"
      /\ approvals' = [approvals EXCEPT ![t.approval].state = t.decision]
      /\ UNCHANGED <<active, draft, plans, consent, unsure, outcomes>>
  BY DEF Decided, pageVars, historyVars
<1>1. Captured(t)
  BY DEF IInv, Waiting
<1>2. \/ BindingExists(t) /\ approval' = resolved
      \/ approval' = approval
  BY DEF Decided
<1>3. /\ resolved.id = t.approval /\ resolved.plan = t.plan
      /\ resolved.state = t.decision
  OBVIOUS
<1>4. approval'.id = approval.id /\ approval'.plan = approval.plan
  BY <1>2, <1>3 DEF BindingExists
<1>5. /\ approvals' \in Seq(ApprovalRecords)
      /\ DOMAIN approvals' = DOMAIN approvals
      /\ \A i \in DOMAIN approvals : /\ approvals'[i].plan = approvals[i].plan
                                     /\ Consented(i) => Consented(i)'
      /\ \A i \in DOMAIN approvals \ {t.approval} :
           approvals'[i] = approvals[i]
      /\ approvals'[t.approval].state = t.decision
      /\ \A i \in DOMAIN approvals :
           approvals'[i].state = "approved" => Consented(i)'
  BY <1>u, Resolved
<1>6. Shapes'
  BY <1>u, <1>5 DEF IInv, Shapes
<1>7. Records'
  <2>1. approval'.plan # 0 =>
          /\ approval'.id \in DOMAIN approvals'
          /\ approvals'[approval'.id].plan = approval'.plan
    BY <1>4, <1>5 DEF IInv, Records
  <2>2. approval'.plan # 0 /\ approval'.state = "approved" =>
          approvals'[approval'.id].state = "approved"
    <3>1. CASE BindingExists(t) /\ approval' = resolved
      BY <1>3, <1>5, <3>1
    <3>2. CASE approval' = approval
      BY <1>u, <1>5, <3>2 DEF IInv, Records
    <3> QED
      BY <1>2, <3>1, <3>2
  <2> QED
    BY <1>u, <1>5, <2>1, <2>2 DEF IInv, Records
<1>8. \A v \in tasks : Captured(v)'
  BY <1>u, <1>5 DEF IInv, Waiting, Captured
<1>9. CASE tasks' = tasks \ {t} /\ UNCHANGED <<shown, inFlight>>
  <2>1. Applies' \subseteq Applies /\ Adoptions' \subseteq Adoptions
    BY <1>9 DEF Applies, Adoptions
  <2>2. Adoptable' /\ OneApply' /\ Once'
    BY <1>u, <1>4, <1>9, <2>1 DEF IInv, Adoptable, Unused, OneApply, Once
  <2>3. Waiting'
    BY <1>8, <1>9 DEF Waiting
  <2> QED
    BY <1>6, <1>7, <2>2, <2>3 DEF IInv
<1>10. CASE /\ BindingExists(t) /\ MayApply(resolved)
            /\ StartApply(resolved, tasks \ {t})
  <2>1. resolved.id = approval.id /\ approval.plan = draft.plan
    BY <1>10 DEF BindingExists
  <2> HIDE DEF resolved
  <2>2. /\ Adoptable' /\ OneApply' /\ Once'
        /\ \A v \in tasks' \ (tasks \ {t}) : /\ v.kind = "apply"
                                             /\ v.plan \in DOMAIN plans
                                             /\ v.session \in Sessions
    BY <1>u, <1>4, <1>10, <2>1, Started
  <2>3. Waiting'
    <3> SUFFICES ASSUME NEW v \in tasks' PROVE Captured(v)'
      BY DEF Waiting
    <3>1. CASE v \in tasks \ {t}
      BY <1>8, <3>1
    <3>2. CASE v \notin tasks \ {t}
      BY <1>u, <2>2, <3>2 DEF Captured
    <3> QED
      BY <3>1, <3>2
  <2> QED
    BY <1>6, <1>7, <2>2, <2>3 DEF IInv
<1> QED
  BY <1>9, <1>10 DEF Decided

LEMMA DecisionFailureKeeps ==
  ASSUME IInv, NEW t \in tasks, DecisionFails(t)
  PROVE  IInv'
<1>0. active \in Sessions
  BY DEF IInv, Shapes
<1>u. /\ t.kind = "decide" /\ tasks' = tasks \ {t}
      /\ UNCHANGED <<active, draft, approval, plans, consent, inFlight, unsure,
                     outcomes>>
  BY DEF DecisionFails, pageVars, applyVars, historyVars
<1>1. CASE UNCHANGED approvals
  BY <1>0, <1>1, <1>u, Still
<1>2. CASE /\ approvals[t.approval].state = "pending"
           /\ approvals' = [approvals EXCEPT ![t.approval].state = t.decision]
  <2>1. /\ approvals' \in Seq(ApprovalRecords)
        /\ DOMAIN approvals' = DOMAIN approvals
        /\ \A i \in DOMAIN approvals :
             /\ approvals'[i].plan = approvals[i].plan
             /\ Consented(i) => Consented(i)'
        /\ \A i \in DOMAIN approvals \ {t.approval} :
             approvals'[i] = approvals[i]
        /\ \A i \in DOMAIN approvals :
             approvals'[i].state = "approved" => Consented(i)'
    BY <1>u, <1>2, Resolved
  <2>2. Shapes'
    BY <1>u, <2>1 DEF IInv, Shapes
  <2>3. Records'
    BY <1>u, <1>2, <2>1 DEF IInv, Records
  <2>4. Waiting'
    BY <1>u, <2>1 DEF IInv, Waiting, Captured
  <2>5. Applies' \subseteq Applies /\ Adoptions' \subseteq Adoptions
    BY <1>u DEF Applies, Adoptions
  <2>6. Adoptable' /\ OneApply' /\ Once'
    BY <1>u, <2>5 DEF IInv, Adoptable, Unused, OneApply, Once
  <2> QED
    BY <2>2, <2>3, <2>4, <2>6 DEF IInv
<1> QED
  BY <1>1, <1>2 DEF DecisionFails

-----------------------------------------------------------------------------
\* An apply ends: no other is under way, and the draft has no plan whose
\* answer was lost before.
LEMMA Ends ==
  ASSUME IInv, NEW t \in tasks, t.kind = "apply",
         NEW new, tasks' = (tasks \ {t}) \cup new,
         \A v \in new : v.kind \in {"load", "late"}
  PROVE  /\ Applies' = {} /\ Adoptions' \subseteq Adoptions
         /\ t \in Applies /\ t.plan \in DOMAIN plans /\ t.session \in Sessions
         /\ \A u \in unsure : u.plan # draft.plan
         /\ \A v \in tasks' : v \in tasks \/ v.kind \in {"load", "late"}
<1>1. t \in Applies /\ t.plan \in DOMAIN plans /\ t.session \in Sessions
  BY DEF Applies, IInv, Waiting, Captured
<1>2. \A v \in Applies : v = t
  BY <1>1 DEF IInv, OneApply
<1>3. Applies' = {} /\ Adoptions' \subseteq Adoptions
  BY <1>2 DEF Applies, Adoptions
<1>4. \A u \in unsure : u.plan # draft.plan
  BY <1>1 DEF IInv, Once
<1> QED
  BY <1>1, <1>3, <1>4

\* What an answer makes of the outcome of document s.
LEMMA OutcomeSet ==
  ASSUME IInv, NEW s \in Sessions, NEW o, IsOutcome(o), IsRecovery(o.recovery),
         outcomes' = [outcomes EXCEPT ![s] = o]
  PROVE  /\ outcomes' = [v \in Sessions |-> outcomes'[v]]
         /\ \A v \in Sessions : /\ IsOutcome(outcomes'[v])
                                /\ IsRecovery(outcomes'[v].recovery)
         /\ outcomes'[s] = o
         /\ \A v \in Sessions \ {s} : outcomes'[v] = outcomes[v]
<1>1. DOMAIN outcomes = Sessions
  BY DEF IInv, Shapes
<1>2. /\ outcomes'[s] = o
      /\ \A v \in Sessions \ {s} : outcomes'[v] = outcomes[v]
      /\ outcomes' = [v \in Sessions |-> outcomes'[v]]
  BY <1>1
<1> QED
  BY <1>2 DEF IInv, Shapes

LEMMA AppliedKeeps ==
  ASSUME IInv, NEW t \in tasks, Applied(t)
  PROVE  IInv'
<1> DEFINE o == [applied |-> RunOf(t), error |-> FALSE,
                 recovery |-> NoRecovery]
<1>u. /\ t.kind = "apply" /\ inFlight' = FALSE
      /\ outcomes' = [outcomes EXCEPT ![t.session] = o]
      /\ UNCHANGED <<active, unsure, plans, approvals, consent>>
  BY DEF Applied, historyVars
<1>1. IsOutcome(o) /\ IsRecovery(o.recovery)
  BY DEF IsOutcome, IsRecovery, NoRecovery
<1> HIDE DEF o
<1>2. \/ draft' = draft /\ approval' = approval
      \/ /\ IsDraft(draft') /\ draft'.plan = 0 /\ approval' = NoApproval
  BY DEF Applied, EmptyDraft, IsDraft
<1>3. /\ Applies' = {} /\ Adoptions' \subseteq Adoptions
      /\ t.session \in Sessions /\ \A u \in unsure : u.plan # draft.plan
      /\ \A v \in tasks' : v \in tasks \/ v.kind \in {"load", "late"}
  <2> DEFINE new == {[kind |-> "load", session |-> t.session]}
  <2>1. tasks' = (tasks \ {t}) \cup new /\ \A v \in new : v.kind = "load"
    BY DEF Applied
  <2> HIDE DEF new
  <2> QED
    BY <1>u, <2>1, Ends
<1>4. /\ outcomes' = [v \in Sessions |-> outcomes'[v]]
      /\ \A v \in Sessions : /\ IsOutcome(outcomes'[v])
                             /\ IsRecovery(outcomes'[v].recovery)
  BY <1>u, <1>1, <1>3, OutcomeSet
<1>5. Shapes'
  BY <1>u, <1>2, <1>4 DEF IInv, Shapes
<1>6. \A i : Consented(i)' <=> Consented(i)
  BY <1>u DEF Consented
<1>7. Records'
  BY <1>u, <1>2, <1>6 DEF IInv, Records, NoApproval
<1>8. Waiting'
  BY <1>u, <1>3, <1>6 DEF IInv, Waiting, Captured
<1>9. draft'.plan \in {draft.plan, 0}
  BY <1>2
<1>10. Adoptable'
  BY <1>u, <1>3, <1>9, PlanNumbers DEF IInv, Adoptable, Unused
<1>11. OneApply' /\ Once'
  BY <1>u, <1>3, <1>9, PlanNumbers DEF IInv, OneApply, Once
<1> QED
  BY <1>5, <1>7, <1>8, <1>10, <1>11 DEF IInv

LEMMA FailureKeeps ==
  ASSUME IInv, NEW t \in tasks, NEW lost \in BOOLEAN, ApplyFails(t, lost)
  PROVE  IInv'
<1> DEFINE o == [applied |-> 0, error |-> TRUE,
                 recovery |-> IF lost THEN Unknown(t) ELSE NoRecovery]
           u == [plan |-> t.plan, approval |-> t.approval]
<1>u. /\ t.kind = "apply" /\ inFlight' = FALSE
      /\ outcomes' = [outcomes EXCEPT ![t.session] = o]
      /\ unsure' = IF lost THEN unsure \cup {u} ELSE unsure
      /\ UNCHANGED <<active, draft, approval, plans, approvals, consent>>
  BY DEF ApplyFails, pageVars, reviewVars, runtimeVars, historyVars
<1>1. /\ IsOutcome(o) /\ IsRecovery(o.recovery)
      /\ lost => /\ o.recovery.plan = t.plan
                 /\ o.recovery.approval = t.approval
      /\ u.plan = t.plan /\ u.approval = t.approval
  BY DEF IsOutcome, IsRecovery, NoRecovery, Unknown
<1> HIDE DEF o, u
<1>2. /\ Applies' = {} /\ Adoptions' \subseteq Adoptions
      /\ t \in Applies /\ t.plan \in DOMAIN plans
      /\ t.session \in Sessions /\ \A v \in unsure : v.plan # draft.plan
      /\ \A v \in tasks' : v \in tasks \/ v.kind \in {"load", "late"}
  <2> DEFINE new == IF lost THEN {[kind |-> "late", session |-> t.session,
                                   plan |-> t.plan, approval |-> t.approval]}
                    ELSE {}
  <2>1. tasks' = (tasks \ {t}) \cup new /\ \A v \in new : v.kind = "late"
    BY DEF ApplyFails
  <2> HIDE DEF new
  <2> QED
    BY <1>u, <2>1, Ends
<1>3. /\ outcomes' = [v \in Sessions |-> outcomes'[v]]
      /\ \A v \in Sessions : /\ IsOutcome(outcomes'[v])
                             /\ IsRecovery(outcomes'[v].recovery)
      /\ outcomes'[t.session] = o
  BY <1>u, <1>1, <1>2, OutcomeSet
<1>4. Shapes'
  BY <1>u, <1>3 DEF IInv, Shapes
<1>5. \A i : Consented(i)' <=> Consented(i)
  BY <1>u DEF Consented
<1>6. Records'
  BY <1>u, <1>5 DEF IInv, Records
<1>7. Waiting'
  BY <1>u, <1>2, <1>5 DEF IInv, Waiting, Captured
<1>8. Adoptable'
  BY <1>u, <1>1, <1>2 DEF IInv, Adoptable, Unused
<1>9. Once'
  <2> SUFFICES ASSUME NEW v \in unsure', v.plan = draft.plan
               PROVE  /\ approval.id = v.approval /\ approval.plan = v.plan
                      /\ outcomes'[draft.session].recovery.plan = v.plan
                      /\ outcomes'[draft.session].recovery.approval
                           = v.approval
    BY <1>u, <1>1, <1>2 DEF IInv, Once
  <2>1. lost /\ v = u
    BY <1>u, <1>2
  <2>2. /\ approval.id = t.approval /\ approval.plan = t.plan
        /\ draft.session = t.session
    BY <1>1, <1>2, <2>1 DEF IInv, OneApply
  <2> QED
    BY <1>1, <1>3, <2>1, <2>2
<1>10. OneApply'
  BY <1>2 DEF OneApply
<1> QED
  BY <1>4, <1>6, <1>7, <1>8, <1>9, <1>10 DEF IInv

LEMMA ErrorNoted ==
  ASSUME NEW o, IsOutcome(o), NEW x
  PROVE  LET new == [o EXCEPT !.error = x]
         IN  IsOutcome(new) /\ new.recovery = o.recovery
  BY DEF IsOutcome

LEMMA RecoveredKeeps ==
  ASSUME IInv, NEW t \in tasks, Recovered(t)
  PROVE  IInv'
<1>r. PICK found, resolved :
        /\ resolved = [t.recovery EXCEPT !.outcome = "applied", !.run = found]
        /\ outcomes' = [outcomes EXCEPT ![t.session] =
                          [applied |-> found, error |-> FALSE,
                           recovery |-> resolved]]
  BY DEF Recovered
<1> DEFINE o == [applied |-> found, error |-> FALSE, recovery |-> resolved]
<1>u. /\ t.kind = "recover" /\ StillOwned(t) /\ tasks' = tasks \ {t}
      /\ outcomes' = [outcomes EXCEPT ![t.session] = o]
      /\ UNCHANGED <<active, inFlight, unsure, plans, approvals, consent>>
  BY <1>r DEF Recovered, runtimeVars, historyVars
<1>1. t.session \in Sessions
  BY <1>u DEF IInv, Waiting, Captured
<1>2. t.recovery = outcomes[t.session].recovery /\ IsRecovery(t.recovery)
  BY <1>u, <1>1 DEF StillOwned, IInv, Shapes
<1>3. /\ IsRecovery(resolved) /\ resolved.plan = t.recovery.plan
      /\ resolved.approval = t.recovery.approval
  <2>r. PICK r : r = t.recovery
    OBVIOUS
  <2>1. DOMAIN r = {"plan", "approval", "outcome", "run"}
    BY <2>r, <1>2 DEF IsRecovery
  <2> DEFINE mid == [r EXCEPT !.outcome = "applied"]
  <2>2. /\ DOMAIN mid = {"plan", "approval", "outcome", "run"}
        /\ mid.plan = r.plan /\ mid.approval = r.approval
        /\ mid = [f \in {"plan", "approval", "outcome", "run"} |-> mid[f]]
    BY <2>1
  <2>3. resolved = [mid EXCEPT !.run = found]
    BY <1>r, <2>r
  <2> HIDE DEF mid
  <2>4. /\ DOMAIN resolved = {"plan", "approval", "outcome", "run"}
        /\ resolved.plan = mid.plan /\ resolved.approval = mid.approval
        /\ resolved =
             [f \in {"plan", "approval", "outcome", "run"} |-> resolved[f]]
    BY <2>2, <2>3
  <2>5. IsRecovery(resolved)
    BY <2>4 DEF IsRecovery
  <2> QED
    BY <2>r, <2>2, <2>4, <2>5
<1>4. IsOutcome(o) /\ IsRecovery(o.recovery) /\ o.recovery = resolved
  BY <1>3 DEF IsOutcome
<1> HIDE DEF o
<1>5. \/ draft' = draft /\ approval' = approval
      \/ /\ IsDraft(draft') /\ draft'.plan = 0 /\ approval' = NoApproval
  BY DEF Recovered, EmptyDraft, IsDraft
<1>6. /\ outcomes' = [v \in Sessions |-> outcomes'[v]]
      /\ \A v \in Sessions :
           /\ IsOutcome(outcomes'[v]) /\ IsRecovery(outcomes'[v].recovery)
      /\ outcomes'[t.session] = o
      /\ \A v \in Sessions \ {t.session} : outcomes'[v] = outcomes[v]
  BY <1>u, <1>1, <1>4, OutcomeSet
<1>7. \A v \in Sessions :
        /\ outcomes'[v].recovery.plan = outcomes[v].recovery.plan
        /\ outcomes'[v].recovery.approval = outcomes[v].recovery.approval
  BY <1>2, <1>3, <1>4, <1>6
<1>8. Shapes'
  BY <1>u, <1>5, <1>6 DEF IInv, Shapes
<1>9. \A i : Consented(i)' <=> Consented(i)
  BY <1>u DEF Consented
<1>10. Records'
  BY <1>u, <1>5, <1>9 DEF IInv, Records, NoApproval
<1>11. Waiting'
  BY <1>u, <1>9 DEF IInv, Waiting, Captured
<1>12. /\ Applies' \subseteq Applies /\ Adoptions' \subseteq Adoptions
       /\ draft'.plan \in {draft.plan, 0}
  BY <1>u, <1>5 DEF Applies, Adoptions
<1>13. Adoptable'
  BY <1>u, <1>12, PlanNumbers DEF IInv, Adoptable, Unused
<1>14. OneApply'
  BY <1>u, <1>5, <1>12, PlanNumbers DEF IInv, OneApply
<1>15. Once'
  <2>1. CASE draft' = draft /\ approval' = approval
    <3>1. draft.plan # 0 => draft.session \in Sessions
      BY DEF IInv, Records
    <3>2. \A u \in unsure : u.plan # 0
      BY PlanNumbers
    <3> QED
      BY <1>u, <1>7, <1>12, <2>1, <3>1, <3>2 DEF IInv, Once
  <2>2. CASE draft'.plan = 0
    BY <1>u, <1>12, <2>2, PlanNumbers DEF IInv, Once
  <2> QED
    BY <1>5, <2>1, <2>2
<1> QED
  BY <1>8, <1>10, <1>11, <1>13, <1>14, <1>15 DEF IInv

LEMMA NotRecoveredKeeps ==
  ASSUME IInv, NEW t \in tasks, NotRecovered(t)
  PROVE  IInv'
<1>0. active \in Sessions
  BY DEF IInv, Shapes
<1>u. /\ t.kind = "recover" /\ tasks' = tasks \ {t}
      /\ UNCHANGED <<active, draft, approval, inFlight, unsure, plans,
                     approvals, consent>>
  BY DEF NotRecovered, pageVars, reviewVars, runtimeVars, historyVars
<1>1. CASE UNCHANGED outcomes
  BY <1>0, <1>1, <1>u, Still
<1>2. CASE outcomes' = [outcomes EXCEPT ![t.session].error = TRUE]
  <2> DEFINE o == [outcomes[t.session] EXCEPT !.error = TRUE]
  <2>1. /\ t.session \in Sessions
        /\ outcomes' = [outcomes EXCEPT ![t.session] = o]
    BY <1>2, <1>u DEF IInv, Waiting, Captured
  <2>2. /\ IsOutcome(outcomes[t.session])
        /\ IsRecovery(outcomes[t.session].recovery)
    BY <2>1 DEF IInv, Shapes
  <2>3. /\ o.recovery = outcomes[t.session].recovery
        /\ IsOutcome(o) /\ IsRecovery(o.recovery)
    BY <2>2, ErrorNoted
  <2> HIDE DEF o
  <2>4. /\ outcomes' = [v \in Sessions |-> outcomes'[v]]
        /\ \A v \in Sessions :
             /\ IsOutcome(outcomes'[v]) /\ IsRecovery(outcomes'[v].recovery)
        /\ outcomes'[t.session] = o
        /\ \A v \in Sessions \ {t.session} : outcomes'[v] = outcomes[v]
    BY <2>1, <2>3, OutcomeSet
  <2>5. \A v \in Sessions : outcomes'[v].recovery = outcomes[v].recovery
    BY <2>3, <2>4
  <2>6. Shapes'
    BY <1>u, <2>4 DEF IInv, Shapes
  <2>7. \A i : Consented(i)' <=> Consented(i)
    BY <1>u DEF Consented
  <2>8. Records'
    BY <1>u, <2>7 DEF IInv, Records
  <2>9. Waiting'
    BY <1>u, <2>7 DEF IInv, Waiting, Captured
  <2>10. Applies' \subseteq Applies /\ Adoptions' \subseteq Adoptions
    BY <1>u DEF Applies, Adoptions
  <2>11. Adoptable' /\ OneApply'
    BY <1>u, <2>10 DEF IInv, Adoptable, Unused, OneApply
  <2>12. Once'
    <3>1. draft.plan # 0 => draft.session \in Sessions
      BY DEF IInv, Records
    <3>2. \A u \in unsure : u.plan # 0
      BY PlanNumbers
    <3> QED
      BY <1>u, <2>5, <2>10, <3>1, <3>2 DEF IInv, Once
  <2> QED
    BY <2>6, <2>8, <2>9, <2>11, <2>12 DEF IInv
<1> QED
  BY <1>1, <1>2 DEF NotRecovered

-----------------------------------------------------------------------------
LEMMA Invariant == Spec => []IInv
<1>1. IInv /\ [Next]_vars => IInv'
  <2> SUFFICES ASSUME IInv, [Next]_vars PROVE IInv'
    OBVIOUS
  <2>1. CASE Revises
    BY <2>1, UserQueues
  <2>2. CASE Chooses
    BY <2>2, UserLooks, RequestKeeps, ApplyKeeps, DecideKeeps DEF Chooses
  <2>3. CASE Answer
    BY <2>3, ProposedKeeps, QuietAnswers, AgentKeeps, AdoptedKeeps,
       RequestedKeeps, DecidedKeeps, DecisionFailureKeeps, AppliedKeeps,
       FailureKeeps, RecoveredKeeps, NotRecoveredKeeps DEF Answer
  <2>4. CASE UNCHANGED vars
    <3>1. UNCHANGED <<active, draft, approval, plans, approvals, consent,
                      inFlight, unsure, outcomes, tasks>>
      BY <2>4 DEF vars, pageVars, reviewVars, applyVars, runtimeVars,
                  historyVars
    <3> QED
      BY <3>1, Still DEF IInv, Shapes
  <2> QED
    BY <2>1, <2>2, <2>3, <2>4 DEF Next
<1> QED
  BY <1>1, InitInvariant, PTL DEF Spec

LEMMA QueueSends ==
  ASSUME NEW ops, NEW base, NEW h, NEW others, SetQueue(ops, base, h, others)
  PROVE  \A t \in tasks' \ others : t.kind = "queue"
<1> DEFINE n == [kind |-> "queue", owner |-> Owner(draft', h)]
<1>1. tasks' \subseteq others \cup {n}
  BY DEF SetQueue
<1>2. n.kind = "queue"
  OBVIOUS
<1> HIDE DEF n
<1> QED
  BY <1>1, <1>2

\* An apply leaves the page in two ways only.
LEMMA WhoSends ==
  ASSUME IInv, [Next]_vars, NEW new \in Sent
  PROVE  \/ /\ ApplyApproved
            /\ new.plan = draft.plan /\ new.approval = approval.id
         \/ \E t \in tasks :
              /\ Decided(t) /\ BindingExists(t)
              /\ MayApply([id |-> t.approval, plan |-> t.plan,
                           state |-> t.decision])
              /\ new.plan = draft.plan /\ new.approval = t.approval
<1>0. new \in tasks' \ tasks /\ new.kind = "apply"
  BY DEF Sent
<1>1. CASE Revises
  <2>1. CASE ClearQueue
    BY <1>0, <2>1 DEF ClearQueue
  <2>2. CASE Edit \/ Remove \/ Repropose
    <3>1. \E ops, base : SetQueue(ops, base, head, tasks)
      BY <2>2 DEF Edit, Remove, Repropose
    <3> QED
      BY <1>0, <3>1, QueueSends
  <2> QED
    BY <1>1, <2>1, <2>2 DEF Revises
<1>2. CASE Chooses
  <2>1. CASE ApplyApproved
    BY <1>0, <2>1 DEF ApplyApproved, StartApply
  <2>2. CASE \E s \in Sessions : SelectSession(s)
    BY <1>0, <2>2 DEF SelectSession
  <2>3. CASE \E r \in {0} \cup candidates[active] : SetHead(r)
    <3>1. PICK r : SetHead(r)
      BY <2>3
    <3>2. CASE r = 0 /\ draft.ops # {}
      BY <1>0, <3>1, <3>2, QueueSends DEF SetHead
    <3>3. CASE ~(r = 0 /\ draft.ops # {})
      BY <1>0, <3>1, <3>3 DEF SetHead
    <3> QED
      BY <3>2, <3>3
  <2>4. CASE Instruct
    <3> DEFINE n == [kind |-> "agent", op |-> Len(authored'),
                     owner |-> Owner(draft, head)]
    <3>1. tasks' = tasks \cup {n}
      BY <2>4 DEF Instruct
    <3>2. n.kind = "agent"
      OBVIOUS
    <3> HIDE DEF n
    <3> QED
      BY <1>0, <3>1, <3>2
  <2>5. CASE RequestApproval
    BY <1>0, <2>5 DEF RequestApproval
  <2>6. CASE Recover
    BY <1>0, <2>6 DEF Recover
  <2>7. CASE \E d \in {"approved", "rejected"} : Decide(d)
    BY <1>0, <2>7 DEF Decide
  <2> QED
    BY <1>2, <2>1, <2>2, <2>3, <2>4, <2>5, <2>6, <2>7 DEF Chooses
<1>3. CASE Answer
  <2>1. PICK t \in tasks :
          \/ Proposed(t) \/ Loaded(t) \/ HeadRead(t) \/ AgentDone(t)
          \/ Adopted(t) \/ Requested(t) \/ Decided(t) \/ DecisionFails(t)
          \/ Applied(t) \/ (\E lost \in BOOLEAN : ApplyFails(t, lost))
          \/ LateEnd(t) \/ Recovered(t) \/ NotRecovered(t)
    BY <1>3 DEF Answer
  <2>2. CASE Decided(t)
    <3> DEFINE a == [id |-> t.approval, plan |-> t.plan,
                     state |-> t.decision]
               n == [kind |-> "apply", approval |-> a.id,
                     plan |-> draft.plan, draft |-> draft,
                     session |-> active, head |-> head]
    <3>1. /\ BindingExists(t) /\ MayApply(a)
          /\ tasks' = (tasks \ {t}) \cup {n}
      BY <1>0, <2>2 DEF Decided, StartApply
    <3>2. n.plan = draft.plan /\ n.approval = t.approval
      OBVIOUS
    <3> HIDE DEF n
    <3>3. new = n
      BY <1>0, <3>1
    <3> QED
      BY <2>2, <3>1, <3>2, <3>3
  <2>3. CASE AgentDone(t)
    <3> DEFINE n == [kind |-> "adopt", owner |-> t.owner, gen |-> generation,
                     plan |-> Len(plans'),
                     approval |-> IF approvals' = approvals THEN 0
                                  ELSE Len(approvals')]
    <3>1. tasks' \subseteq tasks \cup {n}
      BY <2>3 DEF AgentDone
    <3>2. n.kind = "adopt"
      OBVIOUS
    <3> HIDE DEF n
    <3> QED
      BY <1>0, <3>1, <3>2
  <2>4. CASE HeadRead(t)
    <3>1. CASE OwnsHead(t) /\ draft.ops # {}
      BY <1>0, <2>4, <3>1, QueueSends DEF HeadRead
    <3>2. CASE ~(OwnsHead(t) /\ draft.ops # {})
      BY <1>0, <2>4, <3>2 DEF HeadRead
    <3> QED
      BY <3>1, <3>2
  <2>5. CASE Applied(t)
    BY <1>0, <2>5 DEF Applied
  <2>6. CASE \E lost \in BOOLEAN : ApplyFails(t, lost)
    BY <1>0, <2>6 DEF ApplyFails
  <2>7. CASE \/ Proposed(t) \/ Loaded(t) \/ Adopted(t) \/ Requested(t)
             \/ DecisionFails(t) \/ LateEnd(t) \/ Recovered(t)
             \/ NotRecovered(t)
    BY <1>0, <2>7 DEF Proposed, Loaded, Adopted, Requested, DecisionFails,
                      LateEnd, Recovered, NotRecovered
  <2> QED
    BY <2>1, <2>2, <2>3, <2>4, <2>5, <2>6, <2>7
<1>4. CASE UNCHANGED vars
  BY <1>0, <1>4 DEF vars
<1> QED
  BY <1>1, <1>2, <1>3, <1>4 DEF Next

LEMMA RecordRead ==
  ASSUME NEW records \in Seq(ApprovalRecords), NEW i \in DOMAIN records
  PROVE  records[i] = [plan |-> records[i].plan, state |-> records[i].state]
<1>1. Len(records) \in Nat /\ DOMAIN records = 1 .. Len(records)
  BY LenProperties
<1>2. records[i] \in ApprovalRecords
  BY <1>1, ElementOfSeq
<1> QED
  BY <1>2 DEF ApprovalRecords

\* What is sent to be applied is the queue on screen, for the document on
\* screen, under an approval the user gave seeing just that, and on the head
\* if one is chosen there (applyApproved, resolveApprovalDecision,
\* activeApprovalBinding, adoptAgentPlan).
THEOREM WhatIsShownIsApplied == Spec => AppliesWhatIsShown
<1>1. IInv /\ [Next]_vars => [\A t \in Sent : AsShown(t)]_vars
  <2> SUFFICES ASSUME IInv, [Next]_vars, NEW new \in Sent
               PROVE  AsShown(new)
    OBVIOUS
  <2>1. CASE /\ ApplyApproved
             /\ new.plan = draft.plan /\ new.approval = approval.id
    <3>1. MayApply(approval)
      BY <2>1 DEF ApplyApproved
    <3>2. /\ draft.session = active /\ approval.plan = draft.plan
          /\ approval.state = "approved" /\ ~LeftBehind
          /\ draft.plan \in DOMAIN plans /\ draft.plan # 0
      BY <3>1, MayBeSent, PlanNumbers
    <3>3. /\ plans[draft.plan].session = active
          /\ plans[draft.plan].ops = draft.ops
          /\ plans[draft.plan].base = draft.base
      BY <3>2 DEF IInv, Records
    <3>4. /\ approval.id \in DOMAIN approvals
          /\ approvals[approval.id].plan = draft.plan
          /\ approvals[approval.id].state = "approved"
          /\ Consented(approval.id)
      BY <3>2 DEF IInv, Records
    <3>5. approvals[approval.id] = [plan |-> draft.plan, state |-> "approved"]
      BY <3>4, RecordRead DEF IInv, Shapes
    <3>6. approvals' = approvals
      BY <2>1 DEF ApplyApproved, runtimeVars
    <3> QED
      BY <2>1, <3>2, <3>3, <3>4, <3>5, <3>6
         DEF AsShown, Consented, LeftBehind
  <2>2. ASSUME NEW t \in tasks, Decided(t), BindingExists(t),
               MayApply([id |-> t.approval, plan |-> t.plan,
                         state |-> t.decision]),
               new.plan = draft.plan, new.approval = t.approval
        PROVE  AsShown(new)
    <3> DEFINE a == [id |-> t.approval, plan |-> t.plan,
                     state |-> t.decision]
    <3>0. /\ MayApply(a) /\ a.id = t.approval /\ a.plan = t.plan
          /\ a.state = t.decision
      BY <2>2
    <3> HIDE DEF a
    <3>1. a.id = approval.id
      BY <2>2, <3>0 DEF BindingExists
    <3>2. /\ draft.session = active /\ t.plan = draft.plan
          /\ t.decision = "approved" /\ ~LeftBehind
          /\ draft.plan \in DOMAIN plans /\ draft.plan # 0
      BY <3>0, <3>1, MayBeSent, PlanNumbers
    <3>3. /\ plans[draft.plan].session = active
          /\ plans[draft.plan].ops = draft.ops
          /\ plans[draft.plan].base = draft.base
      BY <3>2 DEF IInv, Records
    <3>4. /\ t.approval \in DOMAIN approvals
          /\ approvals[t.approval].plan = draft.plan
          /\ Consented(t.approval)
      BY <2>2, <3>2 DEF IInv, Waiting, Captured, Decided
    <3>5. /\ approvals' \in Seq(ApprovalRecords)
          /\ DOMAIN approvals' = DOMAIN approvals
          /\ approvals'[t.approval].plan = draft.plan
          /\ approvals'[t.approval].state = "approved"
      <4>1. /\ t.kind = "decide" /\ UNCHANGED <<plans, consent>>
            /\ approvals' =
                 [approvals EXCEPT ![t.approval].state = t.decision]
        BY <2>2 DEF Decided, historyVars
      <4> QED
        BY <3>2, <3>4, <4>1, Resolved
    <3>6. approvals'[t.approval] = [plan |-> draft.plan, state |-> "approved"]
      BY <3>4, <3>5, RecordRead
    <3> QED
      BY <2>2, <3>2, <3>3, <3>4, <3>6 DEF AsShown, Consented, LeftBehind
  <2> QED
    BY <2>1, <2>2, WhoSends
<1> QED
  BY <1>1, Invariant, PTL DEF AppliesWhatIsShown, Spec

\* One apply at a time, and never again one whose answer was lost, wherever
\* the user has been since (applyApproved, resolveRecovery).
THEOREM AppliedOnce == Spec => AppliesOnce
<1>1. IInv /\ [Next]_vars =>
        [\A t \in Sent : /\ Applies = {}
                         /\ [plan |-> t.plan, approval |-> t.approval]
                              \notin unsure]_vars
  <2> SUFFICES ASSUME IInv, [Next]_vars, NEW new \in Sent
               PROVE  /\ Applies = {}
                      /\ [plan |-> new.plan, approval |-> new.approval]
                           \notin unsure
    OBVIOUS
  <2>1. PICK a : /\ MayApply(a) /\ a.id = approval.id
                 /\ approval.plan = draft.plan /\ new.plan = draft.plan
    <3>1. CASE ApplyApproved /\ new.plan = draft.plan
      BY <3>1 DEF ApplyApproved, MayApply, Bound
    <3>2. CASE \E t \in tasks :
                 /\ BindingExists(t) /\ new.plan = draft.plan
                 /\ MayApply([id |-> t.approval, plan |-> t.plan,
                              state |-> t.decision])
      BY <3>2 DEF BindingExists
    <3> QED
      BY <3>1, <3>2, WhoSends
  <2>2. Applies = {} /\ \A u \in unsure : u.plan # draft.plan
    BY <2>1, MayBeSent
  <2> QED
    BY <2>1, <2>2
<1> QED
  BY <1>1, Invariant, PTL DEF AppliesOnce, Spec
-----------------------------------------------------------------------------
(* What a document is said to have become                                  *)

\* What an outcome or the page says of document s, read off the records ps
\* of plans and rs of candidates.
TrueOf(o, s, ps, rs) ==
  /\ o.applied # 0 => /\ o.applied \in DOMAIN rs
                      /\ rs[o.applied].session = s
  /\ o.recovery # NoRecovery => /\ o.recovery.plan \in DOMAIN ps
                                /\ ps[o.recovery.plan].session = s
  /\ o.recovery.outcome = "applied" =>
       /\ o.recovery.run \in DOMAIN rs
       /\ rs[o.recovery.run].session = s
       /\ rs[o.recovery.run].plan = o.recovery.plan
       /\ rs[o.recovery.run].approval = o.recovery.approval
IsPage(p) ==
  p = [applied |-> p.applied, error |-> p.error, recovery |-> p.recovery,
       phase |-> p.phase]

\* A function that waits for a candidate waits for one of its own document.
OwnPlan(t) ==
  /\ t.kind \in {"apply", "late"} =>
       t.plan \in DOMAIN plans /\ plans[t.plan].session = t.session
  /\ t.kind = "recover" => t.recovery # NoRecovery

OwnRuns ==
  /\ IsSequence(runs)
  /\ \A r \in DOMAIN runs :
       /\ runs[r].plan \in DOMAIN plans
       /\ plans[runs[r].plan].session = runs[r].session

Truth ==
  /\ OwnRuns
  /\ IsPage(shown)
  /\ \A s \in Sessions : TrueOf(outcomes[s], s, plans, runs)
  /\ TrueOf(shown, active, plans, runs)
  /\ shown.phase = "starting" => Applies # {}
  /\ \A t \in tasks : OwnPlan(t)

LEMMA InitTruth == Init => Truth
<1> SUFFICES ASSUME Init PROVE Truth
  OBVIOUS
<1>1. /\ runs = << >> /\ tasks = {} /\ active = First
      /\ outcomes = [s \in Sessions |-> NoOutcome]
      /\ shown = Presentation(NoOutcome)
  BY DEF Init
<1>2. runs \in Seq({}) /\ DOMAIN runs = {}
  BY <1>1, EmptySeq
<1>3. OwnRuns
  BY <1>2 DEF OwnRuns, IsSequence
<1>4. \A s : TrueOf(NoOutcome, s, plans, runs)
  BY DEF TrueOf, NoOutcome, NoRecovery
<1>5. /\ shown.applied = 0 /\ shown.recovery = NoRecovery
      /\ shown.phase = "idle" /\ IsPage(shown)
  BY <1>1 DEF Presentation, NoOutcome, IsPage
<1>6. TrueOf(shown, active, plans, runs)
  BY <1>5 DEF TrueOf, NoRecovery
<1> QED
  BY <1>1, <1>3, <1>4, <1>5, <1>6 DEF Truth

\* What was true stays true when the runtime records a plan, or a candidate
\* of a plan that it has.
LEMMA TruthGrows ==
  ASSUME IInv, OwnRuns,
         plans' = plans \/ \E x : plans' = Append(plans, x),
         \/ runs' = runs
         \/ \E x : /\ runs' = Append(runs, x)
                   /\ x.plan \in DOMAIN plans
                   /\ plans[x.plan].session = x.session
  PROVE  /\ OwnRuns'
         /\ \A o, s : TrueOf(o, s, plans, runs) => TrueOf(o, s, plans', runs')
         /\ \A t \in tasks : OwnPlan(t) => OwnPlan(t)'
<1>1. /\ DOMAIN plans \subseteq DOMAIN plans'
      /\ \A p \in DOMAIN plans : plans'[p] = plans[p]
  BY PlanAdded
<1>2. /\ IsSequence(runs') /\ DOMAIN runs \subseteq DOMAIN runs'
      /\ \A r \in DOMAIN runs : runs'[r] = runs[r]
      /\ \A r \in DOMAIN runs' \ DOMAIN runs :
           /\ runs'[r].plan \in DOMAIN plans
           /\ plans[runs'[r].plan].session = runs'[r].session
  <2>1. CASE runs' = runs
    BY <2>1 DEF OwnRuns
  <2>2. ASSUME NEW x, runs' = Append(runs, x), x.plan \in DOMAIN plans,
               plans[x.plan].session = x.session
        PROVE  /\ IsSequence(runs') /\ DOMAIN runs \subseteq DOMAIN runs'
               /\ \A r \in DOMAIN runs : runs'[r] = runs[r]
               /\ \A r \in DOMAIN runs' \ DOMAIN runs : runs'[r] = x
    <3>1. /\ IsSequence(runs') /\ Len(runs) \in Nat
          /\ DOMAIN runs = 1 .. Len(runs)
          /\ DOMAIN runs' = 1 .. (Len(runs) + 1)
          /\ runs'[Len(runs) + 1] = x
          /\ \A r \in DOMAIN runs : runs'[r] = runs[r]
      BY <2>2, Appended DEF OwnRuns
    <3>2. \A r \in DOMAIN runs' \ DOMAIN runs : r = Len(runs) + 1
      BY <3>1
    <3>3. DOMAIN runs \subseteq DOMAIN runs'
      BY <3>1
    <3> QED
      BY <3>1, <3>2, <3>3
  <2> QED
    BY <2>1, <2>2
<1>3. OwnRuns'
  BY <1>1, <1>2 DEF OwnRuns
<1>4. ASSUME NEW o, NEW s, TrueOf(o, s, plans, runs)
      PROVE  TrueOf(o, s, plans', runs')
  <2>1. o.applied # 0 => /\ o.applied \in DOMAIN runs'
                         /\ runs'[o.applied].session = s
    BY <1>2, <1>4 DEF TrueOf
  <2>2. o.recovery # NoRecovery => /\ o.recovery.plan \in DOMAIN plans'
                                   /\ plans'[o.recovery.plan].session = s
    BY <1>1, <1>4 DEF TrueOf
  <2>3. o.recovery.outcome = "applied" =>
          /\ o.recovery.run \in DOMAIN runs'
          /\ runs'[o.recovery.run] = runs[o.recovery.run]
    BY <1>2, <1>4 DEF TrueOf
  <2> QED
    BY <1>4, <2>1, <2>2, <2>3 DEF TrueOf
<1>5. \A t \in tasks : OwnPlan(t) => OwnPlan(t)'
  BY <1>1 DEF OwnPlan
<1> QED
  BY <1>3, <1>4, <1>5

\* The ways in which the page is rewritten.
LEMMA PageRewritten ==
  ASSUME NEW p, IsPage(p)
  PROVE  /\ IsPage(QuietApply(p)) /\ QuietApply(p).phase = "idle"
         /\ QuietApply(p).applied = p.applied
         /\ QuietApply(p).recovery = p.recovery
         /\ IsPage([p EXCEPT !.applied = 0])
         /\ [p EXCEPT !.applied = 0].applied = 0
         /\ [p EXCEPT !.applied = 0].recovery = p.recovery
         /\ [p EXCEPT !.applied = 0].phase = p.phase
<1> DEFINE F == {"applied", "error", "recovery", "phase"}
<1>1. DOMAIN p = F
  BY DEF IsPage
<1>2. \A q : DOMAIN q = F /\ q = [f \in F |-> q[f]] => IsPage(q)
  BY DEF IsPage
<1>3. PICK q : q = [p EXCEPT !.phase = "idle"]
  OBVIOUS
<1>4. /\ DOMAIN q = F /\ q = [f \in F |-> q[f]] /\ q.phase = "idle"
      /\ q.applied = p.applied /\ q.recovery = p.recovery
  BY <1>1, <1>3
<1>5. PICK r : r = [q EXCEPT !.error = FALSE]
  OBVIOUS
<1>6. /\ DOMAIN r = F /\ r = [f \in F |-> r[f]] /\ r.phase = "idle"
      /\ r.applied = p.applied /\ r.recovery = p.recovery
  BY <1>4, <1>5
<1>7. r = QuietApply(p)
  BY <1>3, <1>5 DEF QuietApply
<1>8. PICK n : n = [p EXCEPT !.applied = 0]
  OBVIOUS
<1>9. /\ DOMAIN n = F /\ n = [f \in F |-> n[f]] /\ n.phase = p.phase
      /\ n.applied = 0 /\ n.recovery = p.recovery
  BY <1>1, <1>8
<1> QED
  BY <1>2, <1>6, <1>7, <1>8, <1>9

LEMMA Presented ==
  ASSUME NEW o
  PROVE  /\ IsPage(Presentation(o))
         /\ Presentation(o).applied = o.applied
         /\ Presentation(o).recovery = o.recovery
         /\ Presentation(o).phase \in {"ready", "failed", "idle"}
  BY DEF IsPage, Presentation

\* A step that ends no apply and sends none.
LEMMA PageTurns ==
  ASSUME IInv, Truth, UNCHANGED <<runs, outcomes>>,
         plans' = plans \/ \E x : plans' = Append(plans, x),
         IsPage(shown'), TrueOf(shown', active', plans, runs),
         shown'.phase = "starting" => shown.phase = "starting",
         Applies \subseteq tasks',
         \A t \in tasks' \ tasks :
           \/ t.kind \notin {"apply", "late", "recover"}
           \/ t.kind = "recover" /\ t.recovery # NoRecovery
  PROVE  Truth'
<1>1. /\ OwnRuns'
      /\ \A o, s : TrueOf(o, s, plans, runs) => TrueOf(o, s, plans', runs')
      /\ \A t \in tasks : OwnPlan(t) => OwnPlan(t)'
  BY TruthGrows DEF Truth
<1>2. \A s \in Sessions : TrueOf(outcomes'[s], s, plans', runs')
  BY <1>1 DEF Truth
<1>3. TrueOf(shown', active', plans', runs')
  BY <1>1
<1>4. \A t \in tasks' : OwnPlan(t)'
  <2> SUFFICES ASSUME NEW t \in tasks' PROVE OwnPlan(t)'
    OBVIOUS
  <2>1. CASE t \in tasks
    BY <1>1, <2>1 DEF Truth
  <2>2. CASE t \notin tasks
    BY <2>2 DEF OwnPlan
  <2> QED
    BY <2>1, <2>2
<1>5. shown'.phase = "starting" => Applies' # {}
  BY DEF Truth, Applies
<1> QED
  BY <1>1, <1>2, <1>3, <1>4, <1>5 DEF Truth

\* The page as it was, or with nothing but less on it.
LEMMA PageStays ==
  ASSUME IInv, Truth, UNCHANGED <<runs, outcomes, active>>,
         plans' = plans \/ \E x : plans' = Append(plans, x),
         \/ shown' = shown
         \/ shown' = QuietApply(shown)
         \/ shown' = [shown EXCEPT !.applied = 0]
         \/ shown' = QuietApply([shown EXCEPT !.applied = 0]),
         Applies \subseteq tasks',
         \A t \in tasks' \ tasks :
           \/ t.kind \notin {"apply", "late", "recover"}
           \/ t.kind = "recover" /\ t.recovery # NoRecovery
  PROVE  Truth'
<1>1. PICK p : p = shown /\ IsPage(p)
  BY DEF Truth
<1>2. PICK q : q = [p EXCEPT !.applied = 0]
  OBVIOUS
<1>3. /\ IsPage(q) /\ q.applied = 0 /\ q.recovery = p.recovery
      /\ q.phase = p.phase
  BY <1>1, <1>2, PageRewritten
<1>4. /\ IsPage(QuietApply(p)) /\ QuietApply(p).phase = "idle"
      /\ QuietApply(p).applied = p.applied
      /\ QuietApply(p).recovery = p.recovery
  BY <1>1, PageRewritten
<1>5. /\ IsPage(QuietApply(q)) /\ QuietApply(q).phase = "idle"
      /\ QuietApply(q).applied = q.applied
      /\ QuietApply(q).recovery = q.recovery
  BY <1>3, PageRewritten
<1>6. shown' = p \/ shown' = QuietApply(p) \/ shown' = q
        \/ shown' = QuietApply(q)
  BY <1>1, <1>2
<1>7. /\ IsPage(shown') /\ shown'.applied \in {0, p.applied}
      /\ shown'.recovery = p.recovery
      /\ shown'.phase = "starting" => p.phase = "starting"
  BY <1>1, <1>3, <1>4, <1>5, <1>6
<1>8. TrueOf(p, active, plans, runs)
  BY <1>1 DEF Truth
<1>9. TrueOf(shown', active', plans, runs)
  BY <1>7, <1>8 DEF TrueOf
<1> QED
  BY <1>1, <1>7, <1>9, PageTurns

LEMMA UserTurns ==
  ASSUME IInv, Truth,
         \/ Revises \/ Instruct \/ RequestApproval \/ Recover
         \/ \E s \in Sessions : SelectSession(s)
         \/ \E r \in {0} \cup candidates[active] : SetHead(r)
         \/ \E d \in {"approved", "rejected"} : Decide(d)
  PROVE  Truth'
<1>1. CASE Edit \/ Remove \/ Repropose
  <2>1. PICK ops, base : SetQueue(ops, base, head, tasks)
    BY <1>1 DEF Edit, Remove, Repropose
  <2>2. tasks \subseteq tasks' /\ \A t \in tasks' \ tasks : t.kind = "queue"
    BY <2>1, QueueSends DEF SetQueue
  <2>3. /\ UNCHANGED <<runs, outcomes, active, plans>>
        /\ shown' = QuietApply(shown)
    BY <1>1 DEF Edit, Remove, Repropose, pageVars, applyVars, runtimeVars
  <2> QED
    BY <2>2, <2>3, PageStays DEF Applies
<1>2. CASE ClearQueue
  BY <1>2, PageStays DEF ClearQueue, pageVars, applyVars, runtimeVars, Applies
<1>3. CASE Instruct
  <2> DEFINE n == [kind |-> "agent", op |-> Len(authored'),
                   owner |-> Owner(draft, head)]
  <2>1. tasks' = tasks \cup {n} /\ n.kind = "agent"
    BY <1>3 DEF Instruct
  <2> HIDE DEF n
  <2>2. UNCHANGED <<runs, outcomes, active, plans, shown>>
    BY <1>3 DEF Instruct, pageVars, applyVars, runtimeVars
  <2> QED
    BY <2>1, <2>2, PageStays DEF Applies
<1>4. CASE RequestApproval
  <2> DEFINE n == [kind |-> "request", approval |-> Len(approvals'),
                   draft |-> draft, session |-> active, head |-> head]
  <2>1. tasks' = tasks \cup {n} /\ n.kind = "request"
    BY <1>4 DEF RequestApproval
  <2> HIDE DEF n
  <2>2. UNCHANGED <<runs, outcomes, active, plans, shown>>
    BY <1>4 DEF RequestApproval, pageVars, applyVars
  <2> QED
    BY <2>1, <2>2, PageStays DEF Applies
<1>5. CASE Recover
  <2> DEFINE n == [kind |-> "recover", session |-> active,
                   recovery |-> shown.recovery, draft |-> draft,
                   approval |-> approval]
  <2>1. /\ tasks' = tasks \cup {n} /\ n.kind = "recover"
        /\ n.recovery = shown.recovery /\ n.recovery # NoRecovery
    BY <1>5 DEF Recover
  <2> HIDE DEF n
  <2>2. UNCHANGED <<runs, outcomes, active, plans, shown>>
    BY <1>5 DEF Recover, pageVars, applyVars, runtimeVars
  <2> QED
    BY <2>1, <2>2, PageStays DEF Applies
<1>6. ASSUME NEW s \in Sessions, SelectSession(s) PROVE Truth'
  <2> DEFINE n == [kind |-> "load", session |-> s]
  <2>1. tasks' = tasks \cup {n} /\ n.kind = "load"
    BY <1>6 DEF SelectSession
  <2> HIDE DEF n
  <2>2. UNCHANGED <<runs, outcomes, plans>> /\ active' = s
    BY <1>6 DEF SelectSession, applyVars, runtimeVars
  <2>3. PICK p : p = Presentation(outcomes[s])
    OBVIOUS
  <2>4. /\ IsPage(p) /\ p.applied = outcomes[s].applied
        /\ p.recovery = outcomes[s].recovery
        /\ p.phase \in {"ready", "failed", "idle"}
    BY <2>3, Presented
  <2>5. PICK q : q = [p EXCEPT !.phase = "starting"]
    OBVIOUS
  <2>6. /\ IsPage(q) /\ q.applied = p.applied /\ q.recovery = p.recovery
        /\ q.phase = "starting"
    BY <2>4, <2>5 DEF IsPage
  <2>7. shown' = IF shown.phase = "starting" THEN q ELSE p
    BY <1>6, <2>3, <2>5 DEF SelectSession
  <2>8. TrueOf(outcomes[s], s, plans, runs)
    BY DEF Truth
  <2>9. TrueOf(shown', active', plans, runs)
    BY <2>2, <2>4, <2>6, <2>7, <2>8 DEF TrueOf
  <2> QED
    BY <2>1, <2>2, <2>4, <2>6, <2>7, <2>9, PageTurns DEF Applies
<1>7. ASSUME NEW r \in {0} \cup candidates[active], SetHead(r) PROVE Truth'
  <2>1. /\ UNCHANGED <<runs, outcomes, active, plans>>
        /\ \/ shown' = QuietApply([shown EXCEPT !.applied = 0])
           \/ shown' = [shown EXCEPT !.applied = 0]
    BY <1>7 DEF SetHead, applyVars, runtimeVars
  <2>2. tasks \subseteq tasks'
    BY <1>7 DEF SetHead, SetQueue
  <2>3. \A t \in tasks' \ tasks : t.kind \in {"queue", "head"}
    <3>1. CASE r = 0 /\ draft.ops # {}
      BY <1>7, <3>1, QueueSends DEF SetHead
    <3>2. CASE ~(r = 0 /\ draft.ops # {})
      <4> DEFINE n == [kind |-> "head", run |-> r, session |-> active,
                       gen |-> headGeneration']
      <4>1. tasks' \subseteq tasks \cup {n} /\ n.kind = "head"
        BY <1>7, <3>2 DEF SetHead
      <4> HIDE DEF n
      <4> QED
        BY <4>1
    <3> QED
      BY <3>1, <3>2
  <2> QED
    BY <2>1, <2>2, <2>3, PageStays DEF Applies
<1>8. ASSUME NEW d \in {"approved", "rejected"}, Decide(d) PROVE Truth'
  <2> DEFINE n == [kind |-> "decide", decision |-> d,
                   approval |-> approval.id, plan |-> draft.plan,
                   draft |-> draft, session |-> active, head |-> head]
  <2>1. tasks' = tasks \cup {n} /\ n.kind = "decide"
    BY <1>8 DEF Decide
  <2> HIDE DEF n
  <2>2. UNCHANGED <<runs, outcomes, active, plans, shown>>
    BY <1>8 DEF Decide, pageVars, applyVars, runtimeVars
  <2> QED
    BY <2>1, <2>2, PageStays DEF Applies
<1> QED
  BY <1>1, <1>2, <1>3, <1>4, <1>5, <1>6, <1>7, <1>8 DEF Revises

LEMMA AnswersTurn ==
  ASSUME IInv, Truth, NEW t \in tasks,
         \/ Proposed(t) \/ Loaded(t) \/ HeadRead(t) \/ AgentDone(t)
         \/ Adopted(t) \/ Requested(t) \/ DecisionFails(t)
  PROVE  Truth'
<1>1. CASE Proposed(t)
  <2>1. /\ UNCHANGED <<runs, outcomes, active, shown>>
        /\ t.kind = "queue" /\ tasks' = tasks \ {t}
        /\ plans' = plans \/ \E x : plans' = Append(plans, x)
    BY <1>1 DEF Proposed, pageVars, applyVars
  <2> QED
    BY <2>1, PageStays DEF Applies
<1>2. CASE Loaded(t) \/ Requested(t) \/ DecisionFails(t)
  <2>1. /\ UNCHANGED <<runs, outcomes, active, shown, plans>>
        /\ t.kind # "apply" /\ tasks' = tasks \ {t}
    BY <1>2 DEF Loaded, Requested, DecisionFails, pageVars, applyVars,
                runtimeVars
  <2> QED
    BY <2>1, PageStays DEF Applies
<1>3. CASE HeadRead(t)
  <2>1. /\ UNCHANGED <<runs, outcomes, active, plans>> /\ t.kind = "head"
        /\ shown' = QuietApply(shown) \/ shown' = shown
    BY <1>3 DEF HeadRead, pageVars, applyVars, runtimeVars, reviewVars
  <2>2. /\ tasks \ {t} \subseteq tasks'
        /\ \A v \in tasks' \ tasks : v.kind = "queue"
    <3>1. CASE OwnsHead(t) /\ draft.ops # {}
      BY <1>3, <3>1, QueueSends DEF HeadRead, SetQueue
    <3>2. CASE ~(OwnsHead(t) /\ draft.ops # {})
      BY <1>3, <3>2 DEF HeadRead
    <3> QED
      BY <3>1, <3>2
  <2> QED
    BY <2>1, <2>2, PageStays DEF Applies
<1>4. CASE AgentDone(t)
  <2> DEFINE n == [kind |-> "adopt", owner |-> t.owner, gen |-> generation,
                   plan |-> Len(plans'),
                   approval |-> IF approvals' = approvals THEN 0
                                ELSE Len(approvals')]
  <2>1. /\ tasks \ {t} \subseteq tasks' /\ tasks' \subseteq tasks \cup {n}
        /\ n.kind = "adopt"
    BY <1>4 DEF AgentDone
  <2> HIDE DEF n
  <2>2. /\ UNCHANGED <<runs, outcomes, active, shown>> /\ t.kind = "agent"
        /\ plans' = plans \/ \E x : plans' = Append(plans, x)
    BY <1>4 DEF AgentDone, pageVars, applyVars
  <2> QED
    BY <2>1, <2>2, PageStays DEF Applies
<1>5. CASE Adopted(t)
  <2>1. /\ UNCHANGED <<runs, outcomes, active, plans>> /\ t.kind = "adopt"
        /\ shown' = QuietApply(shown) \/ shown' = shown
        /\ tasks' = tasks \ {t}
    BY <1>5 DEF Adopted, pageVars, applyVars, runtimeVars
  <2> QED
    BY <2>1, PageStays DEF Applies
<1> QED
  BY <1>1, <1>2, <1>3, <1>4, <1>5

LEMMA SendsTruly ==
  ASSUME IInv, Truth, NEW a, MayApply(a), NEW others \in SUBSET tasks,
         StartApply(a, others), UNCHANGED <<runs, outcomes, active, plans>>
  PROVE  Truth'
<1>1. PICK n : /\ tasks' = others \cup {n} /\ n.kind = "apply"
               /\ n.plan = draft.plan /\ n.session = active
  <2> DEFINE m == [kind |-> "apply", approval |-> a.id, plan |-> draft.plan,
                   draft |-> draft, session |-> active, head |-> head]
  <2>1. /\ tasks' = others \cup {m} /\ m.kind = "apply"
        /\ m.plan = draft.plan /\ m.session = active
    BY DEF StartApply
  <2> HIDE DEF m
  <2> QED
    BY <2>1
<1>2. draft.session = active /\ draft.plan # 0
  BY DEF MayApply, Bound
<1>3. OwnPlan(n)'
  BY <1>1, <1>2 DEF OwnPlan, IInv, Records
<1>4. n \in Applies'
  BY <1>1 DEF Applies
<1>5. /\ IsPage(shown') /\ shown'.applied = shown.applied
      /\ shown'.recovery = NoRecovery
  BY DEF StartApply, Truth, IsPage
<1>6. TrueOf(shown', active', plans', runs')
  BY <1>5 DEF Truth, TrueOf, NoRecovery
<1>7. \A t \in others : OwnPlan(t)'
  BY DEF Truth, OwnPlan
<1>8. OwnRuns'
  BY DEF Truth, OwnRuns
<1> QED
  <2>1. \A t \in tasks' : OwnPlan(t)'
    BY <1>1, <1>3, <1>7
  <2> QED
    BY <1>4, <1>5, <1>6, <1>8, <2>1 DEF Truth

LEMMA SentTruly ==
  ASSUME IInv, Truth, ApplyApproved \/ \E t \in tasks : Decided(t)
  PROVE  Truth'
<1>1. CASE ApplyApproved
  <2>1. /\ MayApply(approval) /\ StartApply(approval, tasks)
        /\ UNCHANGED <<runs, outcomes, active, plans>>
    BY <1>1 DEF ApplyApproved, pageVars, runtimeVars
  <2> QED
    BY <2>1, SendsTruly
<1>2. ASSUME NEW t \in tasks, Decided(t) PROVE Truth'
  <2>1. UNCHANGED <<runs, outcomes, active, plans>> /\ t.kind = "decide"
    BY <1>2 DEF Decided, pageVars
  <2>2. CASE tasks' = tasks \ {t} /\ UNCHANGED shown
    BY <2>1, <2>2, PageStays DEF Applies
  <2>3. CASE \E a : MayApply(a) /\ StartApply(a, tasks \ {t})
    BY <2>1, <2>3, SendsTruly
  <2> QED
    BY <1>2, <2>2, <2>3 DEF Decided
<1> QED
  BY <1>1, <1>2

\* The candidate of an apply is one of its own document, and of its plan.
LEMMA OwnCandidate ==
  ASSUME IInv, Truth, NEW t \in tasks, t.kind \in {"apply", "late"},
         Publishes(t), plans' = plans
  PROVE  /\ OwnRuns'
         /\ \A o, s : TrueOf(o, s, plans, runs) => TrueOf(o, s, plans', runs')
         /\ \A v \in tasks : OwnPlan(v)'
         /\ RunOf(t) \in DOMAIN runs' /\ runs'[RunOf(t)].plan = t.plan
         /\ runs'[RunOf(t)].session = t.session
<1>1. t.plan \in DOMAIN plans /\ plans[t.plan].session = t.session
  BY DEF Truth, OwnPlan
<1> DEFINE made == [session |-> t.session, plan |-> t.plan,
                    approval |-> t.approval]
<1>2. \/ runs' = runs /\ \E r \in DOMAIN runs : runs[r] = made
      \/ runs' = Append(runs, made)
  BY DEF Publishes
<1>3. /\ made.session = t.session /\ made.plan = t.plan
      /\ made.approval = t.approval
  OBVIOUS
<1> HIDE DEF made
<1>4. /\ OwnRuns'
      /\ \A o, s : TrueOf(o, s, plans, runs) => TrueOf(o, s, plans', runs')
      /\ \A v \in tasks : OwnPlan(v) => OwnPlan(v)'
  <2>1. \/ runs' = runs
        \/ \E x : /\ runs' = Append(runs, x)
                  /\ x.plan \in DOMAIN plans
                  /\ plans[x.plan].session = x.session
    BY <1>1, <1>2, <1>3
  <2> QED
    BY <2>1, TruthGrows DEF Truth
<1>5. \E r \in DOMAIN runs' : runs'[r] = made
  <2>1. CASE runs' = Append(runs, made)
    <3>1. /\ Len(runs) \in Nat /\ DOMAIN runs' = 1 .. (Len(runs) + 1)
          /\ runs'[Len(runs) + 1] = made
      BY <2>1, Appended DEF Truth, OwnRuns
    <3> QED
      BY <3>1
  <2> QED
    BY <1>2, <2>1
<1>6. \E r \in DOMAIN runs' :
        runs'[r].plan = t.plan /\ runs'[r].approval = t.approval
  BY <1>3, <1>5
<1>7. RunOf(t) \in DOMAIN runs' /\ runs'[RunOf(t)].plan = t.plan
  BY <1>6 DEF RunOf
<1>8. runs'[RunOf(t)].session = t.session
  BY <1>1, <1>4, <1>7 DEF OwnRuns
<1> QED
  BY <1>4, <1>7, <1>8 DEF Truth

\* What the page says after an apply is true of the document on it, and no
\* longer that the apply is under way.
LEMMA SaidAfterwards ==
  ASSUME IInv, Truth, NEW t, NEW inView \in BOOLEAN, t.session \in Sessions,
         inView => active = t.session, active' = active,
         \A o, s : TrueOf(o, s, plans, runs) => TrueOf(o, s, plans', runs'),
         \A s \in Sessions : TrueOf(outcomes'[s], s, plans', runs'),
         shown' = Afterwards(t, inView)
  PROVE  /\ IsPage(shown') /\ TrueOf(shown', active', plans', runs')
         /\ shown'.phase # "starting"
<1>0. active \in Sessions
  BY DEF IInv, Shapes
<1>1. CASE \/ inView
           \/ shown.phase = "starting" /\ active # t.session
  <2>1. shown' = Presentation(outcomes'[active])
    BY <1>1 DEF Afterwards
  <2>2. /\ IsPage(shown') /\ shown'.applied = outcomes'[active].applied
        /\ shown'.recovery = outcomes'[active].recovery
        /\ shown'.phase # "starting"
    BY <2>1, Presented
  <2>3. TrueOf(outcomes'[active], active, plans', runs')
    BY <1>0
  <2> QED
    BY <2>2, <2>3 DEF TrueOf
<1>2. CASE ~inView /\ shown.phase # "starting"
  BY <1>2 DEF Afterwards, Truth
<1>3. CASE ~inView /\ shown.phase = "starting" /\ active = t.session
  <2>1. PICK p : p = shown /\ IsPage(p)
    BY DEF Truth
  <2>2. shown' = [p EXCEPT !.phase = "idle"]
    BY <1>3, <2>1 DEF Afterwards
  <2>3. /\ IsPage(shown') /\ shown'.applied = p.applied
        /\ shown'.recovery = p.recovery /\ shown'.phase = "idle"
    BY <2>1, <2>2 DEF IsPage
  <2>4. TrueOf(p, active', plans', runs')
    BY <2>1 DEF Truth
  <2>5. TrueOf(shown', active', plans', runs')
    BY <2>3, <2>4 DEF TrueOf
  <2> QED
    BY <2>3, <2>5
<1> QED
  BY <1>1, <1>2, <1>3

LEMMA AppliedTruly ==
  ASSUME IInv, Truth, NEW t \in tasks, Applied(t)
  PROVE  Truth'
<1> DEFINE o == [applied |-> RunOf(t), error |-> FALSE,
                 recovery |-> NoRecovery]
           inView == /\ draft = t.draft /\ BindingExists(t)
                     /\ (active # t.session \/ head = t.head)
                     /\ active = t.session
<1>1. /\ t.kind = "apply" /\ Publishes(t) /\ UNCHANGED <<active, plans>>
      /\ outcomes' = [outcomes EXCEPT ![t.session] = o]
      /\ shown' = Afterwards(t, inView)
  BY DEF Applied
<1>2. t.session \in Sessions
  BY <1>1 DEF IInv, Waiting, Captured
<1>3. /\ OwnRuns'
      /\ \A d, s : TrueOf(d, s, plans, runs) => TrueOf(d, s, plans', runs')
      /\ \A v \in tasks : OwnPlan(v)'
      /\ RunOf(t) \in DOMAIN runs' /\ runs'[RunOf(t)].session = t.session
  BY <1>1, OwnCandidate
<1>4. /\ o.applied = RunOf(t) /\ o.recovery = NoRecovery
      /\ IsOutcome(o) /\ IsRecovery(o.recovery)
  BY DEF IsOutcome, IsRecovery, NoRecovery
<1> HIDE DEF o
<1>5. TrueOf(o, t.session, plans', runs')
  BY <1>3, <1>4 DEF TrueOf, NoRecovery
<1>6. /\ outcomes'[t.session] = o
      /\ \A s \in Sessions \ {t.session} : outcomes'[s] = outcomes[s]
  BY <1>1, <1>2, <1>4, OutcomeSet
<1>7. \A s \in Sessions : TrueOf(outcomes'[s], s, plans', runs')
  BY <1>3, <1>5, <1>6 DEF Truth
<1>8. inView \in BOOLEAN /\ (inView => active = t.session)
  OBVIOUS
<1> HIDE DEF inView
<1>9. /\ IsPage(shown') /\ TrueOf(shown', active', plans', runs')
      /\ shown'.phase # "starting"
  BY <1>1, <1>2, <1>3, <1>7, <1>8, SaidAfterwards
<1>10. \A v \in tasks' : OwnPlan(v)'
  <2>1. \A v \in tasks' \ tasks : v.kind = "load"
    BY DEF Applied
  <2> QED
    BY <1>3, <2>1 DEF OwnPlan
<1> QED
  BY <1>3, <1>7, <1>9, <1>10 DEF Truth

LEMMA FailsTruly ==
  ASSUME IInv, Truth, NEW t \in tasks, NEW lost \in BOOLEAN,
         ApplyFails(t, lost)
  PROVE  Truth'
<1> DEFINE o == [applied |-> 0, error |-> TRUE,
                 recovery |-> IF lost THEN Unknown(t) ELSE NoRecovery]
<1>1. /\ t.kind = "apply" /\ UNCHANGED <<active, plans, runs>>
      /\ outcomes' = [outcomes EXCEPT ![t.session] = o]
      /\ shown' = Afterwards(t, SameView(t))
  BY DEF ApplyFails, pageVars, runtimeVars
<1>2. t.session \in Sessions
  BY <1>1 DEF IInv, Waiting, Captured
<1>3. /\ o.applied = 0 /\ o.recovery \in {Unknown(t), NoRecovery}
      /\ IsOutcome(o) /\ IsRecovery(o.recovery)
  BY DEF IsOutcome, IsRecovery, NoRecovery, Unknown
<1> HIDE DEF o
<1>4. t.plan \in DOMAIN plans /\ plans[t.plan].session = t.session
  BY <1>1 DEF Truth, OwnPlan
<1>5. TrueOf(o, t.session, plans, runs)
  BY <1>3, <1>4 DEF TrueOf, NoRecovery, Unknown
<1>6. /\ outcomes'[t.session] = o
      /\ \A s \in Sessions \ {t.session} : outcomes'[s] = outcomes[s]
  BY <1>1, <1>2, <1>3, OutcomeSet
<1>7. \A s \in Sessions : TrueOf(outcomes'[s], s, plans', runs')
  BY <1>1, <1>5, <1>6 DEF Truth
<1>8. PICK inView \in BOOLEAN : inView = SameView(t)
  BY DEF SameView
<1>9. inView => active = t.session
  BY <1>8 DEF SameView
<1>10. /\ IsPage(shown') /\ TrueOf(shown', active', plans', runs')
       /\ shown'.phase # "starting"
  BY <1>1, <1>2, <1>7, <1>8, <1>9, SaidAfterwards
<1>11. \A v \in tasks' : OwnPlan(v)'
  <2> SUFFICES ASSUME NEW v \in tasks' PROVE OwnPlan(v)'
    OBVIOUS
  <2>1. CASE v \in tasks
    BY <1>1, <2>1 DEF Truth, OwnPlan
  <2>2. CASE v \notin tasks
    <3>1. v = [kind |-> "late", session |-> t.session, plan |-> t.plan,
               approval |-> t.approval]
      BY <2>2 DEF ApplyFails
    <3> QED
      BY <1>1, <1>4, <3>1 DEF OwnPlan
  <2> QED
    BY <2>1, <2>2
<1>12. OwnRuns'
  BY <1>1 DEF Truth, OwnRuns
<1> QED
  BY <1>7, <1>10, <1>11, <1>12 DEF Truth

LEMMA EndsLateTruly ==
  ASSUME IInv, Truth, NEW t \in tasks, LateEnd(t)
  PROVE  Truth'
<1>1. /\ t.kind = "late" /\ tasks' = tasks \ {t}
      /\ Publishes(t) \/ UNCHANGED runs
      /\ UNCHANGED <<active, plans, outcomes, shown>>
  BY DEF LateEnd, pageVars, applyVars
<1>2. CASE UNCHANGED runs
  BY <1>1, <1>2, PageStays DEF Applies
<1>3. CASE Publishes(t)
  <2>1. /\ OwnRuns'
        /\ \A o, s : TrueOf(o, s, plans, runs) => TrueOf(o, s, plans', runs')
        /\ \A v \in tasks : OwnPlan(v)'
    BY <1>1, <1>3, OwnCandidate
  <2>2. Applies \subseteq Applies'
    BY <1>1 DEF Applies
  <2>3. /\ \A s \in Sessions : TrueOf(outcomes'[s], s, plans', runs')
        /\ TrueOf(shown', active', plans', runs')
    BY <1>1, <2>1 DEF Truth
  <2> QED
    BY <1>1, <2>1, <2>2, <2>3 DEF Truth
<1> QED
  BY <1>1, <1>2, <1>3

LEMMA RecoversTruly ==
  ASSUME IInv, Truth, NEW t \in tasks, Recovered(t)
  PROVE  Truth'
<1> DEFINE found == CHOOSE r \in Proof(t) : TRUE
<1>1. /\ t.kind = "recover" /\ StillOwned(t) /\ Proof(t) # {}
      /\ tasks' = tasks \ {t}
      /\ UNCHANGED <<active, plans, runs>>
  BY DEF Recovered, runtimeVars
<1>2. /\ t.session \in Sessions /\ t.recovery # NoRecovery
      /\ t.recovery = outcomes[t.session].recovery
      /\ IsRecovery(t.recovery)
  BY <1>1 DEF IInv, Shapes, Waiting, Captured, Truth, OwnPlan, StillOwned
<1>3. found \in Proof(t)
  BY <1>1
<1>4. PICK f : f = found
  OBVIOUS
<1>5. /\ f \in DOMAIN runs /\ runs[f].session = t.session
      /\ runs[f].plan = t.recovery.plan
      /\ runs[f].approval = t.recovery.approval
  BY <1>3, <1>4 DEF Proof, RunsOf
<1>6. PICK m : m = [t.recovery EXCEPT !.outcome = "applied"]
  OBVIOUS
<1>7. PICK resolved : resolved = [m EXCEPT !.run = f]
  OBVIOUS
<1>8. PICK o : o = [applied |-> f, error |-> FALSE, recovery |-> resolved]
  OBVIOUS
<1>9. /\ outcomes' = [outcomes EXCEPT ![t.session] = o]
      /\ shown' = IF Visible(t) THEN Presentation(o) ELSE shown
  BY <1>4, <1>6, <1>7, <1>8 DEF Recovered
<1>10. /\ DOMAIN m = {"plan", "approval", "outcome", "run"}
       /\ m.plan = t.recovery.plan /\ m.approval = t.recovery.approval
       /\ m.outcome = "applied"
  BY <1>2, <1>6 DEF IsRecovery
<1>11. /\ resolved.plan = m.plan /\ resolved.approval = m.approval
       /\ resolved.outcome = "applied" /\ resolved.run = f
  BY <1>7, <1>10
<1>12. o.applied = f /\ o.recovery = resolved
  BY <1>8
<1>13. TrueOf(outcomes[t.session], t.session, plans, runs)
  BY <1>2 DEF Truth
<1>14. /\ t.recovery.plan \in DOMAIN plans
       /\ plans[t.recovery.plan].session = t.session
  BY <1>2, <1>13 DEF TrueOf
<1>15. TrueOf(o, t.session, plans, runs)
  BY <1>5, <1>10, <1>11, <1>12, <1>14 DEF TrueOf
<1>16. \A s \in Sessions :
         outcomes'[s] = IF s = t.session THEN o ELSE outcomes[s]
  BY <1>2, <1>9 DEF IInv, Shapes
<1>17. \A s \in Sessions : TrueOf(outcomes'[s], s, plans', runs')
  BY <1>1, <1>15, <1>16 DEF Truth
<1>18. /\ IsPage(shown') /\ TrueOf(shown', active', plans', runs')
       /\ shown'.phase = "starting" => shown.phase = "starting"
  <2>1. CASE Visible(t)
    <3>1. /\ IsPage(shown') /\ shown'.applied = o.applied
          /\ shown'.recovery = o.recovery /\ shown'.phase # "starting"
      BY <1>9, <2>1, Presented
    <3>2. TrueOf(o, active, plans, runs)
      BY <1>15, <2>1 DEF Visible
    <3> QED
      BY <1>1, <3>1, <3>2 DEF TrueOf
  <2>2. CASE ~Visible(t)
    BY <1>1, <1>9, <2>2 DEF Truth
  <2> QED
    BY <2>1, <2>2
<1>19. Applies' = Applies /\ \A v \in tasks' : OwnPlan(v)'
  BY <1>1 DEF Applies, Truth, OwnPlan
<1>20. OwnRuns'
  BY <1>1 DEF Truth, OwnRuns
<1> QED
  BY <1>17, <1>18, <1>19, <1>20 DEF Truth

LEMMA FindsNothingTruly ==
  ASSUME IInv, Truth, NEW t \in tasks, NotRecovered(t)
  PROVE  Truth'
<1>1. /\ t.kind = "recover" /\ tasks' = tasks \ {t}
      /\ UNCHANGED <<active, plans, runs>>
  BY DEF NotRecovered, pageVars, runtimeVars
<1>2. CASE UNCHANGED <<outcomes, shown>>
  BY <1>1, <1>2, PageStays DEF Applies
<1>3. CASE ~UNCHANGED <<outcomes, shown>>
  <2>1. t.session \in Sessions
    BY <1>1 DEF IInv, Waiting, Captured
  <2>2. PICK old : old = outcomes[t.session] /\ IsOutcome(old)
    BY <2>1 DEF IInv, Shapes
  <2>3. PICK o : o = [old EXCEPT !.error = TRUE]
    OBVIOUS
  <2>4. o.applied = old.applied /\ o.recovery = old.recovery
    BY <2>2, <2>3 DEF IsOutcome
  <2>5. \A s \in Sessions :
          outcomes'[s] = IF s = t.session THEN o ELSE outcomes[s]
    BY <1>3, <2>1, <2>2, <2>3 DEF NotRecovered, IInv, Shapes
  <2>6. TrueOf(old, t.session, plans, runs)
    BY <2>1, <2>2 DEF Truth
  <2>7. TrueOf(o, t.session, plans, runs)
    BY <2>4, <2>6 DEF TrueOf
  <2>8. \A s \in Sessions : TrueOf(outcomes'[s], s, plans', runs')
    BY <1>1, <2>5, <2>7 DEF Truth
  <2>9. PICK p : p = shown /\ IsPage(p)
    BY DEF Truth
  <2>10. PICK m : m = [p EXCEPT !.error = TRUE]
    OBVIOUS
  <2>11. PICK q : q = [m EXCEPT !.phase = "failed"]
    OBVIOUS
  <2>12. shown' = q \/ shown' = p
    BY <1>3, <2>9, <2>10, <2>11 DEF NotRecovered
  <2>13. /\ IsPage(m) /\ m.applied = p.applied /\ m.recovery = p.recovery
    BY <2>9, <2>10 DEF IsPage
  <2>14. /\ IsPage(q) /\ q.applied = m.applied /\ q.recovery = m.recovery
         /\ q.phase = "failed"
    BY <2>11, <2>13 DEF IsPage
  <2>15. TrueOf(p, active, plans, runs)
    BY <2>9 DEF Truth
  <2>16. TrueOf(q, active, plans, runs)
    BY <2>13, <2>14, <2>15 DEF TrueOf
  <2>17. /\ IsPage(shown') /\ TrueOf(shown', active', plans', runs')
         /\ shown'.phase = "starting" => shown.phase = "starting"
    BY <1>1, <2>9, <2>12, <2>14, <2>15, <2>16
  <2>18. Applies' = Applies /\ \A v \in tasks' : OwnPlan(v)'
    BY <1>1 DEF Applies, Truth, OwnPlan
  <2>19. OwnRuns'
    BY <1>1 DEF Truth, OwnRuns
  <2> QED
    BY <2>8, <2>17, <2>18, <2>19 DEF Truth
<1> QED
  BY <1>2, <1>3

LEMMA TruthHolds == Spec => []Truth
<1>1. IInv /\ Truth /\ [Next]_vars => Truth'
  <2> SUFFICES ASSUME IInv, Truth, [Next]_vars PROVE Truth'
    OBVIOUS
  <2>1. CASE Revises
    BY <2>1, UserTurns
  <2>2. CASE Chooses
    BY <2>2, UserTurns, SentTruly DEF Chooses
  <2>3. CASE Answer
    BY <2>3, AnswersTurn, SentTruly, AppliedTruly, FailsTruly, EndsLateTruly,
       RecoversTruly, FindsNothingTruly DEF Answer
  <2>4. CASE UNCHANGED vars
    <3>1. UNCHANGED <<runs, outcomes, active, plans, shown, tasks>>
      BY <2>4 DEF vars, pageVars, applyVars, runtimeVars
    <3> QED
      BY <3>1, PageStays DEF Applies
  <2> QED
    BY <2>1, <2>2, <2>3, <2>4 DEF Next
<1> QED
  BY <1>1, InitTruth, Invariant, PTL DEF Spec

\* What a document is said to have become is its own candidate, proven where
\* it was recovered, wherever the user has been since, and the page says that
\* an apply is under way only while one is (applyApproved, resolveRecovery,
\* applyPresentation, selectSession).
THEOREM OutcomesAreOwn == Spec => []OutcomeIsOwn
<1>1. Truth /\ IInv => OutcomeIsOwn
  <2> SUFFICES ASSUME Truth, IInv PROVE OutcomeIsOwn
    OBVIOUS
  <2>1. \A o, s : TrueOf(o, s, plans, runs) =>
          /\ o.applied # 0 => IsRunOf(o.applied, s)
          /\ RecoveryIsProven(o, s)
    BY DEF TrueOf, IsRunOf, RecoveryIsProven
  <2> QED
    BY <2>1 DEF Truth, OutcomeIsOwn
<1> QED
  BY <1>1, TruthHolds, Invariant, PTL

-----------------------------------------------------------------------------
(* Whose operations are in the queue                                       *)

\* What an agent was asked for is newer than the queue it was asked beside.
Newer(n, ops) == n \in AgentOps /\ \A m \in ops : m < n
AskedLater(t) ==
  /\ t.kind = "agent" => Newer(t.op, t.owner.draft.ops)
  /\ t.kind = "adopt" =>
       \E n : plans[t.plan].ops = {n} /\ Newer(n, t.owner.draft.ops)

Intent ==
  /\ IsSequence(authored)
  /\ draft.ops \subseteq DOMAIN authored
  /\ \A t \in tasks : AskedLater(t)

\* A step of which Intent survives: operations are only authored, plans only
\* recorded, and what is new knows its place.
LEMMA IntentGrows ==
  ASSUME IInv, Intent,
         authored' = authored \/ \E x : authored' = Append(authored, x),
         plans' = plans \/ \E x : plans' = Append(plans, x),
         draft'.ops \subseteq DOMAIN authored',
         \A t \in tasks' \ tasks : AskedLater(t)'
  PROVE  Intent'
<1>1. /\ IsSequence(authored') /\ DOMAIN authored \subseteq DOMAIN authored'
      /\ \A n \in DOMAIN authored : authored'[n] = authored[n]
  <2>1. CASE authored' = authored
    BY <2>1 DEF Intent
  <2>2. ASSUME NEW x, authored' = Append(authored, x)
        PROVE  /\ IsSequence(authored')
               /\ DOMAIN authored \subseteq DOMAIN authored'
               /\ \A n \in DOMAIN authored : authored'[n] = authored[n]
    <3>1. /\ IsSequence(authored') /\ Len(authored) \in Nat
          /\ DOMAIN authored = 1 .. Len(authored)
          /\ DOMAIN authored' = 1 .. (Len(authored) + 1)
          /\ \A n \in DOMAIN authored : authored'[n] = authored[n]
      BY <2>2, Appended DEF Intent
    <3>2. DOMAIN authored \subseteq DOMAIN authored'
      BY <3>1
    <3> QED
      BY <3>1, <3>2
  <2> QED
    BY <2>1, <2>2
<1>2. \A p \in DOMAIN plans : plans'[p] = plans[p]
  BY PlanAdded
<1>3. ASSUME NEW t \in tasks PROVE AskedLater(t)'
  <2>1. AgentOps \subseteq AgentOps'
    BY <1>1 DEF AgentOps
  <2>2. AskedLater(t) /\ Captured(t)
    BY DEF Intent, IInv, Waiting
  <2> QED
    BY <1>2, <2>1, <2>2 DEF AskedLater, Newer, Captured
<1> QED
  BY <1>1, <1>3 DEF Intent

\* The queue as it was.
LEMMA IntentStays ==
  ASSUME IInv, Intent, authored' = authored, draft'.ops \subseteq draft.ops,
         plans' = plans \/ \E x : plans' = Append(plans, x),
         \A t \in tasks' \ tasks : t.kind \notin {"agent", "adopt"}
  PROVE  Intent'
<1>1. \A t \in tasks' \ tasks : AskedLater(t)'
  BY DEF AskedLater
<1> QED
  BY <1>1, IntentGrows DEF Intent

LEMMA SameOpsKeepIntent ==
  ASSUME draft'.ops = draft.ops
  PROVE  KeepsIntent
  BY DEF KeepsIntent

LEMMA QueueHas ==
  ASSUME NEW ops, NEW base, NEW h, NEW others, SetQueue(ops, base, h, others)
  PROVE  draft'.ops = ops
  BY DEF SetQueue, EmptyDraft, Proposing

LEMMA Authored ==
  ASSUME Intent, NEW agent, authored' = Authors(agent)
  PROVE  /\ \E x : authored' = Append(authored, x)
         /\ DOMAIN authored \subseteq DOMAIN authored'
         /\ Len(authored') \in DOMAIN authored'
         /\ authored'[Len(authored')].agent = agent
         /\ \A n \in DOMAIN authored : n < Len(authored')
<1> DEFINE x == [session |-> active, agent |-> agent]
<1>1. authored' = Append(authored, x) /\ x.agent = agent
  BY DEF Authors
<1> HIDE DEF x
<1>2. /\ Len(authored) \in Nat /\ DOMAIN authored = 1 .. Len(authored)
      /\ Len(authored') = Len(authored) + 1
      /\ DOMAIN authored' = 1 .. (Len(authored) + 1)
      /\ authored'[Len(authored) + 1] = x
  BY <1>1, Appended DEF Intent
<1>3. \A n \in DOMAIN authored : n < Len(authored')
  BY <1>2
<1>4. DOMAIN authored \subseteq DOMAIN authored'
  BY <1>2
<1>5. Len(authored') \in DOMAIN authored'
  BY <1>2
<1> QED
  BY <1>1, <1>2, <1>3, <1>4, <1>5

\* What the user does to the queue.
LEMMA RevisionsKeepIntent ==
  ASSUME IInv, Intent, Revises
  PROVE  Intent'
<1>1. CASE Edit
  <2>1. PICK base \in {ChainedBase, 0} \cup candidates[active],
             old \in {{}} \cup {{n} : n \in draft.ops} :
          SetQueue((draft.ops \ old) \cup {Len(authored')}, base, head, tasks)
    BY <1>1 DEF Edit
  <2>2. draft'.ops = (draft.ops \ old) \cup {Len(authored')}
    BY <2>1, QueueHas
  <2>3. \A t \in tasks' \ tasks : t.kind = "queue"
    BY <2>1, QueueSends
  <2>4. authored' = Authors(FALSE) /\ plans' = plans
    BY <1>1 DEF Edit, runtimeVars
  <2>5. /\ \E x : authored' = Append(authored, x)
        /\ DOMAIN authored \subseteq DOMAIN authored'
        /\ Len(authored') \in DOMAIN authored'
    BY <2>4, Authored
  <2>6. draft'.ops \subseteq DOMAIN authored'
    BY <2>2, <2>5 DEF Intent
  <2>7. \A t \in tasks' \ tasks : AskedLater(t)'
    BY <2>3 DEF AskedLater
  <2> QED
    BY <2>4, <2>5, <2>6, <2>7, IntentGrows
<1>2. CASE Remove \/ Repropose
  <2>1. PICK ops, base : /\ SetQueue(ops, base, head, tasks)
                         /\ ops \subseteq draft.ops
    BY <1>2 DEF Remove, Repropose
  <2>2. draft'.ops = ops /\ \A t \in tasks' \ tasks : t.kind = "queue"
    BY <2>1, QueueHas, QueueSends
  <2>3. UNCHANGED <<authored, plans>>
    BY <1>2 DEF Remove, Repropose, historyVars, runtimeVars
  <2> QED
    BY <2>1, <2>2, <2>3, IntentStays
<1>3. CASE ClearQueue
  <2>1. draft'.ops = {} /\ UNCHANGED <<authored, plans, tasks>>
    BY <1>3 DEF ClearQueue, EmptyDraft, historyVars, runtimeVars
  <2> QED
    BY <2>1, IntentStays
<1> QED
  BY <1>1, <1>2, <1>3 DEF Revises

\* What else the user does leaves the queue as it is.
LEMMA ChoicesKeepIntent ==
  ASSUME IInv, Intent, Chooses
  PROVE  Intent' /\ KeepsIntent
<1>1. ASSUME NEW s \in Sessions, SelectSession(s)
      PROVE  Intent' /\ KeepsIntent
  <2>1. /\ UNCHANGED <<authored, plans, draft>>
        /\ \A t \in tasks' \ tasks : t.kind = "load"
    BY <1>1 DEF SelectSession, historyVars, runtimeVars, reviewVars
  <2> QED
    BY <2>1, IntentStays, SameOpsKeepIntent
<1>2. ASSUME NEW r \in {0} \cup candidates[active], SetHead(r)
      PROVE  Intent' /\ KeepsIntent
  <2>1. UNCHANGED <<authored, plans>>
    BY <1>2 DEF SetHead, historyVars, runtimeVars
  <2>2. /\ draft'.ops = draft.ops
        /\ \A t \in tasks' \ tasks : t.kind \in {"queue", "head"}
    <3>1. CASE r = 0 /\ draft.ops # {}
      BY <1>2, <3>1, QueueSends, QueueHas DEF SetHead
    <3>2. CASE ~(r = 0 /\ draft.ops # {})
      <4> DEFINE n == [kind |-> "head", run |-> r, session |-> active,
                       gen |-> headGeneration']
      <4>1. tasks' \subseteq tasks \cup {n} /\ n.kind = "head"
        BY <1>2, <3>2 DEF SetHead
      <4> HIDE DEF n
      <4>2. draft' = draft
        BY <1>2, <3>2 DEF SetHead, reviewVars
      <4> QED
        BY <4>1, <4>2
    <3> QED
      BY <3>1, <3>2
  <2> QED
    BY <2>1, <2>2, IntentStays, SameOpsKeepIntent
<1>3. CASE Instruct
  <2>1. PICK n : /\ tasks' = tasks \cup {n} /\ n.kind = "agent"
                 /\ n.op = Len(authored') /\ n.owner.draft = draft
    <3> DEFINE m == [kind |-> "agent", op |-> Len(authored'),
                     owner |-> Owner(draft, head)]
    <3>1. /\ tasks' = tasks \cup {m} /\ m.kind = "agent"
          /\ m.op = Len(authored') /\ m.owner.draft = draft
      BY <1>3 DEF Instruct, Owner
    <3> HIDE DEF m
    <3> QED
      BY <3>1
  <2>2. UNCHANGED <<plans, draft>> /\ authored' = Authors(TRUE)
    BY <1>3 DEF Instruct, reviewVars, runtimeVars
  <2>3. /\ \E x : authored' = Append(authored, x)
        /\ DOMAIN authored \subseteq DOMAIN authored'
        /\ Len(authored') \in DOMAIN authored'
        /\ authored'[Len(authored')].agent = TRUE
        /\ \A m \in DOMAIN authored : m < Len(authored')
    BY <2>2, Authored
  <2>4. Len(authored') \in AgentOps'
    BY <2>3 DEF AgentOps
  <2>5. \A m \in draft.ops : m < Len(authored')
    BY <2>3 DEF Intent
  <2>6. AskedLater(n)'
    BY <2>1, <2>4, <2>5 DEF AskedLater, Newer
  <2>7. draft'.ops \subseteq DOMAIN authored'
    BY <2>2, <2>3 DEF Intent
  <2> QED
    BY <2>1, <2>2, <2>3, <2>6, <2>7, IntentGrows, SameOpsKeepIntent
<1>4. CASE RequestApproval
  <2> DEFINE n == [kind |-> "request", approval |-> Len(approvals'),
                   draft |-> draft, session |-> active, head |-> head]
  <2>1. tasks' = tasks \cup {n} /\ n.kind = "request"
    BY <1>4 DEF RequestApproval
  <2> HIDE DEF n
  <2>2. UNCHANGED <<authored, plans, draft>>
    BY <1>4 DEF RequestApproval, historyVars
  <2> QED
    BY <2>1, <2>2, IntentStays, SameOpsKeepIntent
<1>5. CASE ApplyApproved
  <2> DEFINE n == [kind |-> "apply", approval |-> approval.id,
                   plan |-> draft.plan, draft |-> draft,
                   session |-> active, head |-> head]
  <2>1. tasks' = tasks \cup {n} /\ n.kind = "apply"
    BY <1>5 DEF ApplyApproved, StartApply
  <2> HIDE DEF n
  <2>2. UNCHANGED <<authored, plans, draft>>
    BY <1>5 DEF ApplyApproved, historyVars, runtimeVars, reviewVars
  <2> QED
    BY <2>1, <2>2, IntentStays, SameOpsKeepIntent
<1>6. CASE Recover
  <2> DEFINE n == [kind |-> "recover", session |-> active,
                   recovery |-> shown.recovery, draft |-> draft,
                   approval |-> approval]
  <2>1. tasks' = tasks \cup {n} /\ n.kind = "recover"
    BY <1>6 DEF Recover
  <2> HIDE DEF n
  <2>2. UNCHANGED <<authored, plans, draft>>
    BY <1>6 DEF Recover, historyVars, runtimeVars, reviewVars
  <2> QED
    BY <2>1, <2>2, IntentStays, SameOpsKeepIntent
<1>7. ASSUME NEW d \in {"approved", "rejected"}, Decide(d)
      PROVE  Intent' /\ KeepsIntent
  <2> DEFINE n == [kind |-> "decide", decision |-> d,
                   approval |-> approval.id, plan |-> draft.plan,
                   draft |-> draft, session |-> active, head |-> head]
  <2>1. tasks' = tasks \cup {n} /\ n.kind = "decide"
    BY <1>7 DEF Decide
  <2> HIDE DEF n
  <2>2. UNCHANGED <<authored, plans, draft>>
    BY <1>7 DEF Decide, runtimeVars
  <2> QED
    BY <2>1, <2>2, IntentStays, SameOpsKeepIntent
<1> QED
  BY <1>1, <1>2, <1>3, <1>4, <1>5, <1>6, <1>7 DEF Chooses

\* An answer that changes neither the queue nor what agents wait for.
LEMMA PlainAnswersKeepIntent ==
  ASSUME IInv, Intent, NEW t \in tasks,
         \/ Loaded(t) \/ HeadRead(t) \/ Requested(t) \/ Decided(t)
         \/ DecisionFails(t) \/ (\E lost \in BOOLEAN : ApplyFails(t, lost))
         \/ LateEnd(t) \/ NotRecovered(t)
  PROVE  Intent' /\ KeepsIntent
<1>1. UNCHANGED <<authored, plans>>
  BY DEF Loaded, HeadRead, Requested, Decided, DecisionFails, ApplyFails,
         LateEnd, NotRecovered, historyVars, runtimeVars
<1>2. draft'.ops = draft.ops
  <2>1. CASE HeadRead(t)
    BY <2>1, QueueHas DEF HeadRead, reviewVars
  <2>2. CASE \/ Loaded(t) \/ Requested(t) \/ Decided(t) \/ DecisionFails(t)
             \/ (\E lost \in BOOLEAN : ApplyFails(t, lost))
             \/ LateEnd(t) \/ NotRecovered(t)
    BY <2>2 DEF Loaded, Requested, Decided, DecisionFails, ApplyFails,
                LateEnd, NotRecovered, reviewVars
  <2> QED
    BY <2>1, <2>2
<1>3. \A v \in tasks' \ tasks : v.kind \in {"queue", "apply", "late"}
  <2>1. CASE HeadRead(t)
    BY <2>1, QueueSends DEF HeadRead
  <2>2. CASE Decided(t)
    <3>1. PICK a : tasks' \subseteq tasks \cup
                     {[kind |-> "apply", approval |-> a.id,
                       plan |-> draft.plan, draft |-> draft,
                       session |-> active, head |-> head]}
      BY <2>2 DEF Decided, StartApply
    <3> QED
      BY <3>1
  <2>3. CASE \E lost \in BOOLEAN : ApplyFails(t, lost)
    BY <2>3 DEF ApplyFails
  <2>4. CASE \/ Loaded(t) \/ Requested(t) \/ DecisionFails(t)
             \/ LateEnd(t) \/ NotRecovered(t)
    BY <2>4 DEF Loaded, Requested, DecisionFails, LateEnd, NotRecovered
  <2> QED
    BY <2>1, <2>2, <2>3, <2>4
<1> QED
  BY <1>1, <1>2, <1>3, IntentStays, SameOpsKeepIntent

LEMMA ProposalKeepsIntent ==
  ASSUME IInv, Intent, NEW t \in tasks, Proposed(t)
  PROVE  Intent' /\ KeepsIntent
<1>1. /\ authored' = authored /\ tasks' = tasks \ {t}
      /\ plans' = plans \/ \E x : plans' = Append(plans, x)
  BY DEF Proposed, historyVars
<1>2. draft'.ops = draft.ops
  <2>1. CASE ~Fresh(t)
    BY <2>1 DEF Proposed
  <2>2. CASE Fresh(t)
    <3>1. t.owner.draft = draft /\ IsDraft(draft)
      BY <2>2 DEF Fresh, OwnsDraft, Owner, IInv, Shapes
    <3>2. PICK m : m = [draft EXCEPT !.phase = "failed"]
      OBVIOUS
    <3>3. PICK q : q = [draft EXCEPT !.plan = Len(plans')]
      OBVIOUS
    <3>4. PICK r : r = [q EXCEPT !.phase = "ready"]
      OBVIOUS
    <3>5. m.ops = draft.ops /\ q.ops = draft.ops /\ "ops" \in DOMAIN q
      BY <3>1, <3>2, <3>3 DEF IsDraft
    <3>6. r.ops = draft.ops
      BY <3>4, <3>5
    <3>7. draft' = m \/ draft' = r
      BY <2>2, <3>1, <3>2, <3>3, <3>4 DEF Proposed
    <3> QED
      BY <3>5, <3>6, <3>7
  <2> QED
    BY <2>1, <2>2
<1> QED
  BY <1>1, <1>2, IntentStays, SameOpsKeepIntent

LEMMA AgentKeepsIntent ==
  ASSUME IInv, Intent, NEW t \in tasks, AgentDone(t)
  PROVE  Intent' /\ KeepsIntent
<1>1. UNCHANGED <<authored, draft>> /\ t.kind = "agent"
  BY DEF AgentDone, historyVars, reviewVars
<1>2. CASE tasks' = tasks \ {t} /\ UNCHANGED plans
  BY <1>1, <1>2, IntentStays, SameOpsKeepIntent
<1>3. CASE ~(tasks' = tasks \ {t} /\ UNCHANGED plans)
  <2>1. PICK base :
          plans' = Append(plans, [session |-> t.owner.session,
                                  ops |-> {t.op}, base |-> base])
    BY <1>3 DEF AgentDone
  <2> DEFINE x == [session |-> t.owner.session, ops |-> {t.op},
                   base |-> base]
  <2>2. plans' = Append(plans, x) /\ x.ops = {t.op}
    BY <2>1
  <2> HIDE DEF x
  <2>3. plans'[Len(plans')].ops = {t.op}
    BY <2>2, PlanAdded
  <2>4. PICK new : /\ new.kind = "adopt" /\ new.owner = t.owner
                   /\ new.plan = Len(plans')
                   /\ tasks' = (tasks \ {t}) \cup {new}
    <3> DEFINE n == [kind |-> "adopt", owner |-> t.owner, gen |-> generation,
                     plan |-> Len(plans'),
                     approval |-> IF approvals' = approvals THEN 0
                                  ELSE Len(approvals')]
    <3>1. /\ n.kind = "adopt" /\ n.owner = t.owner /\ n.plan = Len(plans')
          /\ tasks' = (tasks \ {t}) \cup {n}
      BY <1>3 DEF AgentDone
    <3> HIDE DEF n
    <3> QED
      BY <3>1
  <2>5. Newer(t.op, t.owner.draft.ops)
    BY <1>1 DEF Intent, AskedLater
  <2>6. Newer(t.op, t.owner.draft.ops)'
    BY <1>1, <2>5 DEF Newer, AgentOps
  <2>7. AskedLater(new)'
    BY <2>3, <2>4, <2>6 DEF AskedLater, Newer
  <2>8. draft'.ops \subseteq DOMAIN authored'
    BY <1>1 DEF Intent
  <2>9. \A v \in tasks' \ tasks : AskedLater(v)'
    BY <2>4, <2>7
  <2> QED
    BY <1>1, <2>2, <2>8, <2>9, IntentGrows, SameOpsKeepIntent
<1> QED
  BY <1>2, <1>3

\* What is adopted was asked for after all that it takes the place of.
LEMMA AdoptionKeepsIntent ==
  ASSUME IInv, Intent, NEW t \in tasks, Adopted(t)
  PROVE  Intent' /\ KeepsIntent
<1>1. /\ UNCHANGED <<authored, plans>> /\ tasks' = tasks \ {t}
      /\ t.kind = "adopt"
  BY DEF Adopted, historyVars, runtimeVars
<1>2. CASE ~OwnsFence(t)
  BY <1>1, <1>2, IntentStays, SameOpsKeepIntent DEF Adopted
<1>3. CASE OwnsFence(t)
  <2>1. PICK n : /\ plans[t.plan].ops = {n} /\ n \in AgentOps
                 /\ \A m \in t.owner.draft.ops : m < n
    BY <1>1 DEF Intent, AskedLater, Newer
  <2>2. t.owner.draft = draft /\ draft'.ops = {n}
    BY <1>3, <2>1 DEF Adopted, OwnsFence, OwnsDraft, Owner
  <2>3. n \in DOMAIN authored
    BY <2>1 DEF AgentOps
  <2>4. DOMAIN authored \subseteq Nat
    <3>1. Len(authored) \in Nat /\ DOMAIN authored = 1 .. Len(authored)
      BY Appended DEF Intent
    <3> QED
      BY <3>1
  <2>5. n \notin draft.ops
    BY <2>1, <2>2, <2>3, <2>4
  <2>6. KeepsIntent
    BY <2>1, <2>2, <2>5 DEF KeepsIntent
  <2>7. Intent'
    BY <1>1, <2>2, <2>3, IntentGrows
  <2> QED
    BY <2>6, <2>7
<1> QED
  BY <1>2, <1>3

\* The queue is gone, for a candidate of its plan is there.
LEMMA ConsumedKeepsIntent ==
  ASSUME IInv, NEW r \in DOMAIN runs', plans' = plans, draft'.ops = {},
         runs'[r].plan = draft.plan, draft.plan # 0
  PROVE  KeepsIntent
<1>1. plans[runs'[r].plan].ops = draft.ops
  BY DEF IInv, Records
<1>2. draft.ops \subseteq AppliedOps
  BY <1>1 DEF AppliedOps
<1> QED
  BY <1>2 DEF KeepsIntent

LEMMA CandidatesKeepIntent ==
  ASSUME IInv, Truth, Intent, NEW t \in tasks, Applied(t) \/ Recovered(t)
  PROVE  Intent' /\ KeepsIntent
<1>1. UNCHANGED <<authored, plans>>
  BY DEF Applied, Recovered, historyVars, runtimeVars
<1>2. \A v \in tasks' \ tasks : v.kind = "load"
  BY DEF Applied, Recovered
<1>3. CASE draft' = draft
  BY <1>1, <1>2, <1>3, IntentStays, SameOpsKeepIntent
<1>4. CASE draft' # draft
  <2>1. draft'.ops = {}
    BY <1>4 DEF Applied, Recovered, EmptyDraft
  <2>2. Intent'
    BY <1>1, <1>2, <2>1, IntentStays
  <2>3. CASE Applied(t)
    <3>1. t.kind = "apply" /\ Publishes(t) /\ draft.plan = t.plan
      BY <1>4, <2>3 DEF Applied, BindingExists
    <3>2. /\ RunOf(t) \in DOMAIN runs' /\ runs'[RunOf(t)].plan = t.plan
          /\ t.plan # 0
      BY <1>1, <3>1, OwnCandidate, PlanNumbers DEF Applies
    <3> QED
      BY <1>1, <2>1, <2>2, <3>1, <3>2, ConsumedKeepsIntent
  <2>4. CASE Recovered(t)
    <3>1. /\ runs' = runs /\ draft.plan = t.recovery.plan
          /\ Proof(t) # {}
      BY <1>4, <2>4 DEF Recovered, runtimeVars
    <3>2. PICK r \in Proof(t) : TRUE
      BY <3>1
    <3>3. r \in DOMAIN runs /\ runs[r].plan = t.recovery.plan
      BY <3>2 DEF Proof, RunsOf
    <3>4. draft.plan # 0
      BY <3>1, <3>3, PlanNumbers DEF Truth, OwnRuns
    <3> QED
      BY <1>1, <2>1, <2>2, <3>1, <3>3, <3>4, ConsumedKeepsIntent
  <2> QED
    BY <2>3, <2>4
<1> QED
  BY <1>3, <1>4

LEMMA IntentStep ==
  ASSUME IInv, Truth, Intent, [Next]_vars
  PROVE  Intent' /\ (Revises \/ KeepsIntent \/ UNCHANGED vars)
<1>1. CASE Revises
  BY <1>1, RevisionsKeepIntent
<1>2. CASE Chooses
  BY <1>2, ChoicesKeepIntent
<1>3. CASE Answer
  BY <1>3, PlainAnswersKeepIntent, ProposalKeepsIntent, AgentKeepsIntent,
     AdoptionKeepsIntent, CandidatesKeepIntent DEF Answer
<1>4. CASE UNCHANGED vars
  <2>1. UNCHANGED <<authored, plans, draft, tasks>>
    BY <1>4 DEF vars, historyVars, runtimeVars, reviewVars
  <2> QED
    BY <1>4, <2>1, IntentStays
<1> QED
  BY <1>1, <1>2, <1>3, <1>4 DEF Next

\* Only the user takes an operation out of the queue: an answer does so when
\* a candidate contains it or when it brings what an agent was asked for
\* later, and it brings nothing back (setQueue, adoptAgentPlan, applyApproved,
\* resolveRecovery).
THEOREM NewerWins == Spec => NewerIntentWins
<1>1. Init => Intent
  <2> SUFFICES ASSUME Init PROVE Intent
    OBVIOUS
  <2>1. authored = << >> /\ tasks = {} /\ draft = EmptyDraft
    BY DEF Init
  <2>2. authored \in Seq({})
    BY <2>1, EmptySeq
  <2>3. draft.ops = {}
    BY <2>1 DEF EmptyDraft
  <2> QED
    BY <2>1, <2>2, <2>3 DEF Intent, IsSequence
<1>2. IInv /\ Truth /\ Intent /\ [Next]_vars => Intent'
  BY IntentStep
<1>3. IInv /\ Truth /\ Intent /\ [Next]_vars =>
        [Revises \/ KeepsIntent]_vars
  BY IntentStep
<1> QED
  BY <1>1, <1>2, <1>3, TruthHolds, Invariant, PTL DEF NewerIntentWins, Spec

=============================================================================
