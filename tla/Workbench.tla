----------------------------- MODULE Workbench ------------------------------
(***************************************************************************)
(* The desktop workbench between a keystroke and a candidate: the queue of *)
(* operations, the plan proposed for it, its approval, the apply and its   *)
(* recovery after a lost answer (actions.ts, store.ts, reviewSummary.ts).  *)
(*                                                                         *)
(* The page runs one turn at a time, and every await is a place where      *)
(* anything else may happen: an exported function is an action up to its   *)
(* await, which leaves a task with what the function captured, and one     *)
(* action for each way the await may end.  Answers arrive in any order.    *)
(* Two awaits with the same checks after them are one.                     *)
(*                                                                         *)
(* Left out: text, geometry and rendering, the redo stack, the inverse     *)
(* proposal of proposeUndoOf and the proof of it.  A refused validation    *)
(* counts as a refused proposal: neither can be approved.  Of the runtime  *)
(* only plans, approvals and candidates: an apply whose answer is lost may *)
(* still publish later (ApplyOnce says that it does so once).              *)
(*                                                                         *)
(* Objects are values here.  A draft carries the generation it was made    *)
(* in and its plan, by which two objects always differ, save EMPTY_DRAFT,  *)
(* which is one object in the code as well.  0 stands for no plan, no      *)
(* approval, no run.                                                       *)
(*                                                                         *)
(* Bounds: MaxOps edits and instructions, MaxQueues queues, MaxApprovals   *)
(* approvals, MaxRuns candidates, MaxHeads choices of a head, MaxTasks     *)
(* functions that wait before the user starts another.                     *)
(***************************************************************************)
EXTENDS Integers, Sequences, FiniteSetsExt

CONSTANTS Sessions, First, None, MaxOps, MaxQueues, MaxApprovals, MaxRuns,
          MaxHeads, MaxTasks

ASSUME FirstAssumption == First \in Sessions
ASSUME NoneAssumption == None \notin Sessions
ASSUME BoundsAssumption ==
  {MaxOps, MaxQueues, MaxApprovals, MaxRuns, MaxHeads,
   MaxTasks} \subseteq Nat

VARIABLES
  active,         \* activeSessionId
  head,           \* the run the user stands on: one hint for all sessions
  candidates,     \* the lists of candidates the shell has, by session
  draft,          \* the queue and its plan
  generation,     \* _planGeneration
  headGeneration, \* headSelectionGeneration
  approval,       \* the approval of the draft's plan, as the shell knows it
  approvalPhase,
  inFlight,       \* applyInFlight
  outcomes,       \* applyOutcomes: the last apply of each session
  shown,          \* what the page says: applied, applyError, recovery, phase
  tasks,          \* functions that wait for an answer
  plans, approvals, runs,  \* the records of the runtime
  authored,       \* where each operation was typed, and whether by an agent
  consent,        \* what was on screen when the user approved
  unsure          \* applies sent whose answer was lost

reviewVars == <<draft, generation, approval, approvalPhase>>
applyVars == <<inFlight, outcomes, unsure>>
runtimeVars == <<plans, approvals, runs>>
pageVars == <<active, head, candidates, headGeneration>>
historyVars == <<authored, consent>>
vars == <<pageVars, reviewVars, applyVars, shown, tasks, runtimeVars,
          historyVars>>

EmptyDraft == [ops |-> {}, session |-> None, base |-> 0, plan |-> 0,
               phase |-> "idle", gen |-> 0]
NoApproval == [id |-> 0, plan |-> 0, state |-> "none"]
NoRecovery == [plan |-> 0, approval |-> 0, outcome |-> "none", run |-> 0]
NoOutcome == [applied |-> 0, error |-> FALSE, recovery |-> NoRecovery]

\* applyPresentation
Presentation(o) ==
  [applied |-> o.applied, error |-> o.error, recovery |-> o.recovery,
   phase |-> IF o.applied # 0 THEN "ready"
             ELSE IF o.error THEN "failed" ELSE "idle"]

Init ==
  /\ active = First /\ head = 0 /\ headGeneration = 0
  /\ candidates = [s \in Sessions |-> {}]
  /\ draft = EmptyDraft /\ generation = 0
  /\ approval = NoApproval /\ approvalPhase = "idle"
  /\ inFlight = FALSE /\ outcomes = [s \in Sessions |-> NoOutcome]
  /\ shown = Presentation(NoOutcome)
  /\ tasks = {}
  /\ plans = << >> /\ approvals = << >> /\ runs = << >>
  /\ authored = << >> /\ consent = {} /\ unsure = {}

-----------------------------------------------------------------------------
(* What the code reads off the state                                       *)

RunsOf(s) == {r \in DOMAIN runs : runs[r].session = s}

\* headCandidate with h chosen: that row, or the last one in lineage order,
\* which is found by going down to the last child from the roots.
HeadCandidate(h) ==
  LET rows == candidates[active]
      Base(r) == plans[runs[r].plan].base
      Parent(r) == IF Base(r) \in rows THEN Base(r) ELSE 0
      last[r \in {0} \cup rows] ==
        LET below == {c \in rows : Parent(c) = r}
        IN  IF below = {} THEN r ELSE last[Max(below)]
  IN  IF h \in rows THEN h ELSE last[0]

\* captureDraftOwner of a draft, ownsDraft
Owner(d, h) == [draft |-> d, session |-> active, head |-> HeadCandidate(h)]
OwnsDraft(o) == o = Owner(draft, head)

\* draftStaleness: no hash is bound before there is a plan
Stale == draft.ops # {} /\ draft.plan # 0 /\ draft.session # active

\* A head chosen in this document that the plan does not build on.
LeftBehind_Never == FALSE
LeftBehind == head \in candidates[active] /\ draft.base # head

\* activeApprovalBinding is not null
Bound(a) ==
  /\ draft.session = active /\ draft.plan # 0
  /\ ~LeftBehind
  /\ a.plan = draft.plan
  /\ ~Stale

\* approvalBindingStillExists
BindingExists(t) ==
  /\ draft.session = t.session /\ draft.plan = t.plan
  /\ approval.id = t.approval /\ approval.plan = t.plan

\* The view a decision was made in is still there: the conditions of
\* resolveApprovalDecision for applying at once.
SameView(t) == draft = t.draft /\ head = t.head /\ active = t.session

-----------------------------------------------------------------------------
(* The queue                                                               *)

\* What setQueue leaves on screen while a plan is proposed.
Proposing(ops, base) ==
  [ops |-> ops, session |-> active, base |-> base, plan |-> 0,
   phase |-> "starting", gen |-> generation + 1]

\* setQueue up to its first await, standing on head h.
SetQueue(ops, base, h, others) ==
  /\ generation < MaxQueues /\ generation' = generation + 1
  /\ approval' = NoApproval /\ approvalPhase' = "idle"
  /\ draft' = IF ops = {} THEN [EmptyDraft EXCEPT !.gen = generation']
              ELSE Proposing(ops, base)
  /\ tasks' = IF ops = {} THEN others
              ELSE others \cup {[kind |-> "queue",
                                 owner |-> Owner(draft', h)]}

QuietApply(s) == [s EXCEPT !.phase = "idle", !.error = FALSE]

\* The base of a queue that names none: the draft's, or where the user is.
ChainedBase == IF draft.base # 0 THEN draft.base ELSE HeadCandidate(head)

Authors(agent) == Append(authored, [session |-> active, agent |-> agent])

\* commitEdit, editOpValue: a new operation, or one in the place of an old
\* one.  A cell's chains; a run's names the revision on the page.
Edit ==
  /\ Len(authored) < MaxOps
  /\ authored' = Authors(FALSE)
  /\ \E base \in {ChainedBase, 0} \cup candidates[active],
        old \in {{}} \cup {{n} : n \in draft.ops} :
        SetQueue((draft.ops \ old) \cup {Len(authored')}, base, head, tasks)
  /\ shown' = QuietApply(shown)
  /\ UNCHANGED <<pageVars, applyVars, runtimeVars, consent>>

\* removeOp, undoQueuedOp
Remove ==
  /\ \E n \in draft.ops : SetQueue(draft.ops \ {n}, ChainedBase, head, tasks)
  /\ shown' = QuietApply(shown)
  /\ UNCHANGED <<pageVars, applyVars, runtimeVars, historyVars>>

\* reproposeDraft, offered on a queue that is stale or was refused
Repropose ==
  /\ draft.ops # {} /\ (Stale \/ draft.phase = "failed")
  /\ SetQueue(draft.ops, ChainedBase, head, tasks)
  /\ shown' = QuietApply(shown)
  /\ UNCHANGED <<pageVars, applyVars, runtimeVars, historyVars>>

ClearQueue ==
  /\ draft # EmptyDraft
  /\ generation < MaxQueues /\ generation' = generation + 1
  /\ draft' = EmptyDraft /\ approval' = NoApproval /\ approvalPhase' = "idle"
  /\ shown' = QuietApply(shown)
  /\ UNCHANGED <<pageVars, applyVars, tasks, runtimeVars, historyVars>>

\* No newer queue, and still the same draft, document and head.
Fresh_SameDocument(t) == active = t.owner.session
Fresh(t) == generation = t.owner.draft.gen /\ OwnsDraft(t.owner)

\* The plan of a queue nobody waits for any more is not recorded.
Proposed(t) ==
  /\ t.kind = "queue"
  /\ tasks' = tasks \ {t}
  /\ IF Fresh(t)
     THEN \/ /\ plans' = Append(plans, [session |-> t.owner.session,
                                        ops |-> t.owner.draft.ops,
                                        base |-> t.owner.draft.base])
             /\ draft' = [t.owner.draft EXCEPT !.plan = Len(plans'),
                                               !.phase = "ready"]
          \/ /\ draft' = [t.owner.draft EXCEPT !.phase = "failed"]
             /\ UNCHANGED plans
     ELSE UNCHANGED <<plans, draft>>
  /\ UNCHANGED <<pageVars, generation, approval, approvalPhase, applyVars,
                 shown, approvals, runs, historyVars>>

-----------------------------------------------------------------------------
(* The document and its head                                               *)

SelectSession(s) ==
  /\ s # active /\ active' = s
  /\ shown' = IF shown.phase = "starting"
              THEN [Presentation(outcomes[s]) EXCEPT !.phase = "starting"]
              ELSE Presentation(outcomes[s])
  /\ tasks' = tasks \cup {[kind |-> "load", session |-> s]}
  /\ UNCHANGED <<head, candidates, headGeneration, reviewVars, applyVars,
                 runtimeVars, historyVars>>

\* loadCandidates; a refused list changes nothing.
Loaded(t) ==
  /\ t.kind = "load"
  /\ tasks' = tasks \ {t}
  /\ \/ candidates' = [candidates EXCEPT ![t.session] = RunsOf(t.session)]
     \/ UNCHANGED candidates
  /\ UNCHANGED <<active, head, headGeneration, reviewVars, applyVars, shown,
                 runtimeVars, historyVars>>

\* setHead: a run's receipt is read first, the source has none.
SetHead(r) ==
  /\ headGeneration < MaxHeads /\ headGeneration' = headGeneration + 1
  /\ head' = r
  /\ IF r = 0 /\ draft.ops # {}
     THEN /\ SetQueue(draft.ops, 0, 0, tasks)
          /\ shown' = QuietApply([shown EXCEPT !.applied = 0])
     ELSE /\ shown' = [shown EXCEPT !.applied = 0]
          /\ tasks' = IF r = 0 THEN tasks
                      ELSE tasks \cup {[kind |-> "head", run |-> r,
                                        session |-> active,
                                        gen |-> headGeneration']}
          /\ UNCHANGED reviewVars
  /\ UNCHANGED <<active, candidates, applyVars, runtimeVars, historyVars>>

\* ownsHeadSelection
OwnsHead(t) ==
  /\ headGeneration = t.gen /\ active = t.session /\ head = t.run

\* The receipt came, or was refused: the queue moves to the new base.
HeadRead(t) ==
  /\ t.kind = "head"
  /\ IF OwnsHead(t) /\ draft.ops # {}
     THEN /\ SetQueue(draft.ops, t.run, head, tasks \ {t})
          /\ shown' = QuietApply(shown)
     ELSE tasks' = tasks \ {t} /\ UNCHANGED <<reviewVars, shown>>
  /\ UNCHANGED <<pageVars, applyVars, runtimeVars, historyVars>>

-----------------------------------------------------------------------------
(* Agents                                                                  *)

\* sendInstruction, runAgentProposal
Instruct ==
  /\ Len(authored) < MaxOps
  /\ authored' = Authors(TRUE)
  /\ tasks' = tasks \cup {[kind |-> "agent", op |-> Len(authored'),
                           owner |-> Owner(draft, head)]}
  /\ UNCHANGED <<pageVars, reviewVars, applyVars, shown, runtimeVars,
                 consent>>

\* The agent is done: with nothing, or with a plan, which may build on a
\* candidate and have an approval requested.  adoptAgentPlan goes on if the
\* draft is still the owner's, and reads the plan back.
AgentDone(t) ==
  /\ t.kind = "agent"
  /\ \/ tasks' = tasks \ {t} /\ UNCHANGED <<plans, approvals>>
     \/ /\ OwnsDraft(t.owner)
        /\ \E base \in {0} \cup RunsOf(t.owner.session) :
              plans' = Append(plans, [session |-> t.owner.session,
                                      ops |-> {t.op}, base |-> base])
        /\ \/ UNCHANGED approvals
           \/ /\ Len(approvals) < MaxApprovals
              /\ approvals' = Append(approvals, [plan |-> Len(plans'),
                                                 state |-> "pending"])
        /\ tasks' = (tasks \ {t})
             \cup {[kind |-> "adopt", owner |-> t.owner, gen |-> generation,
                    plan |-> Len(plans'),
                    approval |-> IF approvals' = approvals THEN 0
                                 ELSE Len(approvals')]}
  /\ UNCHANGED <<pageVars, reviewVars, applyVars, shown, runs, historyVars>>

\* ownsDraftFence
OwnsFence(t) == generation = t.gen /\ OwnsDraft(t.owner)

\* The approval as getApproval gives it, or none if it cannot be read.
Adopted(t) ==
  /\ t.kind = "adopt"
  /\ tasks' = tasks \ {t}
  /\ IF OwnsFence(t)
     THEN /\ draft' = [ops |-> plans[t.plan].ops, session |-> t.owner.session,
                       base |-> plans[t.plan].base, plan |-> t.plan,
                       phase |-> "ready", gen |-> t.gen]
          /\ \/ approval' = NoApproval
             \/ /\ t.approval # 0
                /\ approval' = [id |-> t.approval, plan |-> t.plan,
                                state |-> approvals[t.approval].state]
          /\ approvalPhase' = IF t.approval # 0 THEN "pending" ELSE "idle"
          /\ shown' = QuietApply(shown)
     ELSE UNCHANGED <<draft, approval, approvalPhase, shown>>
  /\ UNCHANGED <<pageVars, generation, applyVars, runtimeVars, historyVars>>

-----------------------------------------------------------------------------
(* Approval                                                                *)

\* requestApprovalForDraft and canRequestApproval
RequestApproval ==
  /\ draft.plan # 0 /\ draft.session = active /\ ~LeftBehind
  /\ approval = NoApproval /\ approvalPhase = "idle"
  /\ shown.phase # "starting" /\ draft.phase = "ready"
  /\ Len(approvals) < MaxApprovals
  /\ approvals' = Append(approvals, [plan |-> draft.plan,
                                     state |-> "pending"])
  /\ approvalPhase' = "requesting"
  /\ tasks' = tasks \cup {[kind |-> "request", approval |-> Len(approvals'),
                           draft |-> draft, session |-> active,
                           head |-> head]}
  /\ UNCHANGED <<pageVars, draft, generation, approval, applyVars, shown,
                 plans, runs, historyVars>>

\* The draft asked for is still the one, and nothing else answered.
Awaited(t) ==
  /\ approvalPhase = "requesting" /\ approval = NoApproval
  /\ draft = t.draft

Requested(t) ==
  /\ t.kind = "request"
  /\ tasks' = tasks \ {t}
  /\ \/ /\ Awaited(t) /\ (active # t.session \/ head = t.head)
        /\ approval' = [id |-> t.approval, plan |-> t.draft.plan,
                        state |-> "pending"]
        /\ approvalPhase' = "pending"
     \/ /\ Awaited(t) /\ approvalPhase' = "idle" /\ UNCHANGED approval
     \/ /\ ~(Awaited(t) /\ (active # t.session \/ head = t.head))
        /\ UNCHANGED <<approval, approvalPhase>>
  /\ UNCHANGED <<pageVars, draft, generation, applyVars, shown, runtimeVars,
                 historyVars>>

\* The user decides: what is on screen is what is agreed to.
Decide(decision) ==
  /\ approval.state = "pending" /\ Bound(approval)
  /\ approvalPhase' = "resolving"
  /\ tasks' = tasks \cup {[kind |-> "decide", decision |-> decision,
                           approval |-> approval.id, plan |-> draft.plan,
                           draft |-> draft, session |-> active,
                           head |-> head]}
  /\ consent' = IF decision = "approved"
                THEN consent \cup {[approval |-> approval.id,
                                    ops |-> draft.ops, session |-> active]}
                ELSE consent
  /\ UNCHANGED <<pageVars, draft, generation, approval, applyVars, shown,
                 runtimeVars, authored>>

-----------------------------------------------------------------------------
(* Apply                                                                   *)

\* The answer to an apply of this very plan and approval was lost.
AlreadySent(a) ==
  LET own == outcomes[active].recovery
      prior == IF own # NoRecovery THEN own ELSE shown.recovery
  IN  prior.plan = draft.plan /\ prior.approval = a.id

\* The early returns of applyApproved
MayApply(a) ==
  /\ a.state = "approved" /\ Bound(a)
  /\ shown.phase # "starting" /\ ~inFlight
  /\ ~AlreadySent(a)

\* applyApproved with approval a, up to its await
StartApply(a, others) ==
  /\ shown' = [shown EXCEPT !.phase = "starting", !.error = FALSE,
                            !.recovery = NoRecovery]
  /\ inFlight' = TRUE
  /\ tasks' = others \cup {[kind |-> "apply", approval |-> a.id,
                            plan |-> draft.plan, draft |-> draft,
                            session |-> active, head |-> head]}

ApplyApproved ==
  /\ MayApply(approval) /\ StartApply(approval, tasks)
  /\ UNCHANGED <<pageVars, reviewVars, outcomes, unsure, runtimeVars,
                 historyVars>>

\* The runtime's decision came, and an approval still in view is applied.
Decided(t) ==
  LET resolved == [id |-> t.approval, plan |-> t.plan, state |-> t.decision]
      go == /\ BindingExists(t) /\ SameView(t)
            /\ Bound(resolved) /\ MayApply(resolved)
  IN
  /\ t.kind = "decide" /\ approvals[t.approval].state = "pending"
  /\ approvals' = [approvals EXCEPT ![t.approval].state = t.decision]
  /\ IF BindingExists(t)
     THEN approval' = resolved /\ approvalPhase' = "resolved"
     ELSE UNCHANGED <<approval, approvalPhase>>
  /\ IF go THEN StartApply(resolved, tasks \ {t})
     ELSE tasks' = tasks \ {t} /\ UNCHANGED <<shown, inFlight>>
  /\ UNCHANGED <<pageVars, draft, generation, outcomes, unsure, plans, runs,
                 historyVars>>

\* Refused, because decided already, or the answer is lost.
DecisionFails(t) ==
  /\ t.kind = "decide"
  /\ tasks' = tasks \ {t}
  /\ \/ UNCHANGED approvals
     \/ /\ approvals[t.approval].state = "pending"
        /\ approvals' = [approvals EXCEPT ![t.approval].state = t.decision]
  /\ approvalPhase' = IF BindingExists(t) THEN "pending" ELSE approvalPhase
  /\ UNCHANGED <<pageVars, draft, generation, approval, applyVars, shown,
                 plans, runs, historyVars>>

\* The runtime publishes the candidate of an apply, once.
Publishes(t) ==
  LET made == [session |-> t.session, plan |-> t.plan,
               approval |-> t.approval]
  IN  /\ approvals[t.approval].state = "approved"
      /\ IF \E r \in DOMAIN runs : runs[r] = made THEN UNCHANGED runs
         ELSE Len(runs) < MaxRuns /\ runs' = Append(runs, made)

RunOf(t) ==
  CHOOSE r \in DOMAIN runs' :
    runs'[r].plan = t.plan /\ runs'[r].approval = t.approval

\* What the page says after the apply t ended with outcomes'.
Afterwards(t, inView) ==
  IF inView THEN Presentation(outcomes'[t.session])
  ELSE IF shown.phase # "starting" THEN shown
  ELSE IF active # t.session THEN Presentation(outcomes'[active])
  ELSE [shown EXCEPT !.phase = "idle"]

Applied(t) ==
  LET ownsQueue == /\ draft = t.draft /\ BindingExists(t)
                   /\ (active # t.session \/ head = t.head)
      inView == ownsQueue /\ active = t.session
  IN
  /\ t.kind = "apply" /\ Publishes(t)
  /\ inFlight' = FALSE
  /\ outcomes' = [outcomes EXCEPT ![t.session] =
                    [applied |-> RunOf(t), error |-> FALSE,
                     recovery |-> NoRecovery]]
  /\ shown' = Afterwards(t, inView)
  /\ IF ownsQueue
     THEN /\ draft' = EmptyDraft
          /\ approval' = NoApproval /\ approvalPhase' = "idle"
     ELSE UNCHANGED <<draft, approval, approvalPhase>>
  /\ head' = IF inView THEN RunOf(t) ELSE head
  /\ tasks' = (tasks \ {t}) \cup {[kind |-> "load", session |-> t.session]}
  /\ UNCHANGED <<active, candidates, headGeneration, generation, unsure,
                 plans, approvals, historyVars>>

\* The record of an apply whose end nobody knows.
Unknown_Forgotten(t) == NoRecovery
Unknown(t) == [plan |-> t.plan, approval |-> t.approval,
               outcome |-> "unknown", run |-> 0]

\* timeout, sidecar_down, apply_outcome_unknown, apply_in_progress: the
\* runtime may have published, may do so later, or never.  Or a refusal.
ApplyFails(t, lost) ==
  /\ t.kind = "apply"
  /\ inFlight' = FALSE
  /\ outcomes' = [outcomes EXCEPT ![t.session] =
                    [applied |-> 0, error |-> TRUE,
                     recovery |-> IF lost THEN Unknown(t) ELSE NoRecovery]]
  /\ shown' = Afterwards(t, SameView(t))
  /\ unsure' = IF lost THEN unsure \cup {[plan |-> t.plan,
                                          approval |-> t.approval]}
               ELSE unsure
  /\ tasks' = (tasks \ {t})
       \cup (IF lost THEN {[kind |-> "late", session |-> t.session,
                            plan |-> t.plan, approval |-> t.approval]}
             ELSE {})
  /\ UNCHANGED <<pageVars, reviewVars, runtimeVars, historyVars>>

\* An apply nobody waits for ends in the runtime.
LateEnd(t) ==
  /\ t.kind = "late"
  /\ tasks' = tasks \ {t}
  /\ Publishes(t) \/ UNCHANGED runs
  /\ UNCHANGED <<pageVars, reviewVars, applyVars, shown, plans, approvals,
                 historyVars>>

-----------------------------------------------------------------------------
(* Recovery                                                                *)

\* resolveRecovery
Recover ==
  /\ shown.recovery # NoRecovery
  /\ outcomes[active].recovery = shown.recovery
  /\ tasks' = tasks \cup {[kind |-> "recover", session |-> active,
                           recovery |-> shown.recovery, draft |-> draft,
                           approval |-> approval]}
  /\ UNCHANGED <<pageVars, reviewVars, applyVars, shown, runtimeVars,
                 historyVars>>

\* The record is still the one, and so is what the page shows of it.
StillOwned(t) == outcomes[t.session].recovery = t.recovery
Visible(t) ==
  /\ active = t.session /\ shown.recovery = t.recovery
  /\ shown.phase # "starting"

\* The candidate that proves the apply: the only one of its plan, with a
\* receipt that binds its approval.
Proof_AnyRun(t) == RunsOf(t.session)
Proof(t) ==
  LET rows == {r \in RunsOf(t.session) : runs[r].plan = t.recovery.plan}
  IN  {r \in rows : /\ rows = {r}
                    /\ runs[r].approval = t.recovery.approval}

Recovered(t) ==
  LET found == CHOOSE r \in Proof(t) : TRUE
      resolved == [t.recovery EXCEPT !.outcome = "applied", !.run = found]
      ownsQueue == /\ draft = t.draft /\ draft.session = t.session
                   /\ draft.plan = t.recovery.plan
                   /\ approval = t.approval
                   /\ approval.id = t.recovery.approval
      outcome == [applied |-> found, error |-> FALSE, recovery |-> resolved]
  IN
  /\ t.kind = "recover" /\ StillOwned(t) /\ Proof(t) # {}
  /\ tasks' = tasks \ {t}
  /\ outcomes' = [outcomes EXCEPT ![t.session] = outcome]
  /\ candidates' = [candidates EXCEPT ![t.session] = RunsOf(t.session)]
  /\ IF ownsQueue
     THEN /\ draft' = EmptyDraft
          /\ approval' = NoApproval /\ approvalPhase' = "idle"
     ELSE UNCHANGED <<draft, approval, approvalPhase>>
  /\ shown' = IF Visible(t) THEN Presentation(outcome) ELSE shown
  /\ UNCHANGED <<active, head, headGeneration, generation, inFlight, unsure,
                 runtimeVars, historyVars>>

\* Not found, which proves nothing, no longer asked, or refused.
NotRecovered(t) ==
  /\ t.kind = "recover"
  /\ tasks' = tasks \ {t}
  /\ \/ /\ ~StillOwned(t) \/ Proof(t) = {}
        /\ UNCHANGED <<outcomes, shown>>
     \/ /\ StillOwned(t)
        /\ outcomes' = [outcomes EXCEPT ![t.session].error = TRUE]
        /\ shown' = IF Visible(t)
                    THEN [shown EXCEPT !.error = TRUE, !.phase = "failed"]
                    ELSE shown
  /\ UNCHANGED <<pageVars, reviewVars, inFlight, unsure, runtimeVars,
                 historyVars>>

-----------------------------------------------------------------------------
Room == Cardinality(tasks) < MaxTasks

Revises == Edit \/ Remove \/ Repropose \/ ClearQueue

Chooses ==
  \/ \E s \in Sessions : SelectSession(s)
  \/ \E r \in {0} \cup candidates[active] : SetHead(r)
  \/ Instruct \/ RequestApproval \/ ApplyApproved \/ Recover
  \/ \E d \in {"approved", "rejected"} : Decide(d)

Answer ==
  \E t \in tasks :
    \/ Proposed(t) \/ Loaded(t) \/ HeadRead(t) \/ AgentDone(t) \/ Adopted(t)
    \/ Requested(t) \/ Decided(t) \/ DecisionFails(t)
    \/ Applied(t) \/ (\E lost \in BOOLEAN : ApplyFails(t, lost)) \/ LateEnd(t)
    \/ Recovered(t) \/ NotRecovered(t)

Next == (Room /\ Revises) \/ (Room /\ Chooses) \/ Answer

Spec == Init /\ [][Next]_vars

-----------------------------------------------------------------------------
(* What must hold                                                          *)

AgentOps == {n \in DOMAIN authored : authored[n].agent}
AppliedOps == UNION {plans[runs'[r].plan].ops : r \in DOMAIN runs'}

(***************************************************************************)
(* Only the user takes an operation out of the queue: an answer does so    *)
(* when a candidate contains it, or puts a plan there that an agent was    *)
(* asked for later; and it brings nothing back.  (Replies of proposals,    *)
(* agents, applies and recoveries, late, in any order, after a visit to    *)
(* another document.)                                                      *)
(***************************************************************************)
KeepsIntent ==
  LET new == draft'.ops \ draft.ops
  IN  /\ new \subseteq AgentOps
      /\ \A n \in draft.ops \ draft'.ops :
           n \in AppliedOps \/ \E m \in new : n < m
NewerIntentWins == [][Revises \/ KeepsIntent]_vars

Applies == {t \in tasks : t.kind = "apply"}
Sent == {t \in tasks' \ tasks : t.kind = "apply"}

(***************************************************************************)
(* What is sent to be applied is the queue on screen, to the document on   *)
(* screen, under an approval the user gave while seeing these operations   *)
(* there, and on the head if one is chosen in that document.               *)
(***************************************************************************)
AsShown(t) ==
  /\ plans[t.plan].session = active /\ plans[t.plan].ops = draft.ops
  /\ [approval |-> t.approval, ops |-> draft.ops, session |-> active]
       \in consent
  /\ approvals'[t.approval] = [plan |-> t.plan, state |-> "approved"]
  /\ head \in candidates[active] => plans[t.plan].base = head
AppliesWhatIsShown == [][\A t \in Sent : AsShown(t)]_vars

(***************************************************************************)
(* An apply is sent only when no other is under way, and never again for a *)
(* plan and an approval whose answer was lost (docs and tests: a lost      *)
(* reply must not permit a duplicate apply).                               *)
(***************************************************************************)
AppliesOnce ==
  [][\A t \in Sent : /\ Applies = {}
                     /\ [plan |-> t.plan, approval |-> t.approval]
                          \notin unsure]_vars

(***************************************************************************)
(* What a document is said to have become is its own candidate, of that    *)
(* very plan and approval where it was recovered; the page shows the       *)
(* outcome of the document on it; and it says that an apply is under way   *)
(* only while one is, for nothing else would unlock it.                    *)
(***************************************************************************)
IsRunOf(r, s) == r \in DOMAIN runs /\ runs[r].session = s
RecoveryIsProven(o, s) ==
  /\ o.recovery # NoRecovery => plans[o.recovery.plan].session = s
  /\ o.recovery.outcome = "applied" =>
       /\ IsRunOf(o.recovery.run, s)
       /\ runs[o.recovery.run].plan = o.recovery.plan
       /\ runs[o.recovery.run].approval = o.recovery.approval
OutcomeIsOwn ==
  /\ \A s \in Sessions : /\ outcomes[s].applied # 0 =>
                              IsRunOf(outcomes[s].applied, s)
                         /\ RecoveryIsProven(outcomes[s], s)
  /\ shown.applied # 0 => IsRunOf(shown.applied, active)
  /\ RecoveryIsProven(shown, active)
  /\ shown.phase = "starting" => Applies # {}

(***************************************************************************)
(* The comment of selectSession: a queue "belongs to the document it was   *)
(* proposed against".  It does not hold: an edit in the document one has   *)
(* gone to joins the operations that were typed in the other one, and all  *)
(* of them are proposed for the new document.                              *)
(***************************************************************************)
QueueOfOneDocument ==
  \A n \in draft.ops : authored[n].session = draft.session

(***************************************************************************)
(* The same comment: "draftStaleness says so the moment the active session *)
(* moves away from it".  Not while its plan is being proposed: the answer  *)
(* is then dropped and the queue stays in phase "starting".                *)
(***************************************************************************)
LeftQueueIsStale ==
  draft.ops # {} /\ draft.session # active => Stale

=============================================================================
