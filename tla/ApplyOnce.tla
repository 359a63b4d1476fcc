------------------------------ MODULE ApplyOnce ------------------------------
(***************************************************************************)
(* One operation plan on its way to one published candidate.               *)
(*                                                                         *)
(* Several runtime host processes share one root directory.  Each host     *)
(* serves one request at a time (plan/validate, approval/request,          *)
(* approval/resolve, plan/apply); between two steps of one host the other  *)
(* hosts run, and any host may die.  What survives a death is what is on   *)
(* disk: the plan and approval records, the apply journal, the run and     *)
(* work directories, the receipts and the event stream.  The operating     *)
(* system drops the plan's lock when its holder dies.                      *)
(*                                                                         *)
(* Steps that only the holder of the plan lock can observe are merged when *)
(* no other actor can tell them apart (the two mkdirs, the engine steps    *)
(* with the checks that follow them, the two rmtrees).                     *)
(*                                                                         *)
(* A definition with an underscore in its name is a mutant of the one      *)
(* after it: a plausible bug that some property must notice.               *)
(***************************************************************************)
EXTENDS Naturals, FiniteSets

CONSTANTS
  Hosts,       \* runtime processes driving this root
  Runs,        \* run identifiers uuid4 may hand out (bounds the attempts)
  Approvals,   \* approval identifiers
  Foreign,     \* approvals that name another plan
  Legacy,      \* runs an older, journal-less runtime may have published
  None         \* "no run", "no approval", "no holder"

ASSUME ConstantsAssumption ==
  /\ Foreign \subseteq Approvals
  /\ Legacy \subseteq Runs
  /\ None \notin Runs \cup Approvals \cup Hosts

VARIABLES
  planState,   \* state field of the saved plan record
  approval,    \* state field of each saved approval record
  source,      \* the session's source still has the digest the plan binds
  lock,        \* holder of apply-attempts/<plan>.lock
  journal,     \* apply-attempts/<plan>.json
  runDirs,     \* runs whose candidates/<run> directory exists
  workDirs,    \* runs whose work/<run> directory exists
  receipt,     \* approval recorded in candidates/<run>/receipt.json
  tampered,    \* runs whose artifact no longer matches its receipt
  events,      \* completion events on the session's stream
  dropped,     \* some append to the stream has failed
  signed,      \* history: approvals some host has ever saved as approved
  pc,          \* where each host's current request stands
  appr,        \* the approval its request names
  mem,         \* state of the plan object it holds in memory
  run,         \* the run it works on
  emit,        \* whether it still owes the completion events
  exc,         \* the exception that is unwinding
  answer       \* the run of the candidate it last answered with, if any

recordVars == <<planState, approval, signed>>
diskVars   == <<lock, journal, runDirs, workDirs, receipt, tampered>>
eventVars  == <<events, dropped>>
hostVars   == <<pc, appr, mem, run, emit, exc, answer>>
vars == <<recordVars, source, diskVars, eventVars, hostVars>>

PlanStates    == {"proposed", "validated", "invalid", "approved", "rejected",
                  "applied"}
ApprovalState == {"absent", "pending", "approved", "rejected"}
AttemptState  == {"pending", "not_applied", "published"}
EventKinds    == {"plan.applied", "candidate.published"}

NoJournal  == [run |-> None, state |-> "absent"]
Journals   == {NoJournal} \cup [run : Runs, state : AttemptState]

\* Where a request can stand.  Working are the places held under the lock.
Executing == {"execute", "mkdirs", "engine", "publish", "cleanup", "settle"}
Finishing == {"tidy", "reconcile", "emit_applied", "emit_published",
              "complete"}
Working   == {"inspect", "verify"} \cup Executing \cup Finishing
Places    == {"idle", "read_approval", "lock", "save_approval", "save_plan"}
               \cup Working

Published == {r \in Runs : receipt[r] # None}
Removed(r) == r \notin runDirs /\ r \notin workDirs
Event(kind, r) == [kind |-> kind, run |-> r]
Unused(r) == r # journal.run /\ receipt[r] = None /\ Removed(r)

-----------------------------------------------------------------------------
(* The root as this runtime finds it: a fresh plan, or the leavings of an  *)
(* older runtime that published without a journal (none, one or several    *)
(* candidates, the plan marked applied or not).                            *)
Init ==
  /\ \E old \in SUBSET Legacy, a \in Approvals \ Foreign :
       /\ receipt = [r \in Runs |-> IF r \in old THEN a ELSE None]
       /\ runDirs = old
       /\ approval = [b \in Approvals |->
                        IF b \in Foreign \/ (b = a /\ old # {})
                          THEN "approved" ELSE "absent"]
       /\ planState \in IF Legacy = {} THEN {"proposed"}
                        ELSE IF old = {} THEN {"proposed", "applied"}
                        ELSE {"approved", "applied"}
  /\ signed = {b \in Approvals : approval[b] = "approved"}
  /\ source = TRUE
  /\ lock = None
  /\ journal = NoJournal
  /\ workDirs = {}
  /\ tampered = {}
  /\ events = {}
  /\ dropped = FALSE
  /\ pc = [h \in Hosts |-> "idle"]
  /\ appr = [h \in Hosts |-> None]
  /\ mem = [h \in Hosts |-> "proposed"]
  /\ run = [h \in Hosts |-> None]
  /\ emit = [h \in Hosts |-> FALSE]
  /\ exc = [h \in Hosts |-> "none"]
  /\ answer = [h \in Hosts |-> None]

Goto(h, place) == pc' = [pc EXCEPT ![h] = place]

\* The with block of plan_lock ends, or the operating system ends it.
Release(h) == lock' = IF lock = h THEN None ELSE lock

\* The request is over: the host answers, drops what it holds in memory and
\* leaves the lock's with block.  An error answer is None, whatever its code.
Finish(h, reply) ==
  /\ Goto(h, "idle")
  /\ appr' = [appr EXCEPT ![h] = None]
  /\ mem' = [mem EXCEPT ![h] = "proposed"]
  /\ run' = [run EXCEPT ![h] = None]
  /\ emit' = [emit EXCEPT ![h] = FALSE]
  /\ exc' = [exc EXCEPT ![h] = "none"]
  /\ answer' = [answer EXCEPT ![h] = reply]
  /\ Release(h)

-----------------------------------------------------------------------------
(* plan/validate, approval/request, approval/resolve.                      *)

\* plan_validate reads the plan, validates it and changes it in memory...
Validate(h) ==
  /\ pc[h] = "idle"
  /\ mem' = [mem EXCEPT ![h] = IF source THEN "validated" ELSE "invalid"]
  /\ answer' = [answer EXCEPT ![h] = None]
  /\ Goto(h, "save_plan")
  /\ UNCHANGED <<recordVars, source, diskVars, eventVars, appr, run, emit, exc>>

\* ...and, as approval_resolve does too, saves the whole record over
\* whatever another host has written to it since.
SavePlan(h) ==
  /\ pc[h] = "save_plan"
  /\ planState' = mem[h]
  /\ Finish(h, None)
  /\ UNCHANGED <<approval, signed, source, journal, runDirs, workDirs, receipt,
                 tampered, eventVars>>

\* approval_request does not look at the plan's state.
RequestApproval(h, a) ==
  /\ pc[h] = "idle"
  /\ a \notin Foreign
  /\ approval[a] = "absent"
  /\ approval' = [approval EXCEPT ![a] = "pending"]
  /\ UNCHANGED <<planState, signed, source, diskVars, eventVars, hostVars>>

\* approval_resolve: a fresh source and a record read as pending are what it
\* takes; the decision is not on disk yet.
Resolve(h, a, decision) ==
  /\ pc[h] = "idle"
  /\ a \notin Foreign
  /\ source
  /\ approval[a] = "pending"
  /\ mem' = [mem EXCEPT ![h] = decision]
  /\ appr' = [appr EXCEPT ![h] = a]
  /\ answer' = [answer EXCEPT ![h] = None]
  /\ Goto(h, "save_approval")
  /\ UNCHANGED <<recordVars, source, diskVars, eventVars, run, emit, exc>>

SaveApproval(h) ==
  /\ pc[h] = "save_approval"
  /\ approval' = [approval EXCEPT ![appr[h]] = mem[h]]
  /\ signed' = IF mem[h] = "approved" THEN signed \cup {appr[h]} ELSE signed
  /\ Goto(h, "save_plan")
  /\ UNCHANGED <<planState, source, diskVars, eventVars, appr, mem, run, emit,
                 exc, answer>>

-----------------------------------------------------------------------------
(* plan/apply, up to the lock.                                             *)

\* plan_apply loads the plan record; the approval record is the next read.
ReadPlan(h, a) ==
  /\ pc[h] = "idle"
  /\ appr' = [appr EXCEPT ![h] = a]
  /\ mem' = [mem EXCEPT ![h] = planState]
  /\ answer' = [answer EXCEPT ![h] = None]
  /\ Goto(h, "read_approval")
  /\ UNCHANGED <<recordVars, source, diskVars, eventVars, run, emit, exc>>

\* The approval names this plan and its hash.
Binds_Unchecked(a) == TRUE
Binds(a) == a \notin Foreign

\* An approval of another plan or one that is not approved is refused.  The
\* record is not read again: from here on the host trusts its copy.
ReadApproval(h) ==
  /\ pc[h] = "read_approval"
  /\ IF Binds(appr[h]) /\ approval[appr[h]] = "approved"
       THEN /\ Goto(h, "lock")
            /\ UNCHANGED <<appr, mem, run, emit, exc, answer, lock>>
       ELSE Finish(h, None)
  /\ UNCHANGED <<recordVars, source, journal, runDirs, workDirs, receipt,
                 tampered, eventVars>>

LockFree_Unchecked == TRUE
LockFree == lock = None

\* plan_lock never waits.
TryLock(h) ==
  /\ pc[h] = "lock"
  /\ \/ /\ LockFree
        /\ lock' = h
        /\ Goto(h, "inspect")
        /\ UNCHANGED <<appr, mem, run, emit, exc, answer>>
     \/ ~LockFree /\ Finish(h, None)
  /\ UNCHANGED <<recordVars, source, journal, runDirs, workDirs, receipt,
                 tampered, eventVars>>

-----------------------------------------------------------------------------
(* apply_once, under the lock: replay, refuse, or reserve a new run.       *)

OwesEvents_Never(completed) == FALSE
OwesEvents(completed) == ~completed

Replay(h, r, completed) ==
  /\ run' = [run EXCEPT ![h] = r]
  /\ emit' = [emit EXCEPT ![h] = OwesEvents(completed)]
  /\ Goto(h, "verify")
  /\ UNCHANGED <<appr, mem, exc, answer, lock, journal>>

OutcomeUnknown(h) == Finish(h, None) /\ UNCHANGED journal

\* The durable intent is written before anything is executed.
ReserveRun(h, r) ==
  /\ journal' = [run |-> r, state |-> "pending"]
  /\ run' = [run EXCEPT ![h] = r]
  /\ Goto(h, "execute")
  /\ UNCHANGED <<appr, mem, emit, exc, answer, lock>>

\* uuid4 never runs out; the bound Runs does, and then the host gives up as if
\* it had died.
Reserve(h) ==
  \/ \E r \in Runs : Unused(r) /\ ReserveRun(h, r)
  \/ (\A r \in Runs : ~Unused(r)) /\ OutcomeUnknown(h)

\* With a journal: the receipt decides, not what the journal claims.
Committed_ByState == journal.state = "published"
Committed == receipt[journal.run] # None

RetryAllowed_EvenUnknown == journal.state # "published"
RetryAllowed == journal.state = "not_applied"

InspectJournal(h) ==
  /\ journal # NoJournal
  /\ \/ Committed /\ Replay(h, journal.run, journal.state = "published")
     \/ ~Committed /\ ~RetryAllowed /\ OutcomeUnknown(h)
     \/ ~Committed /\ RetryAllowed /\ Reserve(h)

\* Without: an older runtime's one candidate is taken over; several, or a plan
\* applied without any, are not touched.
Historical_Any(r) == r \in Published
Historical(r) == Published = {r}

NoHistory_Unchecked(h) == TRUE
NoHistory(h) == Published = {} /\ mem[h] # "applied"

InspectHistory(h) ==
  /\ journal = NoJournal
  /\ \/ \E r \in Runs : Historical(r) /\ Replay(h, r, FALSE)
     \/ /\ \A r \in Runs : ~Historical(r)
        /\ ~NoHistory(h)
        /\ OutcomeUnknown(h)
     \/ NoHistory(h) /\ Reserve(h)

Inspect(h) ==
  /\ pc[h] = "inspect"
  /\ InspectJournal(h) \/ InspectHistory(h)
  /\ UNCHANGED <<recordVars, source, runDirs, workDirs, receipt, tampered,
                 eventVars>>

\* verified_result: the receipt still binds the bytes on disk, and this very
\* approval.
Verify(h) ==
  /\ pc[h] = "verify"
  /\ IF run[h] \notin tampered /\ receipt[run[h]] = appr[h]
       THEN /\ Goto(h, "reconcile")
            /\ UNCHANGED <<appr, mem, run, emit, exc, answer, lock>>
       ELSE Finish(h, None)
  /\ UNCHANGED <<recordVars, source, journal, runDirs, workDirs, receipt,
                 tampered, eventVars>>

-----------------------------------------------------------------------------
(* execute: validate again, then apply_plan in the reserved run.           *)

Raise(h, exception, place) ==
  /\ exc' = [exc EXCEPT ![h] = exception]
  /\ Goto(h, place)

Execute(h) ==
  /\ pc[h] = "execute"
  /\ IF source THEN Goto(h, "mkdirs") /\ UNCHANGED exc
               ELSE Raise(h, "rpc", "settle")
  /\ UNCHANGED <<recordVars, source, diskVars, eventVars, appr, mem, run, emit,
                 answer>>

\* The work directory comes first; when the run directory then cannot be
\* made, the refusal (publication_failed) leaves the work directory behind.
MakeDirs(h) ==
  /\ pc[h] = "mkdirs"
  /\ \/ /\ workDirs' = workDirs \cup {run[h]}
        /\ runDirs' = runDirs \cup {run[h]}
        /\ Goto(h, "engine")
        /\ UNCHANGED exc
     \/ /\ workDirs' \in {workDirs, workDirs \cup {run[h]}}
        /\ Raise(h, "rpc", "settle")
        /\ UNCHANGED runDirs
  /\ UNCHANGED <<recordVars, source, lock, journal, receipt, tampered,
                 eventVars, appr, mem, run, emit, answer>>

\* The ops, the move of the artifact and its verification: done, refused by
\* the engine, cancelled at a checkpoint, or failed with another exception.
RunEngine(h) ==
  /\ pc[h] = "engine"
  /\ \/ Goto(h, "publish") /\ UNCHANGED exc
     \/ \E e \in {"rpc", "cancelled", "fault"} : Raise(h, e, "cleanup")
  /\ UNCHANGED <<recordVars, source, diskVars, eventVars, appr, mem, run, emit,
                 answer>>

\* A failed receipt write that goes unnoticed.
PublishReceipt_Swallowed(h) ==
  /\ pc[h] = "publish"
  /\ receipt' \in {receipt, [receipt EXCEPT ![run[h]] = appr[h]]}
  /\ emit' = [emit EXCEPT ![h] = TRUE]
  /\ Goto(h, "tidy")
  /\ UNCHANGED <<recordVars, source, lock, journal, runDirs, workDirs, tampered,
                 eventVars, appr, mem, run, exc, answer>>

\* The receipt is the commit record, written last and atomically.
PublishReceipt(h) ==
  /\ pc[h] = "publish"
  /\ \/ /\ receipt' = [receipt EXCEPT ![run[h]] = appr[h]]
        /\ emit' = [emit EXCEPT ![h] = TRUE]
        /\ Goto(h, "tidy")
        /\ UNCHANGED exc
     \/ /\ Raise(h, "fault", "cleanup")
        /\ UNCHANGED <<receipt, emit>>
  /\ UNCHANGED <<recordVars, source, lock, journal, runDirs, workDirs, tampered,
                 eventVars, appr, mem, run, answer>>

\* except BaseException: rmtree of both directories, errors ignored.
CleanUp(h) ==
  /\ pc[h] = "cleanup"
  /\ runDirs' \in {runDirs, runDirs \ {run[h]}}
  /\ workDirs' \in {workDirs, workDirs \ {run[h]}}
  /\ Goto(h, "settle")
  /\ UNCHANGED <<recordVars, source, lock, journal, receipt, tampered,
                 eventVars, appr, mem, run, emit, exc, answer>>

\* What makes a refused run retryable.
ProvenUndone_Assumed(h) == TRUE
ProvenUndone(h) == Removed(run[h])

\* except RpcError: a refusal whose directories are demonstrably gone is
\* recorded as not applied.  Cancelled and OSError are not RpcErrors.
Settle(h) ==
  /\ pc[h] = "settle"
  /\ journal' = IF exc[h] = "rpc" /\ ProvenUndone(h)
                  THEN [run |-> run[h], state |-> "not_applied"] ELSE journal
  /\ Finish(h, None)
  /\ UNCHANGED <<recordVars, source, runDirs, workDirs, receipt, tampered,
                 eventVars>>

-----------------------------------------------------------------------------
(* After the commit: what a replay repeats.                                *)

Tidy(h) ==
  /\ pc[h] = "tidy"
  /\ workDirs' \in {workDirs, workDirs \ {run[h]}}
  /\ Goto(h, "reconcile")
  /\ UNCHANGED <<recordVars, source, lock, journal, runDirs, receipt, tampered,
                 eventVars, appr, mem, run, emit, exc, answer>>

\* The plan is saved only when the copy read before the lock says it must.
Reconcile(h) ==
  /\ pc[h] = "reconcile"
  /\ mem' = [mem EXCEPT ![h] = "applied"]
  /\ planState' = IF mem[h] # "applied" THEN "applied" ELSE planState
  /\ Goto(h, IF emit[h] THEN "emit_applied" ELSE "complete")
  /\ UNCHANGED <<approval, signed, source, diskVars, eventVars, appr, run, emit,
                 exc, answer>>

\* append_event swallows an OSError: the event is then lost for good.
Emit(h, here, kind, next) ==
  /\ pc[h] = here
  /\ \/ events' = events \cup {Event(kind, run[h])} /\ UNCHANGED dropped
     \/ dropped' = TRUE /\ UNCHANGED events
  /\ Goto(h, next)
  /\ UNCHANGED <<recordVars, source, diskVars, appr, mem, run, emit, exc,
                 answer>>

EmitApplied(h)   == Emit(h, "emit_applied", "plan.applied", "emit_published")
EmitPublished(h) == Emit(h, "emit_published", "candidate.published", "complete")

Completed_StillPending(r) == [run |-> r, state |-> "pending"]
Completed(r) == [run |-> r, state |-> "published"]

\* The journal says published, the lock is dropped and the host answers.
Complete(h) ==
  /\ pc[h] = "complete"
  /\ journal' = Completed(run[h])
  /\ Finish(h, run[h])
  /\ UNCHANGED <<recordVars, source, runDirs, workDirs, receipt, tampered,
                 eventVars>>

-----------------------------------------------------------------------------
(* The environment.                                                        *)

\* The process dies, or an OSError escapes a write outside apply_plan and the
\* request ends as internal_error: on disk there is no difference.
Crash(h) ==
  /\ pc[h] # "idle"
  /\ Finish(h, None)
  /\ UNCHANGED <<recordVars, source, journal, runDirs, workDirs, receipt,
                 tampered, eventVars>>

Tamper(r) ==
  /\ receipt[r] # None
  /\ tampered' = tampered \cup {r}
  /\ UNCHANGED <<recordVars, source, lock, journal, runDirs, workDirs, receipt,
                 eventVars, hostVars>>

SourceChanges ==
  /\ source' = FALSE
  /\ UNCHANGED <<recordVars, diskVars, eventVars, hostVars>>

\* Everything a host does once a request has begun.
Step(h) ==
  \/ SavePlan(h) \/ SaveApproval(h)
  \/ ReadApproval(h) \/ TryLock(h) \/ Inspect(h) \/ Verify(h)
  \/ Execute(h) \/ MakeDirs(h) \/ RunEngine(h) \/ PublishReceipt(h)
  \/ CleanUp(h) \/ Settle(h) \/ Tidy(h) \/ Reconcile(h)
  \/ EmitApplied(h) \/ EmitPublished(h) \/ Complete(h)

Request(h) ==
  \/ Validate(h)
  \/ \E a \in Approvals :
       \/ RequestApproval(h, a)
       \/ \E decision \in {"approved", "rejected"} : Resolve(h, a, decision)
       \/ ReadPlan(h, a)

Environment ==
  \/ \E h \in Hosts : Crash(h)
  \/ \E r \in Runs : Tamper(r)
  \/ SourceChanges

Serve == \E h \in Hosts : Request(h) \/ Step(h)

Next == Serve \/ Environment

Spec == Init /\ [][Next]_vars

-----------------------------------------------------------------------------
(* Fairness.  A host that has begun a request keeps running (it is one     *)
(* thread that never waits for another host), and the client whose answer  *)
(* was lost sends plan/apply again until it is served: its request and its *)
(* attempt on the lock, which may find the lock taken again and again,     *)
(* succeed some time.  Crashes and tampering stop eventually.              *)
Acquire(h) == TryLock(h) /\ LockFree

Fairness ==
  \A h \in Hosts :
    /\ WF_vars(Step(h))
    /\ SF_vars(Acquire(h))
    /\ \A a \in Approvals : SF_vars(ReadPlan(h, a))

\* From some time on every step is a host's own.
Undisturbed == <>[][Serve]_vars

FairSpec == Spec /\ Fairness /\ Undisturbed

-----------------------------------------------------------------------------
TypeOK ==
  /\ planState \in PlanStates
  /\ approval \in [Approvals -> ApprovalState]
  /\ signed \subseteq Approvals
  /\ source \in BOOLEAN
  /\ lock \in Hosts \cup {None}
  /\ journal \in Journals
  /\ runDirs \subseteq Runs
  /\ workDirs \subseteq Runs
  /\ receipt \in [Runs -> Approvals \cup {None}]
  /\ tampered \subseteq Runs
  /\ events \subseteq [kind : EventKinds, run : Runs]
  /\ dropped \in BOOLEAN
  /\ pc \in [Hosts -> Places]
  /\ appr \in [Hosts -> Approvals \cup {None}]
  /\ mem \in [Hosts -> PlanStates]
  /\ run \in [Hosts -> Runs \cup {None}]
  /\ emit \in [Hosts -> BOOLEAN]
  /\ exc \in [Hosts -> {"none", "rpc", "cancelled", "fault"}]
  /\ answer \in [Hosts -> Runs \cup {None}]

\* The plan lock works: a host inside apply_once holds it, whoever holds it is
\* inside, and a dead or answered host never does.
LockHeld == \A h \in Hosts : pc[h] \in Working <=> lock = h

\* A journal accounts for every candidate of its plan: nothing is published
\* beside the run it names, and a state it claims is what the disk shows.
JournalTruthful ==
  /\ journal # NoJournal => Published \subseteq {journal.run}
  /\ journal.state = "published" => Published = {journal.run}
  /\ journal.state = "not_applied" => Published = {} /\ Removed(journal.run)

\* What the lock holder may rely on from step to step although the steps are
\* far apart.  While it executes, its journal entry is pending and nothing is
\* published; once it replays or finishes, its run is the plan's candidate and
\* no other run is journaled.
InCharge(h) ==
  /\ pc[h] \in Executing =>
       /\ run[h] \in Runs
       /\ Published = {}
       /\ journal = [run |-> run[h], state |-> "pending"]
  /\ pc[h] \in {"verify"} \cup Finishing =>
       /\ run[h] \in Runs
       /\ Published = {run[h]}
       /\ journal = NoJournal \/ journal.run = run[h]

\* What it still owes to the event stream: only a replay of a finished apply
\* skips the events.
Owing(h) ==
  /\ pc[h] \in {"verify"} \cup Finishing /\ ~emit[h] =>
       journal = [run |-> run[h], state |-> "published"]
  /\ pc[h] = "emit_published" =>
       dropped \/ Event("plan.applied", run[h]) \in events
  /\ pc[h] = "complete" /\ emit[h] =>
       dropped \/ \A k \in EventKinds : Event(k, run[h]) \in events

Custody == \A h \in Hosts : InCharge(h) /\ Owing(h)

\* Whoever was answered with a candidate, before or after a crash, on this
\* host or on another, was answered with the plan's only one.
AnswersAgree ==
  \A h \in Hosts : answer[h] \in Runs =>
    /\ Published = {answer[h]}
    /\ journal = [run |-> answer[h], state |-> "published"]

\* A candidate, and every attempt to make one, rests on an approval of this
\* plan that a host once saved as approved, although the approval record
\* itself may be overwritten later.
SignedReceipts ==
  /\ \A r \in Published : receipt[r] \in signed \ Foreign
  /\ \A h \in Hosts :
       pc[h] = "lock" \/ pc[h] \in Working => appr[h] \in signed \ Foreign

\* A journal marked published leaves no completion event owing, unless an
\* append failed on the way; and no event precedes its receipt.
CompletionEvents ==
  /\ journal.state = "published" =>
       dropped \/ \A k \in EventKinds : Event(k, journal.run) \in events
  /\ \A e \in events : receipt[e.run] # None

\* One plan, one candidate: a receipt lands only where there is none for the
\* plan, and no receipt is ever withdrawn or signed anew.
PublishOnce ==
  [][ \A r \in Runs : receipt'[r] # receipt[r] => Published = {} ]_vars

\* A run whose outcome is unknown is never given up for another: the journal
\* moves to a new run only from none, or from one recorded as not applied
\* whose directories are gone.
NoBlindRetry ==
  [][ journal # NoJournal /\ journal'.run # journal.run =>
        journal.state = "not_applied" /\ Removed(journal.run) ]_vars

\* The plan record is marked applied only when its candidate is published,
\* whatever two hosts overwrite in each other's records.
AppliedAfterReceipt ==
  [][ planState' = "applied" /\ planState # "applied" => Published # {} ]_vars

\* The whole protocol implements the promise of OneCandidate.
Promise == INSTANCE OneCandidate WITH published <- Published, answered <- answer
OneCandidatePromise == Promise!Spec

\* docs/unified-working-build.md: a receipt published before the response or
\* the plan save still recovers on retry.  Excused: tampered bytes, and an
\* approval record another host has overwritten.
RetryRecovers ==
  \A r \in Runs, a \in Approvals :
    Published = {r} /\ receipt[r] = a ~>
      \/ journal.state = "published"
      \/ r \in tampered
      \/ approval[a] # "approved"

\* rt_apply_once.py on its except clause: a handled refusal or cancellation
\* is retryable after both private directories are demonstrably removed.
CancelledIsRetryable ==
  [][ \A h \in Hosts :
        Settle(h) /\ exc[h] = "cancelled" /\ Removed(run[h])
        => journal'.state = "not_applied" ]_vars

=============================================================================
