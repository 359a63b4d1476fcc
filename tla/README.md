# Rigorloom, modelled and verified

TLA+ modules of the parts of this repository whose correctness depends on
order: who writes which file first, what a dead process leaves behind, what two
threads or two hosts do to each other. Every definition is translated from the
source; PROJECT.json maps each one to its lines. TLC checks the modules on small
instances, TLAPS proves the most important properties for every instance.

## 1. The system and its parts

| part | state it keeps | operations | talks to | what is hard |
|---|---|---|---|---|
| **plan/approval/apply protocol** (`runtime/scripts/rt_core.py`, `rt_apply_once.py`, `rt_apply.py`) | plan and approval records, apply journal, run and work directories, receipts | `plan/validate`, `approval/request`, `approval/resolve`, `plan/apply` | session files, engine, event log | several host processes on one root, death at every step, lost answers and retries, an older runtime's leavings |
| **event log and subscriptions** (`rt_session.py`, `rt_server.py`) | `events.jsonl`, subscription table with cursors, poller thread | append, read, subscribe, unsubscribe, push | every host appends; one client per connection | two delivering threads, reads without the lock, torn lines, a thread that is ending |
| **protocol server** (`rt_server.py`, `rt_jsonl.py`) | seen and cancelled identifiers, initialized flag | frame in, frame out, cancel | client, core | the reader thread cancels what the main thread runs |
| **coordination state** (`scripts/coordination_state.py`) | twelve JSON documents, a journal of prepared transactions, leases with epochs | tasks, fenced leases, checkpoints, replacement, operations, results, messages | several agents through one directory | a crash between any two files, stale holders, a lock whose owner died |
| **report pipeline kernel** (`modules/report/scripts/pipeline_ctl.py`) | workspace header, stage table, approvals, amendment receipts | check, gate, advance, block, invalidate, reopen, amend-open, amend-close | writers and checkers through files | long command sequences, a stop between two writes |
| **sidecar supervisor** (`desktop/src-tauri/src/sidecar.rs`, `main.rs`) | child process, status, table of pending calls, tag table, next identifier | start, call, cancel, stop | protocol server over pipes | three threads around one table, time-outs against late answers |
| **workbench** (`desktop/src/`) | queue of operations and its plan, approval, chosen head, outcomes of applies, generations | edit, remove, propose again, choose document or head, instruct an agent, approve, apply, recover | sidecar | answers that arrive after the page moved on, applies whose answer is lost |
| **agent host** (`agenthost/scripts/`) | one bounded session | propose, validate, request approval | providers, runtime | refusals and budgets |
| **document engine, checkers, modules, evaluation, packaging** | documents | single-shot transformations | files | data, not control |

What each part must guarantee, and every place where it could go wrong, is in
PROJECT.json under "hazards", each at its line.

## 2. Modules

| module | what it is |
|---|---|
| `OneCandidate` | abstract: a plan has at most one candidate, and every host is answered with that one |
| `ApplyOnce` | the protocol: one action per durable step of a request, any number of hosts |
| `MCApplyOnce` | its instances for TLC |
| `ApplyOnceProofs` | its theorems |
| `EventLog` | `append_event` and `read_events`: lock, torn tail, repair |
| `EventStream` | subscriptions over that log: main thread and poller |
| `MCEventStream` | its instances for TLC |
| `EventStreamProofs` | its theorems |
| `AtomicStore` | abstract: a transaction over several documents, the revision and the event log takes effect at once and once |
| `Ledger` | the coordination directory: lock file, journal, recovery, file by file |
| `MCLedger` | its instances for TLC |
| `LedgerProofs` | its theorems |
| `Coordination` | what the operations on that directory do to tasks, leases, checkpoints and results |
| `MCCoordination` | its instances for TLC |
| `CoordinationProofs` | its theorems |
| `Pipeline` | the stage machine of the report pipeline: gates, checkers, amendments |
| `MCPipeline`, `PipelineProofs` | its instances for TLC, its theorems |
| `RpcServer` | the request loop of the runtime server, one per child process |
| `Sidecar` | the desktop shell's supervisor over that server: it extends `RpcServer` |
| `SidecarProofs` | theorems about both together |
| `Workbench` | the desktop page between a keystroke and a candidate |
| `MCWorkbench` | its instance for TLC |
| `WorkbenchProofs` | what is shown is what is applied, applied once, shown on its own document, and never over a newer intent |

A definition with an underscore in its name (`LockFree_Unchecked`) is a mutant of
the definition after it: a plausible bug. No other definition uses it; it is
there so that one can replace the original by it and see a property fail.

### ApplyOnce

State: `planState` and `approval` are the saved records, `journal` is
`apply-attempts/<plan>.json`, `receipt` the commit record of each run,
`runDirs` and `workDirs` what exists on disk, `lock` the plan's lock file,
`events` the completion events on the session's stream. Each host has a program
counter and what its request holds in memory: the approval it names, the plan's
state *as read before the lock*, the run, the exception that is unwinding.

`plan/apply` is the chain ReadPlan, ReadApproval, TryLock, Inspect (a replay goes
through Verify), Execute, MakeDirs, RunEngine, PublishReceipt, Tidy, Reconcile,
EmitApplied, EmitPublished, Complete, with CleanUp and Settle on the way out of a
refusal, a cancellation or a fault. `Crash` may end any of them; the operating
system then drops the lock. Records are saved whole, over whatever another host
wrote since they were read, as in the code. The contents of documents are
abstracted: the engine succeeds, refuses, is cancelled or fails; the digest the
plan binds is the flag `source`, the digests a receipt binds are `tampered`.

Merged steps: the two `mkdir`s, the two `rmtree`s and the engine with its
verification are one action each with every combination of outcomes, because only
the lock holder reads these directories. Several resolves of one approval, and the
retry after a lost answer, are ordinary further requests.

### EventLog and EventStream

A line is an index: terminated lines either parse or are wreckage (`bad`), and at
most one unterminated line follows. `Begin` takes the lock (or fails to, which
the code tolerates) and probes the last byte, `Write` makes the first bytes
visible, `Landed` ends the line, `Torn` is a death or an `OSError` in the middle.
The probe is merged with the lock since nobody else may write in between.

A drain is Read (or ReadNothing), Commit, Notify for each frame, Drained, on
either thread. The read of the cursor and of the file are one action: the cursor
of a subscription another thread moves in between is read by the same statement
that starts the read. `Subscribe`, `Respond` and `StartPoller` are the handler,
the response and the post-send hook. The subscription table's limit is `MaxSubs`,
`MAX_EVENTS_PER_POLL` is `Limit`.

### Ledger

A process is one incarnation, pid and start time; threads of one are serialised
by `_thread_lock`. `lock` is the owner in `.coordination.lock`, `wal` the files
in `.transactions`, `content`, `revision`, `log` and `tail` the documents,
`meta.json` and `events.jsonl`. Claim is the hard link, Suspect the reads that
find the owner dead, Reclaim the unlink by name, Leave `__exit__`, which may fail
to remove the lock. Recover, WriteFile, FilesWritten, AppendEvent and Clear are
`_recover_locked` and `_atomic_transaction`, one durable write at a time;
`Fail` is an `OSError`, or a refusal raised between writes, which leaves the
journal file where it is, `Crash` a death. A torn append is a fragment, or a
whole record without its newline.

An operation is abstracted to the documents it rewrites and the number of events
it reports, at least one (nothing calls `_next_revision`, the only exception). A
document's content is the set of transactions it has been through, so that a lost
or doubled update would show. The two reads of the owner record that precede a
takeover are one step: a dead owner's record does not come back. The refinement
to `AtomicStore` completes what the journal holds: the transaction takes effect
when its journal file appears.

### Coordination

Each operation of `CoordinationState` is one action, which the refinement above
justifies. A lease's epoch and its fencing token are one number; `grants[r]`
lists the holders by epoch, so its last element is the holder on record. A
clock is whether a lease is `fresh` or `expired`. `evidence` is what
`workers.json` says of a process, `alive` the truth. `working` and `writtenOff`
are history: under which grants a running process believes it owns the task,
and which of these an operator knew of when resolving a recovery.

Assumed of the users of the directory: whoever records a worker as dead or stopped
is right at that time (it may be restarted later, and then registers); a
checkpoint is written by the holder, or for it once it is dead. Nothing is
assumed of how late a call arrives. Task revisions are left out: they refuse calls
made on old reads, and every caller may read again. Quotas and capabilities choose
among workers; here any or none may be eligible. The coordinator is one of the
workers.

### Pipeline

State: the fields of `PIPELINE.md` (`status`, `gate`, `pointer`, `marker`,
`amendments`), the files written after it (`receipts`, `checks`, `handoff`), and
`todo`, the writes the command under way has still to do. `Stop` drops them: it
is a crash, or a handoff that cannot be written, which the code ignores. Each
command of `pipeline_ctl.py` is one action up to the save of the header; the
operator's line in APPROVALS.md is an argument, `Lines`. Times are to the second
and are only ever compared with the opening of an amendment, so a gate and a
checker's record carry whether they are not before it (`fresh`). The clock does
not go back. Assumed: one orchestrator, one command at a time. The code takes no
lock, so two concurrent commands may lose one another's update.

### RpcServer and Sidecar

`RpcServer` is one process: `stdin` and `stdout` are the pipes, ReadFrame the
reader thread, Take, Complete and Checkpoint the main thread. `Sidecar` adds the
shell. Of `runtime_start`, `runtime_call` and `runtime_stop` one is under way at a
time, because each holds the manager's mutex; `pc` says where. Its steps are cut
where a lock is taken or dropped: CheckRunning, Register, Write, and then Receive,
Timeout or Disconnected; CloseStdin, Reap, Spawn for a restart. Each process has
a reading thread (TakeWaiter, Send: the waiter leaves the table before its answer
is sent) and a watching one (WatchStale, NoticeExit, DropWaiters). A cancel
command is LookUp and, any time later, WriteCancel to whatever stdin is then open.

A request carries the number of its call beside its identifier. The program does
not send it; it is there so that a clash of identifiers would be seen. Merged: the
clearing of table, tags and status in `shutdown`, and the spawn with the start of
its threads, since no call is under way then. A process that reads the end of its
input is among the deaths. All of it is Windows, where the product runs: elsewhere
`process_alive` says TRUE and no exit is noticed. Also true of the code, and in the
model: a failed handshake leaves the process running, and later calls to it are
refused; a watcher may notice the exit before the handshake's success is noted, and
the status is then initialized and not running.

### Workbench

The page is single-threaded; what interleaves is what follows each `await`. An
exported function of `actions.ts` is an action up to its await and leaves a task
in `tasks` with what it captured; the answers are actions on a task, in any order
(Proposed, Loaded, HeadRead, AgentDone, Adopted, Requested, Decided, DecisionFails,
Applied, ApplyFails, LateEnd, Recovered, NotRecovered), with the checks the code
makes before it believes them (`Fresh`, `OwnsDraft`, `OwnsFence`, `BindingExists`,
`SameView`, `StillOwned`). `plans`, `approvals` and `runs` are what the
runtime has on record; that an apply publishes at most one candidate is what
`ApplyOnce` shows. An apply whose answer is lost becomes a task `late`: it
may publish any time, or never. `consent` and `unsure` are history.

An object of the page is a value: a queue carries its generation, so two are equal
when they are one object. `EMPTY_DRAFT` is a single object in the code too, so
an edit and a clear while an agent runs go unnoticed in both. Folded: the
proposal and the validation of a plan, and the list and the receipt a recovery
reads, as the same checks follow both awaits. Left out: text and geometry, the redo stack,
inverse proposals, module reports.

## 3. Runs

| run | instance | shows |
|---|---|---|
| `apply_safety` | 2 hosts, 2 runs, 2 approvals and a foreign one, every legacy root | the safety properties and the refinement of `OneCandidate` |
| `apply_retry` | 2 hosts, 1 run | a published receipt is recovered by a retrying client |
| `events_safety` | 2 writers, 2 subscriptions, 1 event per drain | nothing is skipped, nothing changes after delivery, first subscription in order |
| `events_served` | 1 writer, 2 lines, 1 subscription | every completed append is delivered |
| `events_lost` | violation | a new subscription is left without a poller |
| `ledger_atomic` | 3 processes, 2 documents, 3 transactions, up to 2 events each | one process inside at a time, recovery is never bypassed, `AtomicStore` is implemented |
| `ledger_stolen` | violation | a living process's lock is removed |
| `leases` | 2 workers, 2 tasks, 3 grants of each | no duplicate work, one result, late results fenced, a checkpoint resumed once, dependencies acyclic and accepted before anybody builds on them |
| `leases_checkpoint` | violation | a checkpointed task is granted without its checkpoint |
| `pipeline_amend` | 2 stages, 2 graphs, 2 modes, 2 amendments | a stage is amending exactly while an amendment is open over it, the marker names an open one, no stage is done past a checker unjudged, receipts are truthful |
| `sidecar_restart` | 2 processes, 3 calls | answers, cancellations and handshakes go to their own call and process; no call outwaits its process |
| `workbench_review` | 2 documents, 2 operations, 3 queues, 2 approvals, 2 candidates, 2 waiting functions | late answers take nothing from the queue, what is applied is what is shown and was agreed to, once, and outcomes belong to their document |

Bounds. Two hosts are enough for every race over one plan: the lock holder and
one other. Two runs give one lost attempt and one retry; a third behaves as the
second. `Runs`, `Ids` and `MaxLines` run out, after which only some requests are
refused, so deadlock is not checked: the system really stops when no identifier
is left. One event per drain (`Limit = 1`) with two lines makes a drain stop in
the middle of the log. The two writers of `events_safety` are a dead one and the
one who repairs after it.

Three processes: one that dies with a lock, one that takes it over and one that
has suspected the same owner. A recovery can itself be cut short twice with three
of them; since a recovery precedes every commit, there is never more than one
transaction to finish. `MCLedger!UntilStolen` stops after a theft, of which nothing is
claimed. Three grants let a task be taken from a worker, and from the one who took
it, and be given back; dependencies need two tasks, and no second worker: the run
`leases` explores both, and `MCCoordination!Focus` leaves out their combination
(two tasks with many grants and two workers). The
directory's processes may all be dead, and then it stops; a task can always still be
marked or a worker reported, so `Coordination` never does.

Two stages: the amended one and one after it, which is invalidated with it; the
second stage is the assembly, whose canonical pointer is checked. Two amendments
may be nested, side by side, or reopen the same stage. The two graphs put a human gate before a
checker's and a checker's before none. In `sidecar_restart` two of the three calls
may be handshakes: a call to the first process, a restart, and a call to the second
which the first call's leavings would reach. Both runs check for deadlock, as the
operator or the user can always do something (`MaxCalls` and `MaxSpawns` still let
the shell stop and close). `workbench_review` has two sessions, because what a
switch disturbs is one queue; at most `MaxTasks` = 2 functions wait when the user
starts another, and an answer may add a third. `MCWorkbench!Focus` spends the
bounds on three families: two applies of two queues; three queues and one apply; two
queues and one apply with either an agent or a chosen head.

The properties are commented where they are defined. Those that took most care:
`JournalTruthful` and `Custody` (what the lock holder may rely on although the
steps are far apart), `AnswersAgree` (hosts and crashes agree on one candidate),
`NoBlindRetry` (an attempt of unknown outcome is never given up),
`NothingSkipped` (a cursor passes only what was sent, is being sent, or is
wreckage, whichever threads drain), `AppliesOnce` (an apply whose answer is lost is
not sent again, wherever the user has been since), `NewerIntentWins` (no answer,
however late, takes an operation from the queue but by applying it).

### Fairness

`ApplyOnce!FairSpec`: a host that has begun a request keeps running (weak
fairness of its steps: one thread, no waiting, `plan_lock` never blocks). The
client whose answer was lost sends `plan/apply` again until it is served: strong
fairness of `ReadPlan` and of a lock attempt that finds the lock free, the
documented use of the protocol. Crashes, tampering and source changes stop
eventually. `EventStream!FairSpec`: the main thread and the poller keep running;
writers and clients owe nothing. `Sidecar!FairSpec`: the threads of the shell run
(weak fairness of Receive, Disconnected, and each process's reader and watcher);
nothing is asked of the clock, which would make `EndsWithChild` hold by time-out,
nor of the user or the server. `Pipeline` and `Workbench` have no fairness: an
operator may stop for good, and a user too.

## 4. Disagreements between documents and code

Three are runs whose counterexamples show them; the quotations are in PROJECT.json.
A subscription made while the poller thread ends gets no poller (`events_lost`).
The lock of a dead owner is removed by name, so that a second contender can remove
a living owner's (`ledger_stolen`). A question nobody can take makes a
checkpointed task an ordinary one (`leases_checkpoint`).

Others are stated as definitions, found violated by TLC, and not among the runs:

- `ApplyOnce!CancelledIsRetryable`: a cancelled apply stays `pending` in the journal,
  hence can never be retried, because `Cancelled` is no `RpcError`
  (`rt_apply_once.py:119`).
- `EventStream!OnceInOrder`: the guard against two drains compares an entry with
  itself, so an event may be sent twice.
- `Coordination!SideEffectsResolved`: an operation in flight does not keep its task
  from being granted to somebody else, although the continuity protocol asks for
  recovery first.
- `Pipeline!CompleteIsClosed`: the handoff and NEXT_TASK say that the workflow is
  complete while an amendment is open, as `workspace_organizer.py:55` does not
  look at `amending` (the comment at `pipeline_ctl.py:1012` says otherwise).
- `Sidecar!DroppedWithChild`: the watcher of a dead process checks that it is not
  stale, drops the status lock and then clears the table, which may by then hold a
  waiter of the next process (`sidecar.rs:482`).
- `Workbench!QueueOfOneDocument`: an edit made after a move to another document
  joins the operations typed in the one left, and all are proposed for the new one
  (`actions.ts:660`; the comment at 218 says that a queue belongs to its document).
- `Workbench!LeftQueueIsStale`: a queue left while its plan is being proposed is not
  reported stale, and when the answer is ignored it stays in phase `starting`.

Met while modelling, without a property: `resume` answers that all stages are done
when one is `blocked`; a stop between the save of an opened amendment and its receipt
leaves one that amend-close, invalidate and advance refuse for good; an undated
approval from before a reopening satisfies amend-close; when `getApproval` fails
as an agent's plan is adopted, the page neither offers a decision nor a request until
the next edit. The order of a subscription's events and its response is what
`FirstInOrder` says, only where no other subscription is made.

## 5. Proofs

Constants are arbitrary, apart from the named assumptions (`ConstantsAssumption`,
`LogAssumption`, `StreamAssumption`, `LedgerAssumption`,
`CoordinationAssumption`, and those of `Pipeline`, `RpcServer`, `Sidecar` and
`Workbench`): any number of hosts, runs, approvals, writers, subscriptions, processes,
documents, workers, tasks, stages, amendments, child processes, calls, edits and
waiting functions.
Type invariants are proved and are in no run.

`ApplyOnceProofs`. The inductive invariant joins the type invariant with what a
host must hold in memory at each step (`Typed`), `LockHeld`, `JournalTruthful`,
`AnswersAgree` and `InCharge`. `JournalTruthful` alone is not inductive: a
receipt lands in the run its host remembers, so the invariant has to say that
this run is the journaled one (`InCharge`), for which the host must still be the
lock's only holder (`LockHeld`). From it follow `PublishOnce`, `NoBlindRetry` and
the refinement of `OneCandidate`; `SignedReceipts` has an invariant of its own.
`Custody` joins `InCharge` with what the host at work owes to the event stream
(`Owing`): past each append its event is on file or known to be dropped, and only one
that found the journal published appends none. `CompletionEvents` follows when the
journal is completed, and `AppliedAfterReceipt` because every other save of the plan
record writes a state other than applied (`Modest`).

`EventStreamProofs`. Types; `AppendsSurvive`, by the fact that an append which
holds the lock has found the true state of the last byte; `NothingSkipped`, by the
invariant that what a thread has read covers the stretch from the cursor at
that time to `upto`, and cursors only meet stretches that are sent or in flight;
`DeliveredIsLogged` on top of both. `FirstInOrder` is about the first subscription while
it is the only one, and its invariant (`Sole`, `SoleServed`) says that one thread
drains it: nobody before the response that tells the client of it, from then on a
single poller, whose batch lies between what was sent and the cursor it will write.
`FirstIsTended`, which no run states, adds that this poller does not leave while the
subscription lives, the safety half of `EveryoneIsServed` (`Tended`); `events_lost` shows
that a second subscription can be left without.

`LedgerProofs`. Everything but types and `Deaths` is claimed up to the first theft of
a lock. Until then whoever is inside owns the lock (`Owner`), at most one
transaction is prepared, and of its events an initial stretch is in the log
(`Journal`); a process at work on it has brought the files it no longer has to
write to their new contents, and counts no event that is not in the log
(`Progress`). The last clause is what makes a second recovery harmless:
an event it finds logged is behind the end of that stretch, one it does not find
is the next. `Owner` needs `Deaths`: a lock is only taken over from the dead, who
are nowhere. For the refinement, a prepared transaction shows the same documents,
revision and log whichever of its writes have been done (`View`, `Unseen`), so only
the appearance of the journal file is a step of `AtomicStore`.

`CoordinationProofs`. The invariant joins the types, the truth of what is on record of
a dead worker (`Truthful`), that only registered tasks are granted and only granted
ones checkpointed (`Granted`), and `Holding`: a running process that thinks it owns a
task has its latest grant, and the lease is active or an operator is asked, unless it
was written off. `NoDuplicate` alone is not inductive: a grant to a second worker is
harmless only because the first one's lease had to end before, in one of the ways
`Holding` lists. `LateIsFenced` and `ResumedOnce` are steps from the same invariant;
`BuildsOnAccepted` rests on the finality of decisions. `NoCircle` has an invariant of
its own, stated over sets of tasks: every nonempty set has a member that waits for
nobody in the set, which a registration keeps, because what the new task names and all
that this waits for form a set without the new task (`RegisterNoCircle`).

`PipelineProofs`. The invariant joins the types with what ties the header to itself
(`AmendingIffOpen`, `MarkerNamesOpen`, `DoneIsJudged`) and what ties the
files to the header (`ReceiptsTruthful`): an amendment's scope never changes
and a closed one is not opened again, so a receipt stays true even when the command
that owed another was cut short. `FinishedSettled` says what resume's answer
is worth.

`SidecarProofs`. An identifier is the number of its call, as `next_id` is never
reset. Hence every request and answer in a pipe, a queue or a thread bears the number
of its call (`Data`), and a cancel frame names an earlier call or, once the user has
asked, the present one (`Cancellable`). That set only grows, which makes the
typing of all pipes and tables by it inductive (`StillCancellable`, `Grown`);
`AnswerIsOwn` and `CancelledWasAsked` follow at the step that ends a call.
`HandshakeFirst` needs to know what is in the pipes as well (`Traffic`): a request of
the call under way is with the child in use (`Asked`), and an answer to it says
"not initialized" only if the shell knows that its handshake failed (`Given`), because
an accepted handshake means that the child in use has accepted it, or is dead
(`Handshake`, `Greeted`). Three more theorems are stated in no run. `WaitersAreWatched` is
what is left of `EndsWithChild` without time: the thread that watches the child of a
waiting call is there and the status still names that child, so it will clear the
table (`Watched`). `AnswersInOrder` and `NoRequestTwice` come from the rise of
identifiers along a child's input, queue and output (`Lined`).

`WorkbenchProofs`. `AppliesWhatIsShown` rests on `Records`: every plan number the
page holds is on record with the same document, operations and base, and every
approval that stands has been consented to for its plan; a function that comes back
from its await brings numbers that were on record when it was called, and records
do not change. `AppliesOnce` rests on plan numbers being used once (`Adoptable`):
as long as the draft has the plan of an apply whose answer was lost, the outcome
kept for its document is that very apply, so the page offers recovery in its place;
while an apply is under way the draft cannot have such a plan (`Once`).
`OutcomeIsOwn` rests on `Truth`: every candidate is of the document of its plan, a
function that waits for an apply or a recovery holds a plan of the document it was
called in, and what the page shows is what is kept for the active document.
`NewerIntentWins` rests on `Intent`: what an agent was asked for is newer than
everything in the queue it was asked beside, and is adopted only while that is still
the queue.

Every safety property and action property of a passing run is a theorem. Only
model-checked: liveness (`RetryRecovers`, `EveryoneIsServed`, `EndsWithChild`), which
is outside this prover's reach, and the violations. `Workbench` has no type
theorem: the last candidate in lineage order (`HeadCandidate`) is found by recursion
over the rows, and what that computes would need an induction over data; its proofs
use the shapes of the records they read (`Shapes`) instead.

## 6. Plan

In this order; the first seven are done.

1. `OneCandidate`, `ApplyOnce`: the promise a user of the product relies on.
2. `EventLog`, `EventStream`: what a client sees of it.
3. `AtomicStore`, `Ledger`: the prepared transaction over several files and its
   recovery, the lock and its takeover.
4. `Coordination`: leases, checkpoints, replacement, results over that store.
   Left: task revisions, quotas, agent messages.
5. `Pipeline`: gates, checkers and amendments, with a stop between two writes.
   Left: liveness. That an open amendment can always be closed needs the
   operator's help and was too slow to check at a size where it says anything.
6. `RpcServer`, `Sidecar`: one answer per request, cancellation against completion,
   restart. Left: malformed frames, notifications over the same pipe.
7. `Workbench`: from the keystroke to the candidate. Left: the lease of the caret
   (`revision.ts`), inverse proposals.
8. The bounded loop of the agent host.

### Not modelled

The document engine, renderers, checkers and document-type modules are functions of
document contents without control of their own: most of the lines of this
repository, and nothing a state machine would say about them is more than the code
says. Installation, packaging, evaluation, the local web view, the desktop's
presentation and its operating-system services are single-shot or external. The
agent host's second child process is supervised with the means of `Sidecar`, for one
run at a time.
