------------------------------ MODULE Pipeline ------------------------------
(***************************************************************************)
(* The stage machine of the report pipeline: pipeline_ctl.py, with the     *)
(* handoff that workspace_organizer.py derives after each command and the  *)
(* pointer check amend-close delegates to check_canonical.py.              *)
(*                                                                         *)
(* A workspace is a header (PIPELINE.md), rewritten whole by each command, *)
(* and files written after it: amendment receipts, records of checker      *)
(* runs, the handoff.  One orchestrator runs one command at a time, but    *)
(* the process may stop between the writes of a command: what is left to   *)
(* write is the variable todo.  The operator (APPROVALS.md) and the agent  *)
(* (the deliverable, the canonical pointer) act between commands.          *)
(*                                                                         *)
(* Times are to the second and are only compared with the time an          *)
(* amendment was opened: a gate's resolution and a checker's record carry  *)
(* whether they are not before the opening of their stage's amendment, and *)
(* what precedes it by less than a second may count as not before.         *)
(*                                                                         *)
(* Bound: MaxAmendments amendments.                                        *)
(***************************************************************************)
EXTENDS Integers, Sequences

CONSTANTS
  Last,          \* stages are 1 .. Last, in the order of stages.yaml
  Graphs,        \* stage graphs: the declared type of each stage's gate
  Assemble,      \* the stage "5": it and later ones need a canonical output
  Modes, MaxAmendments,
  None

Stages == 1 .. Last
Ids == 1 .. MaxAmendments

ASSUME GraphAssumption ==
  /\ Last \in Nat /\ Assemble \in Stages
  /\ Graphs \subseteq [Stages -> {"none", "human", "script"}]
ASSUME ModesAssumption == Modes \subseteq {"autonomous", "supervised", "night"}
ASSUME BoundAssumption == MaxAmendments \in Nat
ASSUME NoneAssumption == None \notin Int

VARIABLES
  \* PIPELINE.md
  graph, mode, status, gate,
  pointer,       \* canonical_output names the deliverable
  marker,        \* canonical_invalidated_by
  amendments,
  \* the other files
  receipts,      \* signed amendment receipts: <<id, "open" or "close">>
  checks,        \* the last gate_checks.jsonl record of each script gate
  handoff,       \* handoff.json: completed_stage, and no next_stage
  todo           \* what the command under way has yet to write

header == <<graph, mode, status, gate, pointer, marker, amendments>>
files == <<receipts, checks, handoff>>
vars == <<header, files, todo>>

Statuses ==
  {"pending", "in_progress", "awaiting_gate", "done", "blocked", "amending"}
Green == {"approved", "auto_approved"}
Resolved(state, fresh) == [state |-> state, fresh |-> fresh]
Unresolved == Resolved("pending", TRUE)

\* What APPROVALS.md says of a gate: a line that rejects it wins over one that
\* approves it, which stands for now unless it bears an earlier time.
Lines == {"nothing", "rejected", "approved", "approved before"}

Gated(s) == graph[s] # "none"
Script(s) == graph[s] = "script"
Human(s) == graph[s] = "human"
Entry(s, open) == [scope |-> s, open |-> open]
Opened(a) == a \in DOMAIN amendments /\ amendments[a].open
Covers(a, s) == Opened(a) /\ amendments[a].scope = s

(***************************************************************************)
(* The writes that follow the header's.                                    *)
(***************************************************************************)
Receipt(a, kind) == [write |-> "receipt", id |-> a, kind |-> kind]
Record(s, exit) == [write |-> "check", stage |-> s, exit |-> exit]
Handoff(completed) == [write |-> "handoff", completed |-> completed]

\* _next_stage finds nothing to do: it does not look at "amending".
Unfinished == {"pending", "in_progress", "awaiting_gate", "blocked"}
Complete == \A s \in Stages : status[s] \notin Unfinished

Init ==
  /\ graph \in Graphs /\ mode \in Modes
  /\ status = [s \in Stages |-> "pending"]
  /\ gate = [s \in Stages |-> Unresolved]
  /\ pointer = FALSE /\ marker = None /\ amendments = <<>>
  /\ receipts = {} /\ checks = [s \in Stages |-> None]
  /\ handoff = [completed |-> None, complete |-> FALSE]
  /\ todo = <<>>

Idle == todo = <<>>

WriteReceipt ==
  /\ ~Idle /\ Head(todo).write = "receipt"
  /\ receipts' = receipts \cup {<<Head(todo).id, Head(todo).kind>>}
  /\ todo' = Tail(todo)
  /\ UNCHANGED <<header, checks, handoff>>

\* A record that cannot be written is skipped silently.
WriteCheck ==
  /\ ~Idle /\ Head(todo).write = "check"
  /\ \/ checks' = [checks EXCEPT ![Head(todo).stage] =
                       [exit |-> Head(todo).exit, fresh |-> TRUE]]
     \/ UNCHANGED checks
  /\ todo' = Tail(todo)
  /\ UNCHANGED <<header, receipts, handoff>>

WriteHandoff ==
  /\ ~Idle /\ Head(todo).write = "handoff"
  /\ handoff' = [completed |-> Head(todo).completed, complete |-> Complete]
  /\ todo' = Tail(todo)
  /\ UNCHANGED <<header, receipts, checks>>

\* The process stops between two writes, and nothing resumes the command; a
\* handoff that cannot be written is skipped too, with the same effect.
Stop ==
  /\ ~Idle
  /\ todo' = <<>>
  /\ UNCHANGED <<header, files>>

(***************************************************************************)
(* advance                                                                 *)
(***************************************************************************)
Legal(from) ==
  CASE from = "pending" -> {"in_progress", "awaiting_gate", "done", "blocked"}
    [] from = "in_progress" -> {"awaiting_gate", "done", "blocked"}
    [] from = "awaiting_gate" -> {"in_progress", "done", "blocked"}
    [] from = "blocked" -> {"in_progress"}
    [] OTHER -> {}

EarlierBlocks_Supervised(s) ==
  \E e \in 1 .. (s - 1) :
    /\ Gated(e)
    /\ \/ gate[e].state = "rejected"
       \/ (gate[e].state = "pending" /\ mode = "supervised")
\* stage_gate_blocks: the gates of earlier stages, not their statuses.
EarlierBlocks(s) ==
  \E e \in 1 .. (s - 1) :
    /\ Gated(e)
    /\ \/ gate[e].state = "rejected"
       \/ (gate[e].state = "pending" /\ (Script(e) \/ mode = "supervised"))

\* own_gate_blocks_done
OwnBlocks(s) ==
  /\ Gated(s)
  /\ \/ gate[s].state = "rejected"
     \/ (Script(s) /\ gate[s].state \notin Green)

Advance(s, to) ==
  /\ Idle
  /\ to = status[s] \/ to \in Legal(status[s])
  /\ to \in {"in_progress", "awaiting_gate", "done"} => ~EarlierBlocks(s)
  /\ to = "done" => ~OwnBlocks(s)
  /\ status' = [status EXCEPT ![s] = to]
  /\ todo' = <<Handoff(IF to \in {"done", "blocked"} THEN s ELSE None)>>
  /\ UNCHANGED <<graph, mode, gate, pointer, marker, amendments, files>>

(***************************************************************************)
(* gate and check.  The mode that gate goes by is its own argument, which  *)
(* it does not compare with the header's.                                  *)
(***************************************************************************)
Gate(s, by, line) ==
  /\ Idle /\ Human(s)
  /\ line = "nothing" => by # "supervised"
  /\ line = "approved before" => status[s] = "amending"
  /\ gate' = [gate EXCEPT ![s] =
       CASE line = "nothing" -> Resolved("auto_approved", TRUE)
         [] line = "rejected" -> Resolved("rejected", TRUE)
         [] line = "approved" -> Resolved("approved", TRUE)
         [] line = "approved before" -> Resolved("approved", FALSE)]
  /\ todo' = <<Handoff(None)>>
  /\ UNCHANGED <<graph, mode, status, pointer, marker, amendments, files>>

\* The checker reads the workspace and exits with zero or not.
Check(s, exit) ==
  /\ Idle /\ Script(s)
  /\ gate' = [gate EXCEPT ![s] =
       Resolved(IF exit = 0 THEN "auto_approved" ELSE "rejected", TRUE)]
  /\ todo' = <<Record(s, exit), Handoff(None)>>
  /\ UNCHANGED <<graph, mode, status, pointer, marker, amendments, files>>

(***************************************************************************)
(* invalidate                                                              *)
(***************************************************************************)
Pinned_Itself(s) == \E a \in Ids : Covers(a, s)
Pinned(s) == \E a \in Ids, t \in s .. Last : Covers(a, t)

KeepsPointer(s) == s > Assemble

Invalidate(s) ==
  /\ Idle /\ ~Pinned(s)
  /\ status' = [t \in Stages |-> IF t >= s THEN "pending" ELSE status[t]]
  /\ gate' = [t \in Stages |-> IF t >= s THEN Unresolved ELSE gate[t]]
  /\ pointer' = (pointer /\ KeepsPointer(s))
  /\ todo' = <<Handoff(None)>>
  /\ UNCHANGED <<graph, mode, marker, amendments, files>>

(***************************************************************************)
(* reopen and amend-close                                                  *)
(***************************************************************************)
MarkAfterReopen(a) == IF pointer /\ marker = None THEN a ELSE marker
MarkAfterClose_Kept(a) == marker
MarkAfterClose(a) == IF marker = a THEN None ELSE marker
Signed_Assumed(a) == TRUE
Signed(a) == <<a, "open">> \in receipts

\* The record of a checker that ran in the same second stays fresh.
Reopen(s, sameSecond) ==
  LET a == Len(amendments) + 1
  IN  /\ Idle /\ a \in Ids
      /\ status[s] = "done" /\ ~\E b \in Ids : Covers(b, s)
      /\ amendments' = Append(amendments, Entry(s, TRUE))
      /\ marker' = MarkAfterReopen(a)
      /\ status' = [status EXCEPT ![s] = "amending"]
      /\ gate' = [gate EXCEPT ![s] = Unresolved]
      /\ checks' = [checks EXCEPT ![s] =
                       IF @ = None \/ sameSecond THEN @
                       ELSE [@ EXCEPT !.fresh = FALSE]]
      /\ todo' = <<Receipt(a, "open"), Handoff(None)>>
      /\ UNCHANGED <<graph, mode, pointer, receipts, handoff>>

\* check_canonical: without a pointer no delivery stage may claim to be done.
Claims ==
  \/ \E s \in Assemble .. Last : status[s] = "done"
  \/ /\ handoff.completed # None
     /\ handoff.completed >= Assemble \/ handoff.complete
Found == {"missing", "contradicted", "good"}
Canonical(found) == IF pointer THEN found # "missing" ELSE ~Claims

\* The reopened stage's gate was resolved, and its checker last ran, green
\* since the amendment was opened.
Rerun(s) ==
  /\ gate[s].state \in Green /\ gate[s].fresh
  /\ Script(s) => checks[s] # None /\ checks[s].exit = 0 /\ checks[s].fresh

AmendClose(a, found) ==
  /\ Idle /\ Opened(a)
  /\ Signed(a)
  /\ LET s == amendments[a].scope
     IN  /\ status[s] = "amending"
         /\ Gated(s) => Rerun(s)
         /\ status' = [status EXCEPT ![s] = "done"]
  /\ marker = a => pointer
  /\ Canonical(found) /\ found # "contradicted"
  /\ amendments' = [amendments EXCEPT ![a] = Entry(@.scope, FALSE)]
  /\ marker' = MarkAfterClose(a)
  /\ todo' = <<Receipt(a, "close"), Handoff(None)>>
  /\ UNCHANGED <<graph, mode, gate, pointer, files>>

(***************************************************************************)
(* Between commands the agent edits canonical_output.                      *)
(***************************************************************************)
Designate ==
  /\ Idle
  /\ pointer' = TRUE
  /\ UNCHANGED <<graph, mode, status, gate, marker, amendments, files, todo>>

Next ==
  \/ WriteReceipt \/ WriteCheck \/ WriteHandoff \/ Stop
  \/ \E s \in Stages :
       \/ \E to \in {"in_progress", "awaiting_gate", "done", "blocked"} :
            Advance(s, to)
       \/ \E by \in Modes, line \in Lines : Gate(s, by, line)
       \/ \E exit \in {0, 1} : Check(s, exit)
       \/ Invalidate(s)
       \/ \E sameSecond \in BOOLEAN : Reopen(s, sameSecond)
  \/ \E a \in Ids, found \in Found : AmendClose(a, found)
  \/ Designate

Spec == Init /\ [][Next]_vars

\* What resume answers as "all stages done".
ResumesFinished ==
  /\ \A s \in Stages :
       status[s] \notin {"pending", "in_progress", "awaiting_gate"}
  /\ ~\E a \in Ids : Opened(a)

-----------------------------------------------------------------------------
Amendment == [scope : Stages, open : BOOLEAN]
GateState == [state : Green \cup {"pending", "rejected"}, fresh : BOOLEAN]
CheckRecord == {None} \cup [exit : {0, 1}, fresh : BOOLEAN]
Write ==
  [write : {"receipt"}, id : Ids, kind : {"open", "close"}]
    \cup [write : {"check"}, stage : Stages, exit : {0, 1}]
    \cup [write : {"handoff"}, completed : Stages \cup {None}]

TypeOK ==
  /\ graph \in Graphs /\ mode \in Modes
  /\ status \in [Stages -> Statuses]
  /\ gate \in [Stages -> GateState]
  /\ pointer \in BOOLEAN /\ marker \in Ids \cup {None}
  /\ amendments \in Seq(Amendment)
  /\ Len(amendments) <= MaxAmendments
  /\ receipts \subseteq Ids \X {"open", "close"}
  /\ checks \in [Stages -> CheckRecord]
  /\ handoff \in [completed : Stages \cup {None}, complete : BOOLEAN]
  /\ todo \in Seq(Write)

\* A stage is in the amending status exactly while one open amendment covers
\* it: invalidate refuses to take it away, which would leave the amendment
\* open for ever (amend-close asks for that status), and advance has no way out.
AmendingIffOpen ==
  \A s \in Stages :
    /\ status[s] = "amending" <=> \E a \in Ids : Covers(a, s)
    /\ \A a, b \in Ids : Covers(a, s) /\ Covers(b, s) => a = b

\* The canonical output is held invalid only by an amendment that is still
\* open, so that some amend-close can make it valid again.
MarkerNamesOpen == marker # None => Opened(marker)

\* No stage is done whose own checker, or an earlier one, has not given a
\* verdict since the stage was last reset or reopened, unless that earlier
\* stage is being amended; and in supervised mode no stage is done past an
\* earlier human gate that is not resolved.
DoneIsJudged ==
  \A s \in Stages, e \in Stages :
    /\ status[s] = "done" /\ status[e] # "amending"
    /\ \/ e <= s /\ Script(e)
       \/ e < s /\ Human(e) /\ mode = "supervised"
    => gate[e].state # "pending"

\* When resume answers that all stages are done, each is done or was blocked
\* by the agent.
FinishedIsSettled ==
  ResumesFinished => \A s \in Stages : status[s] \in {"done", "blocked"}

\* A signed receipt never tells of what the header does not show, even when
\* commands are cut short: an open receipt is of a known amendment, and a close
\* receipt of one that is closed and whose opening was receipted too.
ReceiptsTruthful ==
  \A a \in Ids :
    /\ <<a, "open">> \in receipts => a \in DOMAIN amendments
    /\ <<a, "close">> \in receipts =>
         <<a, "open">> \in receipts /\ ~Opened(a)

\* No command leaves a handoff that reads "Workflow complete" while an
\* amendment is open (the comment at pipeline_ctl.py:1012).
CompleteIsClosed ==
  [][ handoff' # handoff /\ handoff'.complete
        => ~\E a \in Ids : Opened(a) ]_vars
=============================================================================
