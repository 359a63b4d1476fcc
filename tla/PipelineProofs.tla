--------------------------- MODULE PipelineProofs ---------------------------
(* Proofs about Pipeline, for every graph, mode and number of amendments.   *)
EXTENDS Pipeline, TLAPS, SequenceTheorems

USE DEF Stages, Ids, Amendment, GateState, CheckRecord

LEMMA TodoTail ==
  ASSUME todo \in Seq(Write), ~Idle
  PROVE  /\ Head(todo) \in Write /\ Tail(todo) \in Seq(Write)
         /\ \A i \in DOMAIN Tail(todo) :
              i + 1 \in DOMAIN todo /\ Tail(todo)[i] = todo[i + 1]
         /\ 1 \in DOMAIN todo /\ Head(todo) = todo[1]
  BY DEF Idle

LEMMA Closing ==
  ASSUME amendments \in Seq(Amendment), NEW a \in DOMAIN amendments
  PROVE  LET after == [amendments EXCEPT ![a] = Entry(@.scope, FALSE)]
         IN  /\ after \in Seq(Amendment) /\ DOMAIN after = DOMAIN amendments
             /\ Len(after) = Len(amendments)
             /\ \A b \in DOMAIN amendments :
                  /\ after[b].scope = amendments[b].scope
                  /\ after[b].open = (b # a /\ amendments[b].open)
<1>1. a \in 1 .. Len(amendments) /\ amendments[a] \in Amendment
  BY LenProperties, ElementOfSeq
<1> DEFINE e == Entry(amendments[a].scope, FALSE)
<1>2. e \in Amendment /\ [amendments EXCEPT ![a] = Entry(@.scope, FALSE)] = [amendments EXCEPT ![a] = e]
  BY <1>1 DEF Entry
<1>3. \A b \in DOMAIN amendments : amendments[b] \in Amendment
  BY LenProperties, ElementOfSeq
<1> HIDE DEF e
<1>4. /\ [amendments EXCEPT ![a] = e] \in Seq(Amendment)
      /\ Len([amendments EXCEPT ![a] = e]) = Len(amendments)
  BY <1>1, <1>2, ExceptSeq
<1>5. DOMAIN [amendments EXCEPT ![a] = e] = DOMAIN amendments
  OBVIOUS
<1>6. \A b \in DOMAIN amendments :
        [amendments EXCEPT ![a] = e][b] = IF b = a THEN e ELSE amendments[b]
  OBVIOUS
<1>7. e.scope = amendments[a].scope /\ e.open = FALSE
  BY DEF e, Entry
<1> QED
  BY <1>2, <1>3, <1>4, <1>5, <1>6, <1>7

LEMMA TypedInit == Init => TypeOK
<1> SUFFICES ASSUME Init PROVE TypeOK
  OBVIOUS
<1>1. amendments \in Seq(Amendment) /\ todo \in Seq(Write)
  BY EmptySeq DEF Init
<1>2. Len(amendments) <= MaxAmendments
  BY EmptySeq, BoundAssumption DEF Init
<1>3. /\ gate \in [Stages -> GateState]
      /\ status \in [Stages -> Statuses]
      /\ checks \in [Stages -> CheckRecord]
  BY DEF Init, Statuses, Unresolved, Resolved, Green
<1> QED
  BY <1>1, <1>2, <1>3 DEF Init, TypeOK

LEMMA TypedStep == TypeOK /\ [Next]_vars => TypeOK'
<1> SUFFICES ASSUME TypeOK, [Next]_vars PROVE TypeOK'
  OBVIOUS
<1> USE DEF TypeOK, Write
<1>1. CASE WriteReceipt
  BY <1>1, TodoTail DEF WriteReceipt, header
<1>2. CASE WriteCheck
  <2>1. Head(todo) \in Write /\ todo' \in Seq(Write)
    BY <1>2, TodoTail DEF WriteCheck
  <2>2. Head(todo).write = "check" => Head(todo).stage \in Stages /\ Head(todo).exit \in {0, 1}
    BY <2>1
  <2> DEFINE record == [exit |-> Head(todo).exit, fresh |-> TRUE]
  <2>3. record \in CheckRecord
    BY <1>2, <2>2 DEF WriteCheck
  <2>4. \/ checks' = [checks EXCEPT ![Head(todo).stage] = record]
        \/ checks' = checks
    BY <1>2 DEF WriteCheck
  <2> HIDE DEF record
  <2>5. checks' \in [Stages -> CheckRecord]
    BY <1>2, <2>2, <2>3, <2>4 DEF WriteCheck
  <2> QED
    BY <1>2, <2>1, <2>5 DEF WriteCheck, header
<1>3. CASE WriteHandoff
  BY <1>3, TodoTail DEF WriteHandoff, header, Complete
<1>4. CASE Stop
  BY <1>4 DEF Stop, header, files
<1>5. ASSUME NEW s \in Stages,
             NEW to \in {"in_progress", "awaiting_gate", "done", "blocked"},
             Advance(s, to)
      PROVE  TypeOK'
  BY <1>5 DEF Advance, files, Statuses, Handoff
<1>6. ASSUME NEW s \in Stages, NEW by \in Modes, NEW line \in Lines, Gate(s, by, line)
      PROVE  TypeOK'
  <2>1. gate'[s] \in GateState
    BY <1>6 DEF Gate, Lines, Resolved, Green
  <2>2. gate' \in [Stages -> GateState]
    BY <1>6, <2>1 DEF Gate
  <2>3. todo' \in Seq(Write)
    <3>1. Handoff(None) \in Write
      BY DEF Handoff
    <3>2. todo' = <<Handoff(None)>>
      BY <1>6 DEF Gate
    <3> QED
      BY <3>1, <3>2
  <2> QED
    BY <1>6, <2>2, <2>3 DEF Gate, files
<1>7. ASSUME NEW s \in Stages, NEW exit \in {0, 1}, Check(s, exit)
      PROVE  TypeOK'
  BY <1>7 DEF Check, files, Resolved, Green, Handoff, Record
<1>8. ASSUME NEW s \in Stages, Invalidate(s) PROVE TypeOK'
  BY <1>8 DEF Invalidate, files, Resolved, Unresolved, Green, Handoff, Statuses, KeepsPointer
<1>9. ASSUME NEW s \in Stages, NEW same \in BOOLEAN, Reopen(s, same) PROVE TypeOK'
  <2> DEFINE a == Len(amendments) + 1
             new == Entry(s, TRUE)
  <2>1. a \in Ids /\ amendments' = Append(amendments, new)
    BY <1>9 DEF Reopen
  <2>2. new \in Amendment
    BY DEF Entry
  <2> HIDE DEF new
  <2>3. /\ amendments' \in Seq(Amendment)
        /\ Len(amendments') <= MaxAmendments
    BY <2>1, <2>2, AppendProperties, BoundAssumption
  <2>4. todo' \in Seq(Write)
    <3>1. Receipt(a, "open") \in Write /\ Handoff(None) \in Write
      BY <2>1 DEF Receipt, Handoff
    <3> QED
      BY <1>9, <3>1 DEF Reopen
  <2>5. checks' \in [Stages -> CheckRecord]
    BY <1>9 DEF Reopen
  <2>6. gate' \in [Stages -> GateState]
    BY <1>9 DEF Reopen, Unresolved, Resolved
  <2>7. status' \in [Stages -> Statuses] /\ marker' \in Ids \cup {None}
    BY <1>9 DEF Reopen, Statuses, MarkAfterReopen
  <2> QED
    BY <1>9, <2>3, <2>4, <2>5, <2>6, <2>7 DEF Reopen
<1>10. ASSUME NEW a \in Ids, NEW found \in Found, AmendClose(a, found) PROVE TypeOK'
  <2>1. /\ a \in DOMAIN amendments
        /\ amendments' = [amendments EXCEPT ![a] = Entry(@.scope, FALSE)]
    BY <1>10 DEF AmendClose, Opened
  <2>2. /\ amendments' \in Seq(Amendment)
        /\ Len(amendments') <= MaxAmendments
    BY <2>1, Closing
  <2>3. todo' \in Seq(Write)
    <3>1. Receipt(a, "close") \in Write /\ Handoff(None) \in Write
      BY DEF Receipt, Handoff
    <3> QED
      BY <1>10, <3>1 DEF AmendClose
  <2>4. status' \in [Stages -> Statuses] /\ marker' \in Ids \cup {None}
    BY <1>10 DEF AmendClose, Statuses, MarkAfterClose
  <2> QED
    BY <1>10, <2>2, <2>3, <2>4 DEF AmendClose, files
<1>11. CASE Designate
  BY <1>11 DEF Designate, files
<1>12. CASE UNCHANGED vars
  BY <1>12 DEF vars, header, files
<1> QED
  BY <1>1, <1>2, <1>3, <1>4, <1>5, <1>6, <1>7, <1>8, <1>9, <1>10, <1>11, <1>12 DEF Next

THEOREM Typed == Spec => []TypeOK
  BY TypedInit, TypedStep, PTL DEF Spec

-----------------------------------------------------------------------------
(* The life of amendments.                                                 *)

LEMMA AfterReopen ==
  ASSUME TypeOK, NEW s \in Stages, NEW same \in BOOLEAN, Reopen(s, same)
  PROVE  LET a == Len(amendments) + 1
         IN  /\ a \in Ids /\ a \notin DOMAIN amendments
             /\ DOMAIN amendments' = DOMAIN amendments \cup {a}
             /\ \A b \in Ids : Opened(b)' <=> Opened(b) \/ b = a
             /\ \A b \in Ids, t \in Stages :
                  Covers(b, t)' <=> Covers(b, t) \/ (b = a /\ t = s)
<1> DEFINE a == Len(amendments) + 1
           new == Entry(s, TRUE)
<1>1. amendments \in Seq(Amendment) /\ new \in Amendment
  BY DEF TypeOK, Entry
<1>2. a \in Ids /\ amendments' = Append(amendments, new)
  BY DEF Reopen
<1>3. new.scope = s /\ new.open = TRUE
  BY DEF Entry
<1> HIDE DEF new
<1>4. /\ DOMAIN amendments = 1 .. Len(amendments)
      /\ DOMAIN amendments' = 1 .. Len(amendments) + 1
      /\ Len(amendments) \in Nat
      /\ amendments'[a] = new
      /\ \A b \in 1 .. Len(amendments) : amendments'[b] = amendments[b]
  BY <1>1, <1>2, AppendProperties, LenProperties
<1>5. /\ a \notin DOMAIN amendments
      /\ DOMAIN amendments' = DOMAIN amendments \cup {a}
  BY <1>4
<1>6. \A b \in Ids : Opened(b)' <=> Opened(b) \/ b = a
  BY <1>3, <1>4 DEF Opened
<1>7. \A b \in Ids, t \in Stages :
        Covers(b, t)' <=> Covers(b, t) \/ (b = a /\ t = s)
  BY <1>3, <1>4, <1>5, <1>6 DEF Opened, Covers
<1> QED
  BY <1>2, <1>5, <1>6, <1>7

LEMMA AfterClose ==
  ASSUME TypeOK, NEW a \in Ids, NEW found \in Found, AmendClose(a, found)
  PROVE  /\ DOMAIN amendments' = DOMAIN amendments
         /\ Opened(a) /\ amendments[a].scope \in Stages
         /\ \A b \in Ids : Opened(b)' <=> Opened(b) /\ b # a
         /\ \A b \in Ids, t \in Stages :
              Covers(b, t)' <=> Covers(b, t) /\ b # a
<1>1. amendments \in Seq(Amendment) /\ a \in DOMAIN amendments /\ Opened(a)
  BY DEF TypeOK, AmendClose, Opened
<1>2. amendments' = [amendments EXCEPT ![a] = Entry(@.scope, FALSE)]
  BY DEF AmendClose
<1>3. amendments[a] \in Amendment
  BY <1>1, LenProperties, ElementOfSeq
<1> QED
  BY <1>1, <1>2, <1>3, Closing DEF Opened, Covers

Lifecycle == AmendingIffOpen /\ MarkerNamesOpen

LEMMA LifecycleStep ==
  TypeOK /\ Lifecycle /\ [Next]_vars => Lifecycle'
<1> SUFFICES ASSUME TypeOK, Lifecycle, [Next]_vars PROVE Lifecycle'
  OBVIOUS
<1> USE DEF Lifecycle
<1>1. ASSUME UNCHANGED <<status, marker, amendments>> PROVE Lifecycle'
  BY <1>1 DEF AmendingIffOpen, MarkerNamesOpen, Covers, Opened
<1>2. ASSUME NEW s \in Stages,
             NEW to \in {"in_progress", "awaiting_gate", "done", "blocked"},
             Advance(s, to)
      PROVE  Lifecycle'
  <2>1. status[s] # "amending"
    BY <1>2 DEF Advance, Legal
  <2> QED
    BY <1>2, <2>1
    DEF Advance, TypeOK, AmendingIffOpen, MarkerNamesOpen, Covers, Opened
<1>3. ASSUME NEW s \in Stages, Invalidate(s) PROVE Lifecycle'
  <2>1. \A t \in Stages, a \in Ids : t >= s => ~Covers(a, t)
    BY <1>3, GraphAssumption DEF Invalidate, Pinned
  <2> QED
    BY <1>3, <2>1
    DEF Invalidate, TypeOK, AmendingIffOpen, MarkerNamesOpen, Covers, Opened
<1>4. ASSUME NEW s \in Stages, NEW same \in BOOLEAN, Reopen(s, same)
      PROVE  Lifecycle'
  <2>1. /\ status' = [status EXCEPT ![s] = "amending"]
        /\ \A b \in Ids : ~Covers(b, s)
        /\ marker' = MarkAfterReopen(Len(amendments) + 1)
    BY <1>4 DEF Reopen
  <2>2. AmendingIffOpen'
    <3> SUFFICES ASSUME NEW t \in Stages
                 PROVE  /\ status'[t] = "amending" <=> \E b \in Ids : Covers(b, t)'
                        /\ \A b, c \in Ids :
                             Covers(b, t)' /\ Covers(c, t)' => b = c
      BY DEF AmendingIffOpen
    <3>1. status'[t] = IF t = s THEN "amending" ELSE status[t]
      BY <2>1 DEF TypeOK
    <3> QED
      BY <1>4, <2>1, <3>1, AfterReopen DEF AmendingIffOpen
  <2>3. MarkerNamesOpen'
    BY <1>4, <2>1, AfterReopen DEF MarkerNamesOpen, MarkAfterReopen, TypeOK
  <2> QED
    BY <2>2, <2>3
<1>5. ASSUME NEW a \in Ids, NEW found \in Found, AmendClose(a, found)
      PROVE  Lifecycle'
  <2> DEFINE s == amendments[a].scope
  <2>1. /\ status' = [status EXCEPT ![s] = "done"]
        /\ marker' = MarkAfterClose(a) /\ status[s] = "amending"
    BY <1>5 DEF AmendClose
  <2>2. Covers(a, s) /\ s \in Stages
    BY <1>5, AfterClose DEF Covers
  <2>3. AmendingIffOpen'
    <3> SUFFICES ASSUME NEW t \in Stages
                 PROVE  /\ status'[t] = "amending" <=> \E b \in Ids : Covers(b, t)'
                        /\ \A b, c \in Ids :
                             Covers(b, t)' /\ Covers(c, t)' => b = c
      BY DEF AmendingIffOpen
    <3>1. status'[t] = IF t = s THEN "done" ELSE status[t]
      BY <2>1 DEF TypeOK
    <3>2. \A b \in Ids : Covers(b, t)' <=> Covers(b, t) /\ b # a
      BY <1>5, AfterClose
    <3>3. t # s => ~Covers(a, t)
      BY DEF Covers
    <3> QED
      BY <2>2, <3>1, <3>2, <3>3 DEF AmendingIffOpen
  <2>4. MarkerNamesOpen'
    BY <1>5, <2>1, AfterClose DEF MarkerNamesOpen, MarkAfterClose, TypeOK
  <2> QED
    BY <2>3, <2>4
<1> QED
  BY <1>1, <1>2, <1>3, <1>4, <1>5
  DEF Next, vars, header, WriteReceipt, WriteCheck, WriteHandoff, Stop, Gate,
      Check, Designate

LEMMA LifecycleInit == Init => Lifecycle
  BY EmptySeq
  DEF Init, Lifecycle, AmendingIffOpen, MarkerNamesOpen, Covers, Opened

\* Every open amendment has its stage in the status amend-close asks for, and
\* every amending stage has one amendment to close.
THEOREM AmendingIsOpen == Spec => []AmendingIffOpen
  BY TypedInit, TypedStep, LifecycleInit, LifecycleStep, PTL DEF Spec, Lifecycle

\* The marker names an open amendment.
THEOREM MarkerIsOpen == Spec => []MarkerNamesOpen
  BY TypedInit, TypedStep, LifecycleInit, LifecycleStep, PTL DEF Spec, Lifecycle

\* "All stages done" is said of stages that are done or blocked.
THEOREM FinishedSettled == Spec => []FinishedIsSettled
<1>1. TypeOK /\ AmendingIffOpen => FinishedIsSettled
  BY DEF TypeOK, Statuses, AmendingIffOpen, FinishedIsSettled, ResumesFinished, Covers
<1> QED
  BY <1>1, Typed, AmendingIsOpen, PTL

-----------------------------------------------------------------------------
(* Receipts.                                                               *)

\* What a receipt not yet written tells is true already.
TodoTruthful ==
  \A i \in DOMAIN todo : todo[i].write = "receipt" =>
    /\ todo[i].kind = "open" => todo[i].id \in DOMAIN amendments
    /\ todo[i].kind = "close" =>
         <<todo[i].id, "open">> \in receipts /\ ~Opened(todo[i].id)

Receipted == ReceiptsTruthful /\ TodoTruthful

LEMMA ReceiptedStep ==
  TypeOK /\ Receipted /\ [Next]_vars => Receipted'
<1> SUFFICES ASSUME TypeOK, Receipted, [Next]_vars PROVE Receipted'
  OBVIOUS
<1> USE DEF Receipted
<1>1. ASSUME UNCHANGED <<amendments, receipts>>,
             \A i \in DOMAIN todo' : \/ todo'[i].write # "receipt"
                                     \/ i + 1 \in DOMAIN todo /\ todo'[i] = todo[i + 1]
      PROVE  Receipted'
  BY <1>1 DEF ReceiptsTruthful, TodoTruthful, Opened
<1>2. CASE WriteReceipt
  <2> DEFINE r == Head(todo)
  <2>1. /\ r.write = "receipt" /\ r \in Write /\ r = todo[1] /\ 1 \in DOMAIN todo
        /\ \A i \in DOMAIN todo' : i + 1 \in DOMAIN todo /\ todo'[i] = todo[i + 1]
    BY <1>2, TodoTail DEF WriteReceipt, TypeOK
  <2>2. /\ receipts' = receipts \cup {<<r.id, r.kind>>}
        /\ UNCHANGED amendments
    BY <1>2 DEF WriteReceipt, header
  <2>3. /\ r.kind = "open" => r.id \in DOMAIN amendments
        /\ r.kind = "close" => <<r.id, "open">> \in receipts /\ ~Opened(r.id)
    BY <2>1 DEF TodoTruthful
  <2>4. ReceiptsTruthful'
    BY <2>2, <2>3 DEF ReceiptsTruthful, Opened
  <2>5. TodoTruthful'
    BY <2>1, <2>2 DEF TodoTruthful, Opened
  <2> QED
    BY <2>4, <2>5
<1>3. CASE WriteCheck \/ WriteHandoff
  BY <1>1, <1>3, TodoTail DEF WriteCheck, WriteHandoff, header, TypeOK
<1>4. CASE Stop \/ UNCHANGED vars
  BY <1>4 DEF Stop, vars, header, files, ReceiptsTruthful, TodoTruthful, Opened
<1>5. CASE Designate
  BY <1>5 DEF Designate, files, ReceiptsTruthful, TodoTruthful, Opened
<1>6. ASSUME NEW s \in Stages, NEW same \in BOOLEAN, Reopen(s, same)
      PROVE  Receipted'
  <2> DEFINE a == Len(amendments) + 1
  <2>1. UNCHANGED receipts /\ todo' = <<Receipt(a, "open"), Handoff(None)>>
    BY <1>6 DEF Reopen
  <2>2. ReceiptsTruthful'
    BY <1>6, <2>1, AfterReopen DEF ReceiptsTruthful
  <2>3. TodoTruthful'
    BY <1>6, <2>1, AfterReopen DEF TodoTruthful, Receipt, Handoff
  <2> QED
    BY <2>2, <2>3
<1>7. ASSUME NEW a \in Ids, NEW found \in Found, AmendClose(a, found)
      PROVE  Receipted'
  <2>1. /\ UNCHANGED receipts /\ Signed(a)
        /\ todo' = <<Receipt(a, "close"), Handoff(None)>>
    BY <1>7 DEF AmendClose, files
  <2>2. ReceiptsTruthful'
    BY <1>7, <2>1, AfterClose DEF ReceiptsTruthful
  <2>3. TodoTruthful'
    BY <1>7, <2>1, AfterClose DEF TodoTruthful, Receipt, Handoff, Signed
  <2> QED
    BY <2>2, <2>3
<1>8. ASSUME UNCHANGED <<amendments, receipts>>,
             \/ todo' = <<Handoff(None)>>
             \/ \E s \in Stages : todo' = <<Handoff(s)>>
             \/ \E s \in Stages, exit \in {0, 1} :
                  todo' = <<Record(s, exit), Handoff(None)>>
      PROVE  Receipted'
  BY <1>1, <1>8 DEF Handoff, Record
<1> QED
  BY <1>2, <1>3, <1>4, <1>5, <1>6, <1>7, <1>8
  DEF Next, files, Advance, Gate, Check, Invalidate

LEMMA ReceiptedInit == Init => Receipted
  BY DEF Init, Receipted, ReceiptsTruthful, TodoTruthful

\* Whenever commands are cut short, no receipt tells more than the header.
THEOREM ReceiptsAreTruthful == Spec => []ReceiptsTruthful
  BY TypedInit, TypedStep, ReceiptedInit, ReceiptedStep, PTL DEF Spec, Receipted

-----------------------------------------------------------------------------
(* Verdicts.                                                               *)

\* An amended stage keeps the verdicts of earlier stages that let it be done.
Judged ==
  \A s, e \in Stages :
    /\ status[s] \in {"done", "amending"} /\ status[e] # "amending"
    /\ \/ e <= s /\ Script(e)
       \/ e < s /\ Human(e) /\ mode = "supervised"
    => gate[e].state # "pending"

LEMMA JudgedStep == TypeOK /\ Judged /\ [Next]_vars => Judged'
<1> SUFFICES ASSUME TypeOK, Judged, [Next]_vars PROVE Judged'
  OBVIOUS
<1>1. ASSUME UNCHANGED <<graph, mode, status>>,
             \A e \in Stages : gate'[e] = gate[e] \/ gate'[e].state # "pending"
      PROVE  Judged'
  BY <1>1 DEF Judged, Script, Human
<1>2. ASSUME NEW s \in Stages,
             NEW to \in {"in_progress", "awaiting_gate", "done", "blocked"},
             Advance(s, to)
      PROVE  Judged'
  <2>1. UNCHANGED <<graph, mode, gate>> /\ status[s] # "amending"
    BY <1>2 DEF Advance, Legal
  <2>2. \A t \in Stages : status'[t] = IF t = s THEN to ELSE status[t]
    BY <1>2 DEF Advance, TypeOK
  <2>3. ASSUME to = "done", NEW e \in Stages,
               \/ e <= s /\ Script(e)
               \/ e < s /\ Human(e) /\ mode = "supervised"
        PROVE  gate[e].state # "pending"
    BY <1>2, <2>3, GraphAssumption
    DEF Advance, EarlierBlocks, OwnBlocks, Gated, Script, Human, Green
  <2> QED
    BY <2>1, <2>2, <2>3 DEF Judged, Script, Human
<1>3. ASSUME NEW s \in Stages, Invalidate(s) PROVE Judged'
  BY <1>3, GraphAssumption DEF Invalidate, Judged, Script, Human
<1>4. ASSUME NEW s \in Stages, NEW same \in BOOLEAN, Reopen(s, same) PROVE Judged'
  <2>1. /\ UNCHANGED <<graph, mode>> /\ status[s] = "done"
        /\ \A t \in Stages : /\ status'[t] = IF t = s THEN "amending" ELSE status[t]
                             /\ t # s => gate'[t] = gate[t]
    BY <1>4 DEF Reopen, TypeOK
  <2> QED
    BY <2>1 DEF Judged, Script, Human
<1>5. ASSUME NEW a \in Ids, NEW found \in Found, AmendClose(a, found) PROVE Judged'
  <2> DEFINE s == amendments[a].scope
  <2>1. /\ UNCHANGED <<graph, mode, gate>> /\ status[s] = "amending" /\ s \in Stages
        /\ Gated(s) => gate[s].state \in Green
    BY <1>5, AfterClose DEF AmendClose, Rerun
  <2>2. \A t \in Stages : status'[t] = IF t = s THEN "done" ELSE status[t]
    BY <1>5 DEF AmendClose, TypeOK
  <2> QED
    BY <2>1, <2>2 DEF Judged, Script, Human, Gated, Green
<1>6. ASSUME NEW s \in Stages, NEW by \in Modes, NEW line \in Lines, Gate(s, by, line)
      PROVE  Judged'
  BY <1>1, <1>6 DEF Gate, Resolved, Lines, TypeOK
<1>7. ASSUME NEW s \in Stages, NEW exit \in {0, 1}, Check(s, exit) PROVE Judged'
  BY <1>1, <1>7 DEF Check, Resolved, TypeOK
<1> QED
  BY <1>1, <1>2, <1>3, <1>4, <1>5, <1>6, <1>7
  DEF Next, vars, header, WriteReceipt, WriteCheck, WriteHandoff, Stop, Designate

LEMMA JudgedInit == Init => Judged
  BY DEF Init, Judged

\* A done stage has a verdict of its checker and of every earlier one.
THEOREM DoneJudged == Spec => []DoneIsJudged
<1>1. Judged => DoneIsJudged
  BY DEF Judged, DoneIsJudged
<1> QED
  BY <1>1, TypedInit, TypedStep, JudgedInit, JudgedStep, PTL DEF Spec
=============================================================================
