------------------------- MODULE EventStreamProofs -------------------------
(***************************************************************************)
(* Theorems about EventLog and EventStream, for any number of writers,     *)
(* subscriptions, lines, and any limit on a drain.                         *)
(*                                                                         *)
(* The log: an append that got the lock finds the boundary as the last     *)
(* holder left it, so it never joins a torn line (Clean).                  *)
(*                                                                         *)
(* The stream: NothingSkipped alone is not inductive.  A thread between    *)
(* its read and its commit may overwrite the cursor with an older or a     *)
(* newer one, so that what it holds must close the gap up to the cursor it *)
(* will write (Pending).                                                   *)
(*                                                                         *)
(* The first subscription gets its events in order because one thread      *)
(* drains it: nothing is sent before its response, and afterwards there is *)
(* one poller, while the main thread does not drain (SoleServed), and it   *)
(* does not leave as long as the subscription lives (Tended).              *)
(***************************************************************************)
EXTENDS EventStream, TLAPS

USE DEF TornBoundary, NextSeq, Advance, KeepPolling

-----------------------------------------------------------------------------
(* The log.                                                                *)

LEMMA LogInitTyped == LogInit => LogTypeOK
  <1>1. LogInit => FileTypeOK
    BY DEF LogInit, FileTypeOK, Tails
  <1>2. LogInit => WriterTypeOK
    BY DEF LogInit, WriterTypeOK, WriterPlaces
  <1> QED BY <1>1, <1>2 DEF LogTypeOK

LEMMA LogNextTyped == LogTypeOK /\ LogNext => LogTypeOK'
  <1> SUFFICES ASSUME LogTypeOK, NEW w \in Writers,
                      Begin(w) \/ Write(w) \/ Landed(w) \/ Torn(w)
               PROVE  LogTypeOK'
    BY DEF LogNext
  <1>1. FileTypeOK'
    <2> USE DEF LogTypeOK, FileTypeOK, Tails
    <2>1. CASE Begin(w) \/ Torn(w)
      BY <2>1 DEF Begin, Torn
    <2>2. CASE Write(w) /\ prefix[w]
      <3>1. size' = size + 1 /\ bad' \subseteq bad \cup {size}
        BY <2>2 DEF Write
      <3>2. tail' \in Tails /\ landed' = landed
        BY <2>2 DEF Write
      <3> QED BY <3>1, <3>2
    <2>3. CASE Write(w) /\ ~prefix[w]
      <3>1. tail' \in Tails
        BY <2>3 DEF Write
      <3>2. UNCHANGED <<size, bad, landed>>
        BY <2>3 DEF Write
      <3> QED BY <3>1, <3>2
    <2>4. CASE Landed(w)
      <3>1. size' = size + 1 /\ bad' \subseteq bad \cup {size}
        BY <2>4 DEF Landed
      <3>2. tail' \in Tails /\ landed' = landed \cup {size}
        BY <2>4 DEF Landed
      <3> QED BY <3>1, <3>2
    <2> QED BY <2>1, <2>2, <2>3, <2>4
  <1>2. WriterTypeOK'
    <2> USE DEF LogTypeOK, WriterTypeOK, WriterPlaces, WriterGoto, Leave
    <2>1. CASE Begin(w)
      BY <2>1 DEF Begin
    <2>2. CASE Write(w)
      BY <2>2 DEF Write
    <2>3. CASE Landed(w)
      BY <2>3 DEF Landed
    <2>4. CASE Torn(w)
      BY <2>4 DEF Torn
    <2> QED BY <2>1, <2>2, <2>3, <2>4
  <1> QED BY <1>1, <1>2 DEF LogTypeOK

\* As long as everybody got the lock, whoever appends holds it, and whoever
\* holds it and saw no torn boundary starts a line of its own.
Clean ==
  ~raced =>
    /\ landed \cap bad = {}
    /\ \A w \in Writers :
         /\ wpc[w] # "idle" => guard = w
         /\ wpc[w] = "write" /\ ~prefix[w] => tail = "none"
         /\ ~glued[w]

LEMMA InitClean == LogInit => Clean
BY DEF LogInit, Clean

LEMMA NextClean == LogTypeOK /\ Clean /\ LogNext => Clean'
  <1> SUFFICES ASSUME LogTypeOK, Clean, ~raced', NEW w \in Writers,
                      Begin(w) \/ Write(w) \/ Landed(w) \/ Torn(w)
               PROVE  Clean'
    BY DEF LogNext, Clean
  <1>0. ~raced
    BY DEF Begin, Write, Landed, Torn
  <1> USE <1>0, LogAssumption DEF LogTypeOK, FileTypeOK,
          WriterTypeOK, Clean, WriterPlaces, WriterGoto
  <1>1. CASE Begin(w)
    <2>1. /\ guard = Nobody /\ guard' = w
          /\ wpc' = [wpc EXCEPT ![w] = "write"]
          /\ prefix' = [prefix EXCEPT ![w] = tail # "none"]
          /\ UNCHANGED <<size, bad, tail, glued, landed>>
      BY <1>1 DEF Begin
    <2>2. \A v \in Writers : wpc'[v] # "idle" => guard' = v
      BY <2>1
    <2>3. ~prefix'[w] => tail = "none"
      BY <2>1
    <2>4. \A v \in Writers \ {w} : wpc'[v] = "idle"
      BY <2>1
    <2> QED BY <2>1, <2>2, <2>3, <2>4
  <1>2. CASE Write(w)
    <2>1. \A v \in Writers \ {w} : wpc[v] = "idle" /\ wpc'[v] = "idle"
      BY <1>2 DEF Write
    <2>2. landed' \cap bad' = {}
      <3>1. bad' \subseteq bad \cup {size} /\ landed' = landed
        BY <1>2 DEF Write
      <3>2. size \notin landed
        OBVIOUS
      <3> QED BY <3>1, <3>2
    <2>3. wpc'[w] = "written" /\ guard' = w
      BY <1>2 DEF Write
    <2>4. ~glued'[w]
      BY <1>2 DEF Write
    <2>5. \A v \in Writers \ {w} : ~glued'[v]
      BY <1>2 DEF Write
    <2> QED BY <2>1, <2>2, <2>3, <2>4, <2>5
  <1>3. CASE Landed(w)
    BY <1>3 DEF Landed, Leave
  <1>4. CASE Torn(w)
    BY <1>4 DEF Torn, Leave
  <1> QED BY <1>1, <1>2, <1>3, <1>4

\* With the lock, a step of the log never takes an event away from a reader.
LEMMA ReadableStays ==
  ASSUME LogTypeOK, Clean, LogNext, ~raced', NEW i \in Nat, Readable(i)
  PROVE  Readable(i)'
  <1> PICK w \in Writers : Begin(w) \/ Write(w) \/ Landed(w) \/ Torn(w)
    BY DEF LogNext
  <1>0. ~raced
    BY DEF Begin, Write, Landed, Torn
  <1> USE <1>0, LogAssumption DEF LogTypeOK, FileTypeOK,
          WriterTypeOK, Clean, Readable, WriterPlaces, WriterGoto
  <1>1. CASE Begin(w)
    BY <1>1 DEF Begin
  <1>2. CASE Write(w)
    BY <1>2 DEF Write
  <1>3. CASE Landed(w)
    BY <1>3 DEF Landed, Leave
  <1>4. CASE Torn(w)
    BY <1>4 DEF Torn, Leave
  <1> QED BY <1>1, <1>2, <1>3, <1>4

\* Wreckage stays wreckage.
LEMMA BadStays == LogNext => bad \subseteq bad'
BY DEF LogNext, Begin, Write, Landed, Torn

-----------------------------------------------------------------------------
(* The stream.                                                             *)

LEMMA InitTyped == Init => TypeOK
  <1> SUFFICES ASSUME Init PROVE TypeOK
    OBVIOUS
  <1>1. LogTypeOK
    BY LogInitTyped DEF Init
  <1>2. SubTypeOK
    BY DEF Init, SubTypeOK
  <1>3. ThreadTypeOK
    BY DEF Init, ThreadTypeOK, Threads, MainPlaces, PollPlaces, Draining
  <1> QED BY <1>1, <1>2, <1>3 DEF TypeOK

\* What a read takes along: a subscription of the snapshot and its readable
\* events up to some readable line.
ReadFor(t, s, n) ==
  /\ todo' = [todo EXCEPT ![t] = @ \ {s}]
  /\ target' = [target EXCEPT ![t] = s]
  /\ upto' = [upto EXCEPT ![t] = n]
  /\ batch' = [batch EXCEPT ![t] = {i \in cursor[s] .. n - 1 : Readable(i)}]
  /\ pc' = [pc EXCEPT ![t] = "commit"]
  /\ Readable(n - 1)
  /\ UNCHANGED <<logVars, subVars, sent, ended>>

LEMMA ReadPicks ==
  ASSUME NEW t \in Threads, Read(t)
  PROVE  \E s \in todo[t] : \E n \in cursor[s] + 1 .. size + 1 : ReadFor(t, s, n)
BY DEF Read, ReadFor, Goto

LEMMA DrainTyped ==
  ASSUME TypeOK, NEW t \in Threads, Drain(t)
  PROVE  SubTypeOK' /\ ThreadTypeOK'
  <1> USE DEF TypeOK, Goto, subVars
  <1>1. SubTypeOK'
    <2> USE DEF SubTypeOK, ThreadTypeOK
    <2>1. CASE Read(t) \/ ReadNothing(t) \/ Drained(t)
      BY <2>1 DEF Read, ReadNothing, Drained
    <2>2. CASE Commit(t)
      BY <2>2 DEF Commit
    <2>3. CASE Notify(t)
      <3>1. PICK i \in batch[t] :
              sent' = [sent EXCEPT ![target[t]] = Append(@, i)]
        BY <2>3 DEF Notify
      <3>2. i \in Nat
        BY <3>1
      <3>3. \A s \in Ids : Append(sent[s], i) \in Seq(Nat)
        BY <3>2
      <3>4. sent' \in [Ids -> Seq(Nat)]
        BY <3>1, <3>3
      <3> QED BY <2>3, <3>4 DEF Notify
    <2> QED BY <2>1, <2>2, <2>3 DEF Drain
  <1>2. ThreadTypeOK'
    <2> USE DEF ThreadTypeOK, Threads, MainPlaces, PollPlaces, Draining
    <2>1. CASE Read(t)
      <3>1. PICK s \in todo[t] :
              \E n \in cursor[s] + 1 .. size + 1 : ReadFor(t, s, n)
        BY <2>1, ReadPicks
      <3>2. PICK n \in cursor[s] + 1 .. size + 1 : ReadFor(t, s, n)
        BY <3>1
      <3> USE <3>2 DEF ReadFor
      <3>3. s \in Ids /\ cursor[s] \in Nat /\ n \in Nat
        BY <3>1 DEF SubTypeOK, LogTypeOK, FileTypeOK
      <3>4. {i \in cursor[s] .. n - 1 : Readable(i)} \subseteq Nat
        BY <3>3
      <3> HIDE DEF Readable
      <3>5. \A u \in Threads :
              pc'[u] \in {"respond", "commit", "notify"} => target'[u] \in Ids
        BY <3>3
      <3>6. batch' \in [Threads -> SUBSET Nat]
        BY <3>4
      <3>7. pc' \in [Threads -> MainPlaces \cup PollPlaces]
        OBVIOUS
      <3>8. pc'["main"] \in MainPlaces /\ pc'["poller"] \in PollPlaces
        OBVIOUS
      <3> QED BY <3>3, <3>5, <3>6, <3>7, <3>8
    <2>2. CASE ReadNothing(t)
      BY <2>2 DEF ReadNothing
    <2>3. CASE Commit(t)
      BY <2>3 DEF Commit, NextSubscription
    <2>4. CASE Notify(t)
      BY <2>4 DEF Notify, NextSubscription
    <2>5. CASE Drained(t)
      BY <2>5 DEF Drained
    <2> QED BY <2>1, <2>2, <2>3, <2>4, <2>5 DEF Drain
  <1> QED BY <1>1, <1>2

\* Every step of the stream is a step of the log or leaves it alone.
LEMMA LogSteps == [Next]_vars => [LogNext]_logVars
BY DEF Next, Client, Subscribe, Unsubscribe, Close, Main, Respond, StartPoller,
       Poller, Top, Wait, CheckEmpty, ThreadEnds, Drain, Read, ReadNothing,
       Commit, Notify, Drained, vars

LEMMA NextTyped == TypeOK /\ [Next]_vars => TypeOK'
  <1> SUFFICES ASSUME TypeOK, [Next]_vars PROVE TypeOK'
    OBVIOUS
  <1>1. LogTypeOK'
    <2>1. CASE LogNext
      BY <2>1, LogNextTyped DEF TypeOK
    <2>2. CASE UNCHANGED logVars
      BY <2>2 DEF TypeOK, LogTypeOK, FileTypeOK, WriterTypeOK, logVars
    <2> QED BY <2>1, <2>2, LogSteps
  <1>2. SubTypeOK' /\ ThreadTypeOK'
    <2>1. CASE Drain("main") \/ Drain("poller")
      BY <2>1, DrainTyped DEF Threads
    <2> USE DEF TypeOK, SubTypeOK, ThreadTypeOK, Threads, MainPlaces,
                PollPlaces, Draining, Goto, subVars, threadVars, Live
    <2>2. CASE Client
      <3>1. CASE \E s \in Ids, after \in Afters : Subscribe(s, after)
        <4>1. PICK s \in Ids, after \in Afters : Subscribe(s, after)
          BY <3>1
        <4>2. StartOf(after) \in Nat
          BY StreamAssumption DEF StartOf
        <4>3. SubTypeOK'
          BY <4>1, <4>2 DEF Subscribe
        <4>4. ThreadTypeOK'
          BY <4>1 DEF Subscribe
        <4> QED BY <4>3, <4>4
      <3>2. CASE \E s \in Ids : Unsubscribe(s)
        BY <3>2 DEF Unsubscribe
      <3>3. CASE Close
        BY <3>3 DEF Close
      <3> QED BY <2>2, <3>1, <3>2, <3>3 DEF Client
    <2>3. CASE Respond \/ StartPoller
      <3>1. CASE Respond
        <4>1. SubTypeOK'
          BY <3>1 DEF Respond
        <4>2. pc' = [pc EXCEPT !["main"] = "hook"] /\ UNCHANGED <<todo, batch, upto, ended>>
          BY <3>1 DEF Respond
        <4>3. target' \in [Threads -> Ids \cup {Nobody}]
          BY <3>1 DEF Respond
        <4>4. \A t \in Threads :
                pc'[t] \in {"respond", "commit", "notify"} => target'[t] \in Ids
          BY <3>1, <4>2 DEF Respond
        <4> QED BY <4>1, <4>2, <4>3, <4>4
      <3>2. CASE StartPoller
        BY <3>2 DEF StartPoller
      <3> QED BY <2>3, <3>1, <3>2
    <2>4. CASE Top \/ Wait \/ CheckEmpty \/ ThreadEnds
      BY <2>4 DEF Top, Wait, CheckEmpty, ThreadEnds
    <2>5. CASE LogNext /\ UNCHANGED <<subVars, sent, threadVars, ended>>
      BY <2>5
    <2>6. CASE UNCHANGED vars
      BY <2>6 DEF vars
    <2> QED BY <2>1, <2>2, <2>3, <2>4, <2>5, <2>6 DEF Next, Main, Poller
  <1> QED BY <1>1, <1>2 DEF TypeOK

\* The stream's variables have their types, whatever the constants.
THEOREM TypeCorrect == Spec => []TypeOK
  <1> QED BY InitTyped, NextTyped, PTL DEF Spec

LEMMA CleanSteps == TypeOK /\ Clean /\ [Next]_vars => Clean'
  <1> SUFFICES ASSUME TypeOK, Clean, [Next]_vars PROVE Clean'
    OBVIOUS
  <1>1. CASE LogNext
    BY <1>1, NextClean DEF TypeOK
  <1>2. CASE UNCHANGED logVars
    BY <1>2 DEF logVars, Clean
  <1> QED BY <1>1, <1>2, LogSteps

LEMMA AlwaysClean == Spec => []Clean
  <1>1. Init => Clean
    BY InitClean DEF Init
  <1> QED BY <1>1, CleanSteps, TypeCorrect, PTL DEF Spec

\* An append that got the lock is never lost, whoever died mid-line before it.
THEOREM AppendsAlwaysSurvive == Spec => []AppendsSurvive
  <1>1. Clean => AppendsSurvive
    BY DEF Clean, AppendsSurvive
  <1> QED BY <1>1, AlwaysClean, PTL

-----------------------------------------------------------------------------
(* Nothing is skipped.                                                     *)

Covered(s, i) == i \in bad \/ Delivered(s, i) \/ InFlight(s, i)

\* Drains work on subscriptions that have been made.
Known ==
  \A t \in Threads :
    /\ \A s \in todo[t] : subs[s] # "new"
    /\ pc[t] \in {"commit", "notify"} => subs[target[t]] # "new"

\* The cursor a thread is about to write leaves no gap either.
Pending ==
  \A t \in Threads : pc[t] = "commit" =>
    \A i \in first[target[t]] .. upto[t] - 1 :
      Covered(target[t], i) \/ i \in batch[t]

Gapless == NothingSkipped /\ Known /\ Pending

LEMMA KnownSteps == TypeOK /\ Known /\ [Next]_vars => Known'
  <1> SUFFICES ASSUME TypeOK, Known, [Next]_vars PROVE Known'
    OBVIOUS
  <1> USE DEF TypeOK, ThreadTypeOK, SubTypeOK, Known, Threads, Goto, subVars,
              threadVars, Live
  <1>1. ASSUME NEW t \in Threads, Drain(t) PROVE Known'
    <2>1. CASE Read(t)
      <3>1. PICK s \in todo[t] :
              \E n \in cursor[s] + 1 .. size + 1 : ReadFor(t, s, n)
        BY <2>1, <1>1, ReadPicks
      <3> QED BY <3>1, <1>1 DEF ReadFor
    <2>2. CASE ReadNothing(t)
      BY <1>1, <2>2 DEF ReadNothing
    <2>3. CASE Commit(t)
      BY <1>1, <2>3 DEF Commit, NextSubscription
    <2>4. CASE Notify(t)
      BY <1>1, <2>4 DEF Notify, NextSubscription
    <2>5. CASE Drained(t)
      BY <1>1, <2>5 DEF Drained
    <2> QED BY <1>1, <2>1, <2>2, <2>3, <2>4, <2>5 DEF Drain
  <1>2. CASE Client
    <2>1. CASE \E s \in Ids, after \in Afters : Subscribe(s, after)
      BY <2>1 DEF Subscribe
    <2>2. CASE \E s \in Ids : Unsubscribe(s)
      BY <2>2 DEF Unsubscribe
    <2>3. CASE Close
      BY <2>3 DEF Close
    <2> QED BY <1>2, <2>1, <2>2, <2>3 DEF Client
  <1>3. CASE Respond \/ StartPoller \/ Top
    BY <1>3 DEF Respond, StartPoller, Top
  <1>4. CASE Wait \/ CheckEmpty \/ ThreadEnds
    BY <1>4 DEF Wait, CheckEmpty, ThreadEnds
  <1>5. CASE LogNext /\ UNCHANGED <<subVars, sent, threadVars, ended>>
    BY <1>5
  <1>6. CASE UNCHANGED vars
    BY <1>6 DEF vars
  <1> QED BY <1>1, <1>2, <1>3, <1>4, <1>5, <1>6 DEF Next, Main, Poller

\* Nothing that is covered is uncovered again.
LEMMA DeliveredStays ==
  ASSUME TypeOK, [Next]_vars, NEW s \in Ids, NEW i, Delivered(s, i)
  PROVE  Delivered(s, i)'
  <1>1. ASSUME NEW t \in Threads, Notify(t) PROVE Delivered(s, i)'
    <2>1. PICK j \in batch[t] : sent' = [sent EXCEPT ![target[t]] = Append(@, j)]
      BY <1>1 DEF Notify
    <2>2. sent[s] \in Seq(Nat) /\ j \in Nat
      BY <2>1 DEF TypeOK, SubTypeOK, ThreadTypeOK
    <2>3. sent'[s] = sent[s] \/ sent'[s] = Append(sent[s], j)
      BY <2>1 DEF TypeOK, SubTypeOK
    <2>4. PICK k \in 1 .. Len(sent[s]) : sent[s][k] = i
      BY DEF Delivered
    <2>5. k \in 1 .. Len(sent'[s]) /\ sent'[s][k] = i
      BY <2>2, <2>3, <2>4
    <2> QED BY <2>5 DEF Delivered
  <1>2. CASE UNCHANGED sent
    BY <1>2 DEF Delivered
  <1> QED BY <1>1, <1>2 DEF Next, Client, Subscribe, Unsubscribe, Close, Main,
       Respond, StartPoller, Poller, Top, Wait, CheckEmpty, ThreadEnds, Drain,
       Read, ReadNothing, Commit, Drained, vars, Threads

LEMMA InFlightStays ==
  ASSUME TypeOK, [Next]_vars, NEW s \in Ids, NEW i, InFlight(s, i)
  PROVE  (Delivered(s, i) \/ InFlight(s, i))'
  <1>1. PICK t \in Threads : pc[t] = "notify" /\ target[t] = s /\ i \in batch[t]
    BY DEF InFlight
  <1> USE <1>1 DEF TypeOK, ThreadTypeOK, SubTypeOK, InFlight, Threads, Goto
  <1>2. CASE Notify(t)
    <2>1. PICK j \in batch[t] :
            /\ sent' = [sent EXCEPT ![target[t]] = Append(@, j)]
            /\ IF batch[t] = {j}
                 THEN NextSubscription(t)
                 ELSE /\ batch' = [batch EXCEPT ![t] = @ \ {j}]
                      /\ UNCHANGED <<target, upto, pc>>
      BY <1>2 DEF Notify
    <2>2. CASE i = j
      <3>1. sent[s] \in Seq(Nat) /\ j \in Nat
        BY <2>1
      <3>2. sent'[s] = Append(sent[s], j)
        BY <2>1
      <3>3. Len(sent'[s]) = Len(sent[s]) + 1 /\ sent'[s][Len(sent[s]) + 1] = i
        BY <3>1, <3>2, <2>2
      <3> QED BY <3>1, <3>3 DEF Delivered
    <2>3. CASE i # j
      BY <2>1, <2>3
    <2> QED BY <2>2, <2>3
  <1>3. CASE UNCHANGED <<pc, target, batch>>
    BY <1>3
  <1>4. ASSUME NEW u \in Threads \ {t}, Drain(u) PROVE InFlight(s, i)'
    BY <1>4 DEF Drain, Read, ReadNothing, Commit, Notify, Drained,
                NextSubscription
  <1>5. CASE Client
    BY <1>5 DEF Client, Subscribe, Unsubscribe, Close, threadVars
  <1>9. CASE Respond \/ StartPoller
    BY <1>9 DEF Respond, StartPoller, PollerAlive
  <1>6. CASE Top \/ Wait \/ CheckEmpty \/ ThreadEnds
    BY <1>6 DEF Top, Wait, CheckEmpty, ThreadEnds
  <1>7. Drain(t) => Notify(t)
    BY DEF Drain, Read, ReadNothing, Commit, Drained
  <1> QED BY <1>2, <1>3, <1>4, <1>5, <1>6, <1>7, <1>9
          DEF Next, Main, Poller, vars, threadVars

LEMMA CoveredStays ==
  ASSUME TypeOK, [Next]_vars, NEW s \in Ids, NEW i, Covered(s, i)
  PROVE  Covered(s, i)'
  <1>1. bad \subseteq bad'
    BY LogSteps, BadStays DEF logVars
  <1> QED BY <1>1, DeliveredStays, InFlightStays DEF Covered

\* Only two kinds of step touch a cursor or the start of a subscription.
LEMMA CursorSteps ==
  ASSUME [Next]_vars
  PROVE  \/ \E s \in Ids, after \in Afters : Subscribe(s, after)
         \/ \E t \in Threads :
              /\ Commit(t) /\ Advance(t)
              /\ pc' = [pc EXCEPT ![t] = "notify"]
              /\ UNCHANGED <<first, target, batch>>
         \/ UNCHANGED <<cursor, first>>
BY DEF Next, Client, Unsubscribe, Close, Main, Respond, StartPoller, Poller,
       Top, Wait, CheckEmpty, ThreadEnds, Drain, Read, ReadNothing, Commit,
       Notify, Drained, vars, subVars, Threads, Goto

LEMMA SkippedSteps ==
  ASSUME TypeOK, Gapless, [Next]_vars PROVE NothingSkipped'
  <1> SUFFICES ASSUME NEW s \in Ids, NEW i \in first'[s] .. cursor'[s] - 1
               PROVE  Covered(s, i)'
    BY DEF NothingSkipped, Covered
  <1>0. i \in first[s] .. cursor[s] - 1 => Covered(s, i)
    BY DEF Gapless, NothingSkipped, Covered
  <1>1. CASE \E r \in Ids, after \in Afters : Subscribe(r, after)
    <2>1. PICK r \in Ids, after \in Afters : Subscribe(r, after)
      BY <1>1
    <2>2. StartOf(after) \in Nat
      BY StreamAssumption DEF StartOf
    <2>3. r # s
      BY <2>1, <2>2 DEF Subscribe, TypeOK, SubTypeOK
    <2>4. first'[s] = first[s] /\ cursor'[s] = cursor[s]
      BY <2>1, <2>3 DEF Subscribe, TypeOK, SubTypeOK
    <2> QED BY <1>0, <2>4, CoveredStays
  <1>2. CASE UNCHANGED <<cursor, first>>
    BY <1>0, <1>2, CoveredStays
  <1>3. ASSUME NEW t \in Threads, Commit(t), Advance(t),
               pc' = [pc EXCEPT ![t] = "notify"],
               UNCHANGED <<first, target, batch>>
        PROVE  Covered(s, i)'
    <2>1. CASE target[t] # s
      <3>1. cursor'[s] = cursor[s] /\ first'[s] = first[s]
        BY <1>3, <2>1 DEF TypeOK, SubTypeOK
      <3> QED BY <1>0, <3>1, CoveredStays
    <2>2. CASE target[t] = s
      <3>1. i \in first[target[t]] .. upto[t] - 1
        BY <1>3, <2>2 DEF TypeOK, SubTypeOK
      <3>2. pc[t] = "commit"
        BY <1>3 DEF Commit
      <3>3. Covered(s, i) \/ i \in batch[t]
        BY <2>2, <3>1, <3>2 DEF Gapless, Pending
      <3>4. i \in batch[t] => InFlight(s, i)'
        BY <1>3, <2>2 DEF InFlight, TypeOK, ThreadTypeOK
      <3> QED BY <3>3, <3>4, CoveredStays DEF Covered
    <2> QED BY <2>1, <2>2
  <1> QED BY <1>1, <1>2, <1>3, CursorSteps

\* A thread that is about to commit has just read, or was about to before.
LEMMA CommitSteps ==
  ASSUME TypeOK, [Next]_vars, NEW t \in Threads, pc'[t] = "commit"
  PROVE  \/ Read(t)
         \/ /\ pc[t] = "commit"
            /\ target'[t] = target[t]
            /\ batch'[t] = batch[t]
            /\ upto'[t] = upto[t]
  <1> USE DEF TypeOK, ThreadTypeOK, Threads, Goto
  <1>1. ASSUME NEW u \in Threads, Drain(u)
        PROVE  Read(t) \/ /\ pc[t] = "commit" /\ target'[t] = target[t]
                          /\ batch'[t] = batch[t] /\ upto'[t] = upto[t]
    BY <1>1 DEF Drain, Read, ReadNothing, Commit, Notify, Drained,
                NextSubscription
  <1>2. CASE Client \/ Respond \/ StartPoller
    BY <1>2 DEF Client, Subscribe, Unsubscribe, Close, Respond, StartPoller,
                threadVars
  <1>3. CASE Top \/ Wait \/ CheckEmpty \/ ThreadEnds \/ UNCHANGED threadVars
    BY <1>3 DEF Top, Wait, CheckEmpty, ThreadEnds, threadVars
  <1> QED BY <1>1, <1>2, <1>3 DEF Next, Main, Poller, vars

LEMMA PendingSteps ==
  ASSUME TypeOK, Gapless, [Next]_vars PROVE Pending'
  <1>0. \A t \in Threads : pc'[t] = "commit" => target'[t] \in Ids
    BY NextTyped DEF TypeOK, ThreadTypeOK
  <1> SUFFICES ASSUME NEW t \in Threads, pc'[t] = "commit",
                      NEW r \in Ids, target'[t] = r,
                      NEW i \in first'[r] .. upto'[t] - 1
               PROVE  Covered(r, i)' \/ i \in batch'[t]
    BY <1>0 DEF Pending, Covered, Delivered, InFlight
  <1>1. CASE Read(t)
    <2>1. PICK s \in todo[t] :
            \E n \in cursor[s] + 1 .. size + 1 : ReadFor(t, s, n)
      BY <1>1, ReadPicks
    <2>2. PICK n \in cursor[s] + 1 .. size + 1 : ReadFor(t, s, n)
      BY <2>1
    <2>3. /\ r = s /\ upto'[t] = n /\ first' = first
          /\ batch'[t] = {j \in cursor[s] .. n - 1 : Readable(j)}
          /\ s \in Ids /\ cursor[s] \in Nat /\ first[s] \in Nat /\ size \in Nat
      BY <2>2 DEF ReadFor, TypeOK, ThreadTypeOK, SubTypeOK, LogTypeOK,
                  FileTypeOK, subVars
    <2>4. CASE i < cursor[s]
      <3>1. Covered(s, i)
        BY <2>3, <2>4 DEF Gapless, NothingSkipped, Covered
      <3> QED BY <2>3, <3>1, CoveredStays
    <2>5. CASE i >= cursor[s] /\ ~Readable(i)
      <3>1. i < size
        BY <2>2, <2>3, <2>5 DEF ReadFor
      <3>2. i \in bad
        BY <2>5, <3>1 DEF Readable
      <3> QED BY <2>3, <3>2, CoveredStays DEF Covered
    <2>6. CASE i >= cursor[s] /\ Readable(i)
      BY <2>3, <2>6
    <2> QED BY <2>3, <2>4, <2>5, <2>6
  <1>2. CASE /\ pc[t] = "commit" /\ target'[t] = target[t]
             /\ batch'[t] = batch[t] /\ upto'[t] = upto[t]
    <2>1. target[t] = r /\ subs[target[t]] # "new"
      BY <1>2 DEF TypeOK, ThreadTypeOK, Gapless, Known
    <2>2. first'[target[t]] = first[target[t]]
      BY <2>1, CursorSteps DEF Subscribe, TypeOK, SubTypeOK
    <2>3. Covered(target[t], i) \/ i \in batch[t]
      BY <1>2, <2>2 DEF Gapless, Pending
    <2> QED BY <1>2, <2>1, <2>3, CoveredStays
  <1> QED BY <1>1, <1>2, CommitSteps

LEMMA InitGapless == Init => Gapless
BY DEF Init, Gapless, NothingSkipped, Known, Pending, Threads

\* No event between the start a client asked for and its cursor is lost on the
\* way to it, whichever threads drain and however the log is torn.
THEOREM NothingIsSkipped == Spec => []NothingSkipped
  <1>1. TypeOK /\ Gapless /\ [Next]_vars => Gapless'
    BY KnownSteps, SkippedSteps, PendingSteps DEF Gapless
  <1>2. Gapless => NothingSkipped
    BY DEF Gapless
  <1> QED BY <1>1, <1>2, InitGapless, TypeCorrect, PTL DEF Spec

-----------------------------------------------------------------------------
(* What was sent stays in the log.                                         *)

BatchesLogged == ~raced => \A t \in Threads : \A i \in batch[t] : Readable(i)

Logged == DeliveredIsLogged /\ BatchesLogged

LEMMA ReadableSteps ==
  ASSUME TypeOK, Clean, [Next]_vars, ~raced', NEW i \in Nat, Readable(i)
  PROVE  Readable(i)'
  <1>1. CASE LogNext
    BY <1>1, ReadableStays DEF TypeOK
  <1>2. CASE UNCHANGED logVars
    BY <1>2 DEF logVars, Readable
  <1> QED BY <1>1, <1>2, LogSteps

LEMMA RacedStays == [Next]_vars /\ ~raced' => ~raced
  <1>1. LogNext /\ ~raced' => ~raced
    BY DEF LogNext, Begin, Write, Landed, Torn
  <1> QED BY <1>1, LogSteps DEF logVars

\* A batch is what was read just now, or what is left of an earlier one.
LEMMA BatchSteps ==
  ASSUME TypeOK, [Next]_vars, NEW t \in Threads, NEW i \in batch'[t]
  PROVE  i \in batch[t] \/ (Readable(i) /\ UNCHANGED logVars)
  <1> USE DEF TypeOK, ThreadTypeOK, Threads
  <1>1. ASSUME NEW u \in Threads, Drain(u), ~Read(u) PROVE i \in batch[t]
    BY <1>1 DEF Drain, ReadNothing, Commit, Notify, Drained, NextSubscription
  <1>2. ASSUME NEW u \in Threads, Read(u)
        PROVE  i \in batch[t] \/ (Readable(i) /\ UNCHANGED logVars)
    <2>1. PICK s \in todo[u] :
            \E n \in cursor[s] + 1 .. size + 1 : ReadFor(u, s, n)
      BY <1>2, ReadPicks
    <2> HIDE DEF Readable
    <2> QED BY <2>1 DEF ReadFor
  <1>3. CASE UNCHANGED batch
    BY <1>3
  <1> QED BY <1>1, <1>2, <1>3 DEF Next, Client, Subscribe, Unsubscribe, Close,
       Main, Respond, StartPoller, Poller, Top, Wait, CheckEmpty, ThreadEnds,
       vars, threadVars

LEMMA SentSteps ==
  ASSUME TypeOK, [Next]_vars, NEW s \in Ids, NEW k \in 1 .. Len(sent'[s])
  PROVE  \/ k \in 1 .. Len(sent[s]) /\ sent'[s][k] = sent[s][k]
         \/ \E t \in Threads : sent'[s][k] \in batch[t]
  <1>1. ASSUME NEW t \in Threads, Notify(t)
        PROVE  \/ k \in 1 .. Len(sent[s]) /\ sent'[s][k] = sent[s][k]
               \/ \E u \in Threads : sent'[s][k] \in batch[u]
    <2>1. PICK j \in batch[t] : sent' = [sent EXCEPT ![target[t]] = Append(@, j)]
      BY <1>1 DEF Notify
    <2>2. sent[s] \in Seq(Nat) /\ j \in Nat
      BY <2>1 DEF TypeOK, SubTypeOK, ThreadTypeOK
    <2>3. sent'[s] = sent[s] \/ sent'[s] = Append(sent[s], j)
      BY <2>1 DEF TypeOK, SubTypeOK
    <2>4. CASE sent'[s] = Append(sent[s], j)
      <3>1. Len(sent'[s]) = Len(sent[s]) + 1
        BY <2>2, <2>4
      <3>2. k \in 1 .. Len(sent[s]) => sent'[s][k] = sent[s][k]
        BY <2>2, <2>4
      <3>3. k = Len(sent[s]) + 1 => sent'[s][k] = j
        BY <2>2, <2>4
      <3>4. Len(sent[s]) \in Nat
        BY <2>2
      <3> QED BY <2>1, <3>1, <3>2, <3>3, <3>4
    <2> QED BY <2>3, <2>4
  <1>2. CASE UNCHANGED sent
    BY <1>2
  <1> QED BY <1>1, <1>2 DEF Next, Client, Subscribe, Unsubscribe, Close, Main,
       Respond, StartPoller, Poller, Top, Wait, CheckEmpty, ThreadEnds, Drain,
       Read, ReadNothing, Commit, Drained, vars, Threads

LEMMA LoggedSteps == TypeOK /\ Clean /\ Logged /\ [Next]_vars => Logged'
  <1> SUFFICES ASSUME TypeOK, Clean, Logged, [Next]_vars, ~raced'
               PROVE  /\ \A s \in Ids : \A k \in 1 .. Len(sent'[s]) :
                           Readable(sent[s][k])'
                      /\ \A t \in Threads : \A i \in batch'[t] : Readable(i)'
    BY DEF Logged, DeliveredIsLogged, BatchesLogged
  <1>0. ~raced
    BY RacedStays
  <1>1. ASSUME NEW t \in Threads, NEW i \in batch'[t] PROVE Readable(i)'
    <2>1. i \in Nat
      BY NextTyped DEF TypeOK, ThreadTypeOK
    <2>2. Readable(i)
      BY <1>0, <1>1, BatchSteps DEF Logged, BatchesLogged
    <2> QED BY <2>1, <2>2, ReadableSteps
  <1>2. ASSUME NEW s \in Ids, NEW k \in 1 .. Len(sent'[s])
        PROVE  Readable(sent[s][k])'
    <2>1. PICK i \in Nat : i = sent'[s][k]
      BY <1>2, NextTyped DEF TypeOK, SubTypeOK
    <2>2. Readable(i)
      BY <1>0, <1>2, <2>1, SentSteps DEF Logged, DeliveredIsLogged, BatchesLogged
    <2>3. Readable(i)'
      BY <2>1, <2>2, ReadableSteps
    <2> QED BY <2>1, <2>3 DEF Readable
  <1> QED BY <1>1, <1>2

\* What a client has been sent is in the log at that index for good, as long as
\* every append got the lock.
THEOREM DeliveredStaysLogged == Spec => []DeliveredIsLogged
  <1>1. Init => Logged
    BY DEF Init, Logged, DeliveredIsLogged, BatchesLogged, Threads
  <1>2. Logged => DeliveredIsLogged
    BY DEF Logged
  <1> QED BY <1>1, <1>2, LoggedSteps, AlwaysClean, TypeCorrect, PTL DEF Spec
-----------------------------------------------------------------------------
(* The first subscription is served in order.  As long as it is the only   *)
(* one, the poller is started once, after its response, and the main       *)
(* thread never drains.                                                    *)

NotTold(s) ==
  /\ sent[s] = <<>>
  /\ pc["poller"] = "dead"
  /\ \/ pc["main"] \in {"idle", "closed"} /\ subs[s] = "new"
     \/ pc["main"] = "respond" /\ target["main"] = s /\ subs[s] # "new"

OnePoller(s) ==
  /\ subs[s] # "new"
  /\ pc["main"] \in {"idle", "hook", "closed"}
  /\ pc["main"] = "hook" => pc["poller"] = "dead"

\* What was written lies before the cursor, what is about to be written
\* between the two.
Ordered(s) ==
  /\ Increasing(sent[s])
  /\ \A k \in 1 .. Len(sent[s]) : sent[s][k] < cursor[s]
  /\ pc["poller"] = "commit" =>
       /\ cursor[s] < upto["poller"]
       /\ \A i \in batch["poller"] : cursor[s] <= i /\ i < upto["poller"]
  /\ pc["poller"] = "notify" =>
       \A i \in batch["poller"] :
         i < cursor[s] /\ \A k \in 1 .. Len(sent[s]) : sent[s][k] < i

Sole(s) ==
  IF s \in told THEN OnePoller(s) /\ Ordered(s) ELSE NotTold(s)

SoleServed == \A s \in Ids : Alone(s) => Sole(s)

\* The one subscription there is, is what the poller works on.
LEMMA PollsSole ==
  ASSUME TypeOK, Known, NEW s \in Ids, Alone(s)
  PROVE  /\ pc["poller"] \in {"commit", "notify"} => target["poller"] = s
         /\ \A r \in todo["poller"] : r = s
  BY DEF Known, Alone, TypeOK, ThreadTypeOK, Threads

LEMMA Lengthened ==
  ASSUME NEW q \in Seq(Nat), NEW i \in Nat, Increasing(q),
         \A k \in 1 .. Len(q) : q[k] < i
  PROVE  /\ Increasing(Append(q, i))
         /\ \A k \in 1 .. Len(Append(q, i)) :
              Append(q, i)[k] = i \/ \E j \in 1 .. Len(q) : Append(q, i)[k] = q[j]
<1>1. /\ Len(q) \in Nat /\ Len(Append(q, i)) = Len(q) + 1
      /\ \A k \in 1 .. Len(q) : Append(q, i)[k] = q[k]
      /\ Append(q, i)[Len(q) + 1] = i
  OBVIOUS
<1>2. ASSUME NEW k \in 1 .. Len(q) PROVE Append(q, i)[k] < Append(q, i)[k + 1]
  <2>1. CASE k = Len(q)
    BY <1>1, <2>1
  <2>2. CASE k # Len(q)
    <3>1. k \in 1 .. Len(q) - 1 /\ k + 1 \in 1 .. Len(q)
      BY <1>1, <2>2
    <3> QED
      BY <1>1, <3>1 DEF Increasing
  <2> QED
    BY <2>1, <2>2
<1>3. Increasing(Append(q, i))
  <2>1. Len(Append(q, i)) - 1 = Len(q)
    BY <1>1
  <2> QED
    BY <1>2, <2>1 DEF Increasing
<1> QED
  BY <1>1, <1>3

\* Nobody but the poller moves while the client does not ask for anything.
LEMMA PollerDrains ==
  ASSUME TypeOK, Known, NEW s \in Ids, Alone(s), s \in told,
         OnePoller(s), Ordered(s), Drain("poller")
  PROVE  s \in told' /\ OnePoller(s)' /\ Ordered(s)'
<1> USE DEF TypeOK, ThreadTypeOK, SubTypeOK, Threads, subVars
<1>0. /\ pc["poller"] \in {"commit", "notify"} => target["poller"] = s
      /\ \A r \in todo["poller"] : r = s
  BY PollsSole
<1>1. /\ s \in told' /\ subs' = subs /\ pc'["main"] = pc["main"]
      /\ pc["poller"] # "dead"
  BY DEF Drain, Read, ReadNothing, Commit, Notify, Drained, NextSubscription,
         Goto
<1>2. OnePoller(s)'
  BY <1>1 DEF OnePoller
<1>3. CASE Read("poller")
  <2>1. PICK r \in todo["poller"] :
          \E n \in cursor[r] + 1 .. size + 1 : ReadFor("poller", r, n)
    BY <1>3, ReadPicks
  <2>2. PICK n \in cursor[r] + 1 .. size + 1 : ReadFor("poller", r, n)
    BY <2>1
  <2>3. /\ r = s /\ sent' = sent /\ cursor' = cursor /\ upto'["poller"] = n
        /\ batch'["poller"] = {i \in cursor[s] .. n - 1 : Readable(i)}
        /\ pc'["poller"] = "commit"
        /\ cursor[s] \in Nat /\ n \in Nat /\ cursor[s] < n
    BY <1>0, <2>1, <2>2 DEF ReadFor, LogTypeOK, FileTypeOK
  <2> HIDE DEF Readable
  <2>4. \A i \in batch'["poller"] : cursor'[s] <= i /\ i < upto'["poller"]
    BY <2>3
  <2> QED
    BY <1>1, <1>2, <2>3, <2>4 DEF Ordered
<1>4. CASE Commit("poller")
  <2>1. target["poller"] = s /\ UNCHANGED sent
    BY <1>0, <1>4 DEF Commit
  <2>2. CASE NextSubscription("poller") /\ UNCHANGED cursor
    BY <1>1, <1>2, <2>1, <2>2 DEF NextSubscription, Goto, Ordered
  <2>3. CASE Advance("poller") /\ Goto("poller", "notify")
             /\ UNCHANGED <<batch, target, upto>>
    <3>1. /\ cursor'[s] = upto["poller"] /\ pc["poller"] = "commit"
          /\ pc'["poller"] = "notify" /\ batch' = batch
      BY <1>4, <2>1, <2>3 DEF Commit, Goto
    <3>2. /\ cursor[s] \in Nat /\ upto["poller"] \in Nat
          /\ cursor[s] < upto["poller"]
          /\ \A k \in 1 .. Len(sent[s]) : sent[s][k] \in Nat
          /\ \A i \in batch["poller"] : i \in Nat
      BY <3>1 DEF Ordered
    <3>3. \A k \in 1 .. Len(sent[s]) : sent[s][k] < upto["poller"]
      BY <3>2 DEF Ordered
    <3>4. \A i \in batch["poller"] :
            /\ i < upto["poller"]
            /\ \A k \in 1 .. Len(sent[s]) : sent[s][k] < i
      BY <3>1, <3>2 DEF Ordered
    <3> QED
      BY <1>1, <1>2, <2>1, <3>1, <3>3, <3>4 DEF Ordered
  <2> QED
    BY <1>4, <2>2, <2>3 DEF Commit
<1>5. CASE Notify("poller")
  <2>1. PICK i \in batch["poller"] :
          /\ \A j \in batch["poller"] : i <= j
          /\ sent' = [sent EXCEPT ![target["poller"]] = Append(@, i)]
          /\ IF batch["poller"] = {i}
               THEN NextSubscription("poller")
               ELSE /\ batch' = [batch EXCEPT !["poller"] = @ \ {i}]
                    /\ UNCHANGED <<target, upto, pc>>
    BY <1>5 DEF Notify
  <2>2. /\ target["poller"] = s /\ pc["poller"] = "notify" /\ UNCHANGED cursor
        /\ i \in Nat /\ sent[s] \in Seq(Nat) /\ cursor[s] \in Nat
        /\ sent'[s] = Append(sent[s], i)
    BY <1>0, <1>5, <2>1 DEF Notify
  <2>3. i < cursor[s] /\ \A k \in 1 .. Len(sent[s]) : sent[s][k] < i
    BY <2>2 DEF Ordered
  <2>4. /\ Increasing(sent'[s])
        /\ \A k \in 1 .. Len(sent'[s]) :
             \/ sent'[s][k] = i
             \/ \E j \in 1 .. Len(sent[s]) : sent'[s][k] = sent[s][j]
    <3>1. PICK q \in Seq(Nat) : q = sent[s]
      BY <2>2
    <3>2. Increasing(q) /\ \A k \in 1 .. Len(q) : q[k] < i
      BY <2>3, <3>1 DEF Ordered
    <3>3. /\ Increasing(Append(q, i))
          /\ \A k \in 1 .. Len(Append(q, i)) :
               \/ Append(q, i)[k] = i
               \/ \E j \in 1 .. Len(q) : Append(q, i)[k] = q[j]
      BY <2>2, <3>2, Lengthened
    <3>4. sent'[s] = Append(q, i)
      BY <2>2, <3>1
    <3> QED
      BY <3>1, <3>3, <3>4
  <2>5. \A k \in 1 .. Len(sent'[s]) : sent'[s][k] < cursor'[s]
    BY <2>2, <2>3, <2>4 DEF Ordered
  <2>6. pc'["poller"] \in {"pick", "notify"}
    BY <2>1, <2>2 DEF NextSubscription, Goto
  <2>7. ASSUME pc'["poller"] = "notify", NEW j \in batch'["poller"]
        PROVE  j < cursor'[s] /\ \A k \in 1 .. Len(sent'[s]) : sent'[s][k] < j
    <3>1. j \in batch["poller"] /\ j # i /\ j \in Nat
      BY <2>1, <2>7 DEF NextSubscription, Goto
    <3>2. i < j /\ j < cursor[s] /\ \A k \in 1 .. Len(sent[s]) : sent[s][k] < j
      BY <2>1, <2>2, <3>1 DEF Ordered
    <3> QED
      BY <2>2, <2>4, <3>2
  <2>8. Ordered(s)'
    BY <2>4, <2>5, <2>6, <2>7 DEF Ordered
  <2> QED
    BY <1>1, <1>2, <2>8
<1>6. CASE ReadNothing("poller") \/ Drained("poller")
  <2>1. UNCHANGED <<sent, cursor, batch, upto>> /\ pc'["poller"] \in {"pick", "wait"}
    BY <1>6 DEF ReadNothing, Drained, Goto
  <2> QED
    BY <1>1, <1>2, <2>1 DEF Ordered
<1> QED
  BY <1>3, <1>4, <1>5, <1>6 DEF Drain

LEMMA SoleSteps == TypeOK /\ Known /\ SoleServed /\ [Next]_vars => SoleServed'
<1> SUFFICES ASSUME TypeOK, Known, SoleServed, [Next]_vars,
                    NEW s \in Ids, Alone(s)'
             PROVE  Sole(s)'
  BY DEF SoleServed
<1> USE DEF TypeOK, ThreadTypeOK, SubTypeOK, Threads, subVars, threadVars, Goto
<1>0. Alone(s)
  BY DEF Alone, Next, Client, Subscribe, Unsubscribe, Close, Main, Respond,
     StartPoller, Poller, Top, Wait, CheckEmpty, ThreadEnds, Drain, Read,
     ReadNothing, Commit, Notify, Drained, vars
<1>1. /\ s \in told => OnePoller(s) /\ Ordered(s)
      /\ s \notin told => NotTold(s)
  BY <1>0 DEF SoleServed, Sole
<1>2. ASSUME NEW r \in Ids, NEW after \in Afters, Subscribe(r, after)
      PROVE  Sole(s)'
  <2>1. r = s
    BY <1>2 DEF Subscribe, Alone
  <2>2. s \notin told
    BY <1>1, <1>2, <2>1 DEF Subscribe, OnePoller
  <2> QED
    BY <1>1, <1>2, <2>1, <2>2 DEF Subscribe, NotTold, Sole
<1>3. ASSUME NEW r \in Ids, Unsubscribe(r) PROVE Sole(s)'
  <2>1. CASE s \in told
    BY <1>1, <1>3, <2>1 DEF Unsubscribe, OnePoller, Ordered, Sole
  <2>2. CASE s \notin told
    <3>1. r = s
      BY <1>0, <1>3 DEF Unsubscribe, Alone
    <3> QED
      BY <1>1, <1>3, <2>2, <3>1 DEF Unsubscribe, NotTold
  <2> QED
    BY <2>1, <2>2
<1>4. CASE Close
  BY <1>1, <1>4 DEF Close, OnePoller, Ordered, NotTold, Sole
<1>5. CASE Respond
  <2>1. s \notin told
    BY <1>1, <1>5 DEF Respond, OnePoller
  <2>2. /\ target["main"] = s /\ sent[s] = <<>> /\ subs[s] # "new"
        /\ pc["poller"] = "dead"
    BY <1>1, <1>5, <2>1 DEF Respond, NotTold
  <2>3. s \in told' /\ OnePoller(s)'
    BY <1>5, <2>2 DEF Respond, OnePoller
  <2>4. Ordered(s)'
    BY <1>5, <2>2 DEF Respond, Ordered, Increasing
  <2> QED
    BY <2>3, <2>4 DEF Sole
<1>6. CASE StartPoller
  <2>1. s \in told /\ pc["poller"] = "dead"
    BY <1>1, <1>6 DEF StartPoller, NotTold, OnePoller
  <2>2. pc' = [pc EXCEPT !["main"] = "idle", !["poller"] = "top"]
    BY <1>6, <2>1 DEF StartPoller, PollerAlive
  <2> QED
    BY <1>1, <1>6, <2>1, <2>2 DEF StartPoller, OnePoller, Ordered, Sole
<1>7. ~Drain("main")
  BY <1>1 DEF Drain, Read, ReadNothing, Commit, Notify, Drained, NotTold,
     OnePoller
<1>8. CASE Drain("poller")
  <2>1. s \in told
    BY <1>1, <1>8
    DEF Drain, Read, ReadNothing, Commit, Notify, Drained, NotTold
  <2> QED
    BY <1>0, <1>1, <1>8, <2>1, PollerDrains DEF Sole
<1>9. CASE Top \/ Wait \/ CheckEmpty \/ ThreadEnds
  <2>1. s \in told /\ pc["poller"] # "dead"
    BY <1>1, <1>9 DEF Top, Wait, CheckEmpty, ThreadEnds, NotTold
  <2>2. /\ UNCHANGED <<subVars, sent, batch, upto>>
        /\ pc'["main"] = pc["main"]
        /\ pc'["poller"] \in {"dead", "pick", "check", "top", "leaving"}
    BY <1>9 DEF Top, Wait, CheckEmpty, ThreadEnds
  <2> QED
    BY <1>1, <2>1, <2>2 DEF OnePoller, Ordered, Sole
<1>10. CASE UNCHANGED <<subVars, sent, threadVars>>
  BY <1>1, <1>10 DEF OnePoller, Ordered, NotTold, Sole
<1> QED
  BY <1>2, <1>3, <1>4, <1>5, <1>6, <1>7, <1>8, <1>9, <1>10
  DEF Next, Client, Main, Poller, vars

LEMMA SoleHolds == Spec => []SoleServed
<1>1. Init => Known /\ SoleServed
  BY DEF Init, Known, SoleServed, Sole, NotTold, Threads
<1> QED
  BY <1>1, KnownSteps, SoleSteps, TypeCorrect, PTL DEF Spec

\* A connection's first subscription gets its response first and then every
\* sequence in ascending order, as long as no other is made.
THEOREM FirstIsOrdered == Spec => []FirstInOrder
<1>1. TypeOK /\ SoleServed => FirstInOrder
  <2> SUFFICES ASSUME TypeOK, SoleServed, NEW s \in Ids, Alone(s)
               PROVE  Increasing(sent[s]) /\ (sent[s] # <<>> => s \in told)
    BY DEF FirstInOrder
  <2> QED
    BY DEF SoleServed, Sole, Ordered, NotTold, Increasing
<1> QED
  BY <1>1, SoleHolds, TypeCorrect, PTL
-----------------------------------------------------------------------------
(* And it has a poller as long as it is live.                              *)

Tended(s) ==
  s \in Live /\ s \in told /\ ~ended =>
    pc["main"] = "hook" \/ pc["poller"] \notin {"leaving", "dead"}

AllTended == \A s \in Ids : Alone(s) => Tended(s)

LEMMA TendedSteps ==
  TypeOK /\ SoleServed /\ AllTended /\ [Next]_vars => AllTended'
<1> SUFFICES ASSUME TypeOK, SoleServed, AllTended, [Next]_vars,
                    NEW s \in Ids, Alone(s)', s \in Live', s \in told', ~ended'
             PROVE  \/ pc'["main"] = "hook"
                    \/ pc'["poller"] \notin {"leaving", "dead"}
  BY DEF AllTended, Tended
<1> USE DEF TypeOK, ThreadTypeOK, SubTypeOK, Threads, subVars, threadVars,
            Goto, Live
<1>0. Alone(s) /\ ~ended
  BY DEF Alone, Next, Client, Subscribe, Unsubscribe, Close, Main, Respond,
     StartPoller, Poller, Top, Wait, CheckEmpty, ThreadEnds, Drain, Read,
     ReadNothing, Commit, Notify, Drained, vars
<1>1. /\ s \in told => OnePoller(s)
      /\ s \notin told => NotTold(s)
      /\ s \in Live /\ s \in told =>
           pc["main"] = "hook" \/ pc["poller"] \notin {"leaving", "dead"}
  BY <1>0 DEF SoleServed, Sole, AllTended, Tended
<1>2. ASSUME NEW r \in Ids, NEW after \in Afters, Subscribe(r, after)
      PROVE  FALSE
  BY <1>1, <1>2 DEF Subscribe, Alone, OnePoller
<1>3. ASSUME NEW r \in Ids, Unsubscribe(r)
      PROVE  pc' = pc /\ s \in Live /\ s \in told
  BY <1>3 DEF Unsubscribe
<1>4. CASE Close
  BY <1>4 DEF Close
<1>5. CASE Respond
  BY <1>5 DEF Respond
<1>6. CASE StartPoller
  BY <1>1, <1>6 DEF StartPoller, PollerAlive, OnePoller, NotTold
<1>7. ~Drain("main")
  BY <1>1 DEF Drain, Read, ReadNothing, Commit, Notify, Drained, NotTold,
     OnePoller
<1>8. CASE Drain("poller")
  BY <1>1, <1>8
  DEF Drain, Read, ReadNothing, Commit, Notify, Drained, NextSubscription
<1>9. CASE Top \/ Wait \/ CheckEmpty \/ ThreadEnds
  BY <1>0, <1>1, <1>9 DEF Top, Wait, CheckEmpty, ThreadEnds, OnePoller
<1>10. CASE UNCHANGED <<subVars, threadVars>>
  BY <1>1, <1>10
<1> QED
  BY <1>1, <1>2, <1>3, <1>4, <1>5, <1>6, <1>7, <1>8, <1>9, <1>10
  DEF Next, Client, Main, Poller, vars

\* A connection's first subscription is never left without a poller while it
\* lives, as long as no other is made: what EveryoneIsServed rests on there
\* (_start_poller and _poll_loop).  With a second one it may be.
THEOREM FirstIsTended ==
  Spec => [](\A s \in Live : Alone(s) /\ s \in told /\ ~ended =>
               pc["main"] = "hook" \/ pc["poller"] \notin {"leaving", "dead"})
<1>1. Init => AllTended
  BY DEF Init, AllTended, Tended
<1>2. AllTended =>
        \A s \in Live : Alone(s) /\ s \in told /\ ~ended =>
          pc["main"] = "hook" \/ pc["poller"] \notin {"leaving", "dead"}
  BY DEF AllTended, Tended, Live
<1> QED
  BY <1>1, <1>2, SoleHolds, TendedSteps, TypeCorrect, PTL DEF Spec
=============================================================================
