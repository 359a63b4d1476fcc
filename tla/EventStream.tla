---------------------------- MODULE EventStream ----------------------------
(***************************************************************************)
(* event/subscribe on one runtime connection: events appended to a         *)
(* session's log are pushed to the subscriptions of a client.              *)
(*                                                                         *)
(* Two threads deliver.  The main thread handles requests one at a time    *)
(* and, after the response to a subscribe, either starts the poller or,    *)
(* when the poller is alive, drains the subscriptions itself.  The poller  *)
(* drains, sleeps, and ends when no subscription is left.  The             *)
(* subscription lock is held only where an action below reads or writes    *)
(* the table; the log is read, and the frames are written, without it.     *)
(* Each frame is written under a lock of its own.                          *)
(***************************************************************************)
EXTENDS EventLog, Sequences

CONSTANTS
  Ids,        \* subscription identifiers uuid4 may hand out
  Limit,      \* MAX_EVENTS_PER_POLL
  MaxSubs,    \* MAX_SUBSCRIPTIONS
  Afters      \* the "after" a client may subscribe with

ASSUME StreamAssumption ==
  /\ Limit \in Nat \ {0}
  /\ MaxSubs \in Nat
  /\ Afters \subseteq Int
  /\ Nobody \notin Ids

VARIABLES
  subs,       \* whether a subscription is not made yet, live, or gone
  cursor,     \* its nextSeq; a drain keeps the entry when it is gone
  first,      \* the sequence the client asked to start from
  told,       \* subscriptions whose response has been written
  sent,       \* the sequences written for a subscription, in order
  pc,         \* where each thread stands
  todo,       \* rest of the snapshot a drain walks through
  target,     \* the subscription it reads for
  batch,      \* the events it has read and not yet written
  upto,       \* next_seq of what it has read
  ended       \* the client has closed the connection

subVars    == <<subs, cursor, first, told>>
threadVars == <<pc, todo, target, batch, upto>>
vars == <<logVars, subVars, sent, threadVars, ended>>

Threads    == {"main", "poller"}
Draining   == {"pick", "commit", "notify"}
MainPlaces == {"idle", "respond", "hook", "closed"} \cup Draining
PollPlaces == {"dead", "top", "wait", "check", "leaving"} \cup Draining

Live == {s \in Ids : subs[s] = "live"}
PollerAlive == pc["poller"] # "dead"

Init ==
  /\ LogInit
  /\ subs = [s \in Ids |-> "new"]
  /\ cursor = [s \in Ids |-> 0]
  /\ first = [s \in Ids |-> 0]
  /\ told = {}
  /\ sent = [s \in Ids |-> <<>>]
  /\ pc = [t \in Threads |-> IF t = "main" THEN "idle" ELSE "dead"]
  /\ todo = [t \in Threads |-> {}]
  /\ target = [t \in Threads |-> Nobody]
  /\ batch = [t \in Threads |-> {}]
  /\ upto = [t \in Threads |-> 0]
  /\ ended = FALSE

Goto(t, place) == pc' = [pc EXCEPT ![t] = place]

-----------------------------------------------------------------------------
(* Requests, on the main thread.                                           *)

\* A cursor is never before the first line.
StartOf(after) == IF after + 1 > 0 THEN after + 1 ELSE 0

Subscribe(s, after) ==
  /\ pc["main"] = "idle"
  /\ subs[s] = "new"
  /\ Cardinality(Live) < MaxSubs
  /\ subs' = [subs EXCEPT ![s] = "live"]
  /\ cursor' = [cursor EXCEPT ![s] = StartOf(after)]
  /\ first' = [first EXCEPT ![s] = StartOf(after)]
  /\ target' = [target EXCEPT !["main"] = s]
  /\ Goto("main", "respond")
  /\ UNCHANGED <<logVars, told, sent, todo, batch, upto, ended>>

\* The response goes out, and only then the post-send hook runs.
Respond ==
  /\ pc["main"] = "respond"
  /\ told' = told \cup {target["main"]}
  /\ target' = [target EXCEPT !["main"] = Nobody]
  /\ Goto("main", "hook")
  /\ UNCHANGED <<logVars, subs, cursor, first, sent, todo, batch, upto, ended>>

\* _start_poller.
StartPoller ==
  /\ pc["main"] = "hook"
  /\ \/ /\ PollerAlive
        /\ todo' = [todo EXCEPT !["main"] = Live]
        /\ Goto("main", "pick")
     \/ /\ ~PollerAlive
        /\ pc' = [pc EXCEPT !["main"] = "idle", !["poller"] = "top"]
        /\ UNCHANGED todo
  /\ UNCHANGED <<logVars, subVars, sent, target, batch, upto, ended>>

Unsubscribe(s) ==
  /\ pc["main"] = "idle"
  /\ subs[s] = "live"
  /\ subs' = [subs EXCEPT ![s] = "gone"]
  /\ UNCHANGED <<logVars, cursor, first, told, sent, threadVars, ended>>

\* End of file on stdin: shutdown sets the stop flag.
Close ==
  /\ pc["main"] = "idle"
  /\ ended' = TRUE
  /\ Goto("main", "closed")
  /\ UNCHANGED <<logVars, subVars, sent, todo, target, batch, upto>>

-----------------------------------------------------------------------------
(* _drain_subscriptions, on either thread.                                 *)

\* The cursor a read leaves behind: one past the last event returned, never
\* one past an unreadable line that an append may still complete.
NextSeq_PastTorn(n) == n = size + 1
NextSeq(n) == Readable(n - 1)

\* The first Limit readable events from the cursor on.
Read(t) ==
  /\ pc[t] = "pick"
  /\ \E s \in todo[t] :
       /\ todo' = [todo EXCEPT ![t] = @ \ {s}]
       /\ target' = [target EXCEPT ![t] = s]
       /\ \E n \in cursor[s] + 1 .. size + 1 :
            /\ NextSeq(n)
            /\ upto' = [upto EXCEPT ![t] = n]
            /\ LET found == {i \in cursor[s] .. n - 1 : Readable(i)}
               IN  /\ batch' = [batch EXCEPT ![t] = found]
                   /\ \/ Cardinality(found) = Limit
                      \/ /\ Cardinality(found) < Limit
                         /\ \A i \in n .. size : ~Readable(i)
  /\ Goto(t, "commit")
  /\ UNCHANGED <<logVars, subVars, sent, ended>>

ReadNothing(t) ==
  /\ pc[t] = "pick"
  /\ \E s \in todo[t] :
       /\ \A i \in cursor[s] .. size : ~Readable(i)
       /\ todo' = [todo EXCEPT ![t] = @ \ {s}]
  /\ UNCHANGED <<logVars, subVars, sent, pc, target, batch, upto, ended>>

\* The snapshot holds the table's own entries, so that live["nextSeq"] and
\* subscription["nextSeq"] are one and the same field.
MovedMeanwhile(s) == cursor[s] # cursor[s]

Advance_Late(t) == UNCHANGED cursor
Advance(t) == cursor' = [cursor EXCEPT ![target[t]] = upto[t]]

\* Done with a subscription: on to the next of the snapshot.
NextSubscription(t) ==
  /\ batch' = [batch EXCEPT ![t] = {}]
  /\ target' = [target EXCEPT ![t] = Nobody]
  /\ upto' = [upto EXCEPT ![t] = 0]
  /\ Goto(t, "pick")

Commit(t) ==
  /\ pc[t] = "commit"
  /\ IF target[t] \notin Live \/ MovedMeanwhile(target[t])
       THEN NextSubscription(t) /\ UNCHANGED cursor
       ELSE /\ Advance(t)
            /\ Goto(t, "notify")
            /\ UNCHANGED <<batch, target, upto>>
  /\ UNCHANGED <<logVars, subs, first, told, sent, todo, ended>>

\* One frame, the lowest sequence first.
Notify(t) ==
  /\ pc[t] = "notify"
  /\ \E i \in batch[t] :
       /\ \A j \in batch[t] : i <= j
       /\ sent' = [sent EXCEPT ![target[t]] = Append(@, i)]
       /\ IF batch[t] = {i}
            THEN NextSubscription(t)
            ELSE /\ batch' = [batch EXCEPT ![t] = @ \ {i}]
                 /\ UNCHANGED <<target, upto, pc>>
  /\ UNCHANGED <<logVars, subVars, todo, ended>>

\* The walk is over: the hook returns, the poller goes to sleep.
Drained(t) ==
  /\ pc[t] = "pick"
  /\ todo[t] = {}
  /\ Goto(t, IF t = "main" THEN "idle" ELSE "wait")
  /\ UNCHANGED <<logVars, subVars, sent, todo, target, batch, upto, ended>>

-----------------------------------------------------------------------------
(* _poll_loop, on the poller.                                              *)

Top ==
  /\ pc["poller"] = "top"
  /\ IF ended
       THEN Goto("poller", "dead") /\ UNCHANGED todo
       ELSE Goto("poller", "pick") /\ todo' = [todo EXCEPT !["poller"] = Live]
  /\ UNCHANGED <<logVars, subVars, sent, target, batch, upto, ended>>

Wait ==
  /\ pc["poller"] = "wait"
  /\ Goto("poller", IF ended THEN "dead" ELSE "check")
  /\ UNCHANGED <<logVars, subVars, sent, todo, target, batch, upto, ended>>

KeepPolling_Never == FALSE
KeepPolling == Live # {}

\* With no subscription left the loop returns; the thread stays alive until
\* it has.
CheckEmpty ==
  /\ pc["poller"] = "check"
  /\ Goto("poller", IF KeepPolling THEN "top" ELSE "leaving")
  /\ UNCHANGED <<logVars, subVars, sent, todo, target, batch, upto, ended>>

ThreadEnds ==
  /\ pc["poller"] = "leaving"
  /\ Goto("poller", "dead")
  /\ UNCHANGED <<logVars, subVars, sent, todo, target, batch, upto, ended>>

-----------------------------------------------------------------------------
Drain(t) == Read(t) \/ ReadNothing(t) \/ Commit(t) \/ Notify(t) \/ Drained(t)
Main     == Respond \/ StartPoller \/ Drain("main")
Poller   == Top \/ Wait \/ CheckEmpty \/ ThreadEnds \/ Drain("poller")

Client ==
  \/ \E s \in Ids : \E after \in Afters : Subscribe(s, after)
  \/ \E s \in Ids : Unsubscribe(s)
  \/ Close

Next ==
  \/ Client \/ Main \/ Poller
  \/ LogNext /\ UNCHANGED <<subVars, sent, threadVars, ended>>

Spec == Init /\ [][Next]_vars

\* Both threads keep running; nobody owes the client or the log anything.
Fairness == WF_vars(Main) /\ WF_vars(Poller)
FairSpec == Spec /\ Fairness

-----------------------------------------------------------------------------
SubTypeOK ==
  /\ subs \in [Ids -> {"new", "live", "gone"}]
  /\ cursor \in [Ids -> Nat]
  /\ first \in [Ids -> Nat]
  /\ told \subseteq Ids
  /\ sent \in [Ids -> Seq(Nat)]

ThreadTypeOK ==
  /\ pc \in [Threads -> MainPlaces \cup PollPlaces]
  /\ pc["main"] \in MainPlaces /\ pc["poller"] \in PollPlaces
  /\ todo \in [Threads -> SUBSET Ids]
  /\ target \in [Threads -> Ids \cup {Nobody}]
  /\ \A t \in Threads :
       pc[t] \in {"respond", "commit", "notify"} => target[t] \in Ids
  /\ batch \in [Threads -> SUBSET Nat]
  /\ upto \in [Threads -> Nat]
  /\ ended \in BOOLEAN

TypeOK == LogTypeOK /\ SubTypeOK /\ ThreadTypeOK

Delivered(s, i) == \E k \in 1 .. Len(sent[s]) : sent[s][k] = i
InFlight(s, i)  == \E t \in Threads : /\ pc[t] = "notify"
                                      /\ target[t] = s
                                      /\ i \in batch[t]

\* The cursor never runs past an event: whatever line lies between the start
\* a client asked for and its cursor is wreckage, or was written to it, or is
\* in the hands of a thread that writes it.  It stays true when both threads
\* drain at once, when the log is read in the middle of a write, and when a
\* line is torn and repaired.
NothingSkipped ==
  \A s \in Ids : \A i \in first[s] .. cursor[s] - 1 :
    i \in bad \/ Delivered(s, i) \/ InFlight(s, i)

\* What a client has been sent is what the log holds at that index for good,
\* if every append got the lock.
DeliveredIsLogged ==
  ~raced => \A s \in Ids : \A k \in 1 .. Len(sent[s]) : Readable(sent[s][k])

Alone(s) == \A r \in Ids \ {s} : subs[r] = "new"

Increasing(q) == \A k \in 1 .. Len(q) - 1 : q[k] < q[k + 1]

\* docs/runtime-protocol-v0.md: notifications are ordered, and follow the
\* response.  A connection's first subscription gets both, as long as no
\* other is made.
FirstInOrder ==
  \A s \in Ids : Alone(s) => Increasing(sent[s]) /\ (sent[s] # <<>> => s \in told)

\* test_runtime_events.py: every index exactly once, ascending.
OnceInOrder == \A s \in Ids : Increasing(sent[s])

\* A subscription is live and the log holds an event it asked for: the client
\* is sent it, unless it unsubscribes or hangs up.
EveryoneIsServed ==
  \A s \in Ids, i \in 0 .. MaxLines :
    s \in Live /\ first[s] <= i /\ i \in landed \ bad ~>
      Delivered(s, i) \/ s \notin Live \/ ended
=============================================================================
