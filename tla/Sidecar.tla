------------------------------ MODULE Sidecar -------------------------------
(***************************************************************************)
(* The desktop shell's supervisor of the runtime process: sidecar.rs and   *)
(* the commands of main.rs that drive it, over the server of RpcServer.    *)
(*                                                                         *)
(* runtime_start, runtime_call and runtime_stop hold the manager's mutex   *)
(* from beginning to end, so one of them is under way at a time; pc says   *)
(* where it stands.  Beside it run, for each child process, a thread that  *)
(* reads its answers and one that polls whether it is alive, and any       *)
(* number of runtime_cancel commands, which take other locks.              *)
(*                                                                         *)
(* All of it on Windows, where the product runs: elsewhere process_alive   *)
(* says TRUE and nobody watches.  Only plan/apply carries a tag, and one   *)
(* tag stands for all.                                                     *)
(*                                                                         *)
(* Bounds: MaxSpawns processes; MaxCalls calls, handshakes included; one   *)
(* cancel command for each call.                                           *)
(***************************************************************************)
EXTENDS RpcServer

CONSTANTS MaxCalls, None

ASSUME CallsAssumption == MaxCalls \in Nat
ASSUME NoneAssumption == None \notin Nat

VARIABLES
  pc,        \* what the command that holds the mutex does next
  starting,  \* that command is runtime_start
  call,      \* the call it makes: [id, method, child]
  calls,     \* how many calls were made
  lastId,    \* next_id
  spawned,   \* how many processes were
  reply,     \* the answer put into the call's channel
  ended,     \* how its call ended, and which request was answered
  input,     \* the child whose stdin is open for writing
  status,    \* what the shell shows: [running, initialized, pid]
  pending,   \* identifiers of the calls with a waiter in the table
  tagged,    \* the identifier that carries the tag
  reader,    \* the answer each reader thread has taken the waiter of
  watcher,   \* where each watching thread stands
  cancels,   \* runtime_cancel commands: identifiers looked up, not yet written
  asked,     \* the user asked to cancel that call while it was under way
  greeting   \* what the shell saw of the handshake with the child in use

callVars == <<starting, call, calls, lastId, reply, ended>>
tableVars == <<input, status, pending, tagged>>
threadVars == <<reader, watcher>>
cancelVars == <<cancels, asked>>
shellVars == <<pc, callVars, spawned, tableVars, threadVars, cancelVars,
              greeting>>
vars == <<serverVars, shellVars>>

NoCall == [id |-> None, method |-> "none", child |-> None]
Down == [running |-> FALSE, initialized |-> FALSE, pid |-> None]

Init ==
  /\ ServerInit
  /\ pc = "free" /\ starting = FALSE /\ call = NoCall
  /\ calls = 0 /\ lastId = 0 /\ spawned = 0
  /\ reply = None /\ ended = None
  /\ input = None /\ status = Down /\ pending = {} /\ tagged = None
  /\ reader = [c \in Children |-> None]
  /\ watcher = [c \in Children |-> "none"]
  /\ cancels = {} /\ asked = FALSE /\ greeting = "none"

(***************************************************************************)
(* shutdown, which runtime_stop is and runtime_start begins with.          *)
(***************************************************************************)
CloseStdin(start) ==
  /\ pc = "free"
  /\ pc' = "reap" /\ starting' = start /\ input' = None
  /\ ended' = None /\ asked' = FALSE
  /\ UNCHANGED <<serverVars, call, calls, lastId, reply, spawned, status,
                 pending, tagged, threadVars, cancels, greeting>>

\* The child has ended on its own, or is killed.
Reap ==
  /\ pc = "reap"
  /\ IF spawned # 0 /\ Alive(spawned) THEN Die(spawned)
     ELSE UNCHANGED serverVars
  /\ pending' = {} /\ tagged' = None /\ status' = Down
  /\ pc' = IF starting THEN "spawn" ELSE "free"
  /\ UNCHANGED <<callVars, spawned, input, threadVars, cancelVars, greeting>>

(***************************************************************************)
(* spawn and watch_exit, in runtime_start, which keeps the mutex for the   *)
(* handshake that follows.                                                 *)
(***************************************************************************)
IdAfterSpawn_Reset == 0
IdAfterSpawn == lastId
AfterSpawn_Released == "free"
AfterSpawn == "check"

Spawn ==
  LET c == spawned + 1
  IN  /\ pc = "spawn" /\ c \in Children /\ calls < MaxCalls
      /\ spawned' = c
      /\ life' = [life EXCEPT ![c] = "alive"]
      /\ input' = c
      /\ status' = [running |-> TRUE, initialized |-> FALSE, pid |-> c]
      /\ watcher' = [watcher EXCEPT ![c] = "watch"]
      /\ call' = [NoCall EXCEPT !.method = "initialize"]
      /\ lastId' = IdAfterSpawn
      /\ greeting' = "none"
      /\ pc' = AfterSpawn
      /\ UNCHANGED <<stdin, inbox, cancelled, seen, initialized, serving,
                     stdout, starting, calls, reply, ended, pending, tagged,
                     reader, cancelVars>>

SpawnFails ==
  /\ pc = "spawn" /\ pc' = "free"
  /\ UNCHANGED <<serverVars, callVars, spawned, tableVars, threadVars,
                 cancelVars, greeting>>

(***************************************************************************)
(* call_tagged                                                             *)
(***************************************************************************)
BeginCall(method) ==
  /\ pc = "free" /\ calls < MaxCalls
  /\ pc' = "check" /\ starting' = FALSE
  /\ call' = [NoCall EXCEPT !.method = method]
  /\ ended' = None /\ asked' = FALSE
  /\ UNCHANGED <<serverVars, calls, lastId, reply, spawned, tableVars,
                 threadVars, cancels, greeting>>

Refused ==
  /\ pc = "check" /\ ~status.running
  /\ pc' = "free"
  /\ UNCHANGED <<serverVars, callVars, spawned, tableVars, threadVars,
                 cancelVars, greeting>>

CheckRunning ==
  /\ pc = "check" /\ status.running
  /\ pc' = "register"
  /\ UNCHANGED <<serverVars, callVars, spawned, tableVars, threadVars,
                 cancelVars, greeting>>

Register ==
  /\ pc = "register"
  /\ calls' = calls + 1
  /\ lastId' = lastId + 1
  /\ call' = [call EXCEPT !.id = lastId']
  /\ pending' = pending \cup {lastId'}
  /\ tagged' = IF call.method = "plan/apply" THEN lastId' ELSE tagged
  /\ pc' = "write"
  /\ UNCHANGED <<serverVars, starting, reply, ended, spawned, input, status,
                 threadVars, cancelVars, greeting>>

Write ==
  /\ pc = "write" /\ input # None /\ Alive(input)
  /\ Feed(input, Request(call.id, calls, call.method))
  /\ call' = [call EXCEPT !.child = input]
  /\ pc' = "wait"
  /\ UNCHANGED <<life, inbox, cancelled, seen, initialized, serving, stdout,
                 starting, calls, lastId, reply, ended, spawned, tableVars,
                 threadVars, cancelVars, greeting>>

\* How a call ends: its waiter and its tag go, runtime_start notes that the
\* handshake was accepted, and the mutex is dropped.
End(what, answered) ==
  /\ ended' = [what |-> what, answered |-> answered]
  /\ greeting' = IF ~starting THEN greeting
                 ELSE IF what = "result" THEN "accepted" ELSE "failed"
  /\ pending' = pending \ {call.id}
  /\ tagged' = IF tagged = call.id THEN None ELSE tagged
  /\ status' = [status EXCEPT !.initialized =
                    @ \/ (starting /\ what = "result")]
  /\ pc' = "free" /\ starting' = FALSE /\ call' = NoCall /\ reply' = None
  /\ UNCHANGED <<calls, lastId, spawned, input, cancelVars>>

\* The pipe of a process that is gone cannot be written to.
WriteFails ==
  /\ pc = "write" /\ (input = None \/ ~Alive(input))
  /\ End("sidecar_down", None)
  /\ UNCHANGED <<serverVars, threadVars>>

Receive ==
  /\ pc = "wait" /\ reply # None
  /\ End(reply.what, reply.call)
  /\ UNCHANGED <<serverVars, threadVars>>

GiveUp == End(IF status.running THEN "timeout" ELSE "sidecar_down", None)

Timeout ==
  /\ pc = "wait" /\ reply = None
  /\ GiveUp
  /\ UNCHANGED <<serverVars, threadVars>>

\* The waiter was dropped from the table, and with it the channel's sender.
Abandoned ==
  /\ call.id \notin pending
  /\ \A c \in Children : reader[c] # None => reader[c].id # call.id
Disconnected ==
  /\ pc = "wait" /\ reply = None /\ Abandoned
  /\ GiveUp
  /\ UNCHANGED <<serverVars, threadVars>>

(***************************************************************************)
(* The thread that reads a child's stdout.  It takes the waiter out of the *)
(* table, and then sends; an answer nobody waits for is only activity.     *)
(***************************************************************************)
TakeWaiter(c) ==
  /\ reader[c] = None /\ stdout[c] # <<>>
  /\ LET answer == Head(stdout[c])
     IN  IF answer.id \in pending
         THEN /\ pending' = pending \ {answer.id}
              /\ reader' = [reader EXCEPT ![c] = answer]
         ELSE UNCHANGED <<pending, reader>>
  /\ stdout' = [stdout EXCEPT ![c] = Tail(@)]
  /\ UNCHANGED <<life, stdin, inbox, cancelled, seen, initialized, serving, pc,
                 callVars, spawned, input, status, tagged, watcher, cancelVars,
                 greeting>>

\* The channel may have been dropped meanwhile.
Send(c) ==
  /\ reader[c] # None
  /\ reply' = IF pc = "wait" /\ reader[c].id = call.id THEN reader[c]
              ELSE reply
  /\ reader' = [reader EXCEPT ![c] = None]
  /\ UNCHANGED <<serverVars, pc, starting, call, calls, lastId, ended, spawned,
                 tableVars, watcher, cancelVars, greeting>>

(***************************************************************************)
(* The thread that watches a child: it stops when the child is no longer   *)
(* the one the status names; when the child has ended it says so and drops *)
(* every waiter, in two steps.                                             *)
(***************************************************************************)
WatchStale(c) ==
  /\ watcher[c] = "watch" /\ status.pid # c
  /\ watcher' = [watcher EXCEPT ![c] = "gone"]
  /\ UNCHANGED <<serverVars, pc, callVars, spawned, tableVars, reader,
                 cancelVars, greeting>>

NoticeExit(c) ==
  /\ watcher[c] = "watch" /\ ~Alive(c) /\ status.pid = c
  /\ status' = [status EXCEPT !.running = FALSE, !.initialized = FALSE]
  /\ watcher' = [watcher EXCEPT ![c] = "clear"]
  /\ UNCHANGED <<serverVars, pc, callVars, spawned, input, pending, tagged,
                 reader, cancelVars, greeting>>

LeftWaiting_All == pending
LeftWaiting == {}
DropWaiters(c) ==
  /\ watcher[c] = "clear"
  /\ pending' = LeftWaiting
  /\ watcher' = [watcher EXCEPT ![c] = "gone"]
  /\ UNCHANGED <<serverVars, pc, callVars, spawned, input, status, tagged,
                 reader, cancelVars, greeting>>

(***************************************************************************)
(* runtime_cancel: the identifier is looked up under one lock and written  *)
(* to whatever stdin is open under another.                                *)
(***************************************************************************)
LookUp ==
  /\ tagged # None /\ ~asked
  /\ cancels' = cancels \cup {tagged}
  /\ asked' = TRUE
  /\ UNCHANGED <<serverVars, pc, callVars, spawned, tableVars, threadVars,
                 greeting>>

WriteCancel(i) ==
  /\ i \in cancels
  /\ cancels' = cancels \ {i}
  /\ IF input # None /\ Alive(input) THEN Feed(input, CancelOf(i))
     ELSE UNCHANGED stdin
  /\ UNCHANGED <<life, inbox, cancelled, seen, initialized, serving, stdout,
                 pc, callVars, spawned, tableVars, threadVars, asked,
                 greeting>>

-----------------------------------------------------------------------------
Shell ==
  \/ \E start \in BOOLEAN : CloseStdin(start)
  \/ \E method \in {"plan/apply", "other"} : BeginCall(method)
  \/ Reap \/ Spawn \/ SpawnFails
  \/ Refused \/ CheckRunning \/ Register \/ Write \/ WriteFails
  \/ Receive \/ Timeout \/ Disconnected
Reader(c) == TakeWaiter(c) \/ Send(c)
Watcher(c) == WatchStale(c) \/ NoticeExit(c) \/ DropWaiters(c)

Next ==
  \/ Shell
  \/ \E c \in Children : Reader(c) \/ Watcher(c)
  \/ LookUp \/ \E i \in cancels : WriteCancel(i)
  \/ \E c \in Children : (ServerStep(c) \/ Die(c)) /\ UNCHANGED shellVars

Spec == Init /\ [][Next]_vars

\* The operating system runs every thread; nothing is asked of the clock, the
\* user or the server.
ThreadsRun ==
  /\ WF_vars(Receive) /\ WF_vars(Disconnected)
  /\ \A c \in Children : WF_vars(Reader(c)) /\ WF_vars(Watcher(c))
FairSpec == Spec /\ ThreadsRun

-----------------------------------------------------------------------------
Methods == {"none", "initialize", "plan/apply", "other"}
Served == {"duplicate_request_id", "cancelled", "not_initialized", "result",
           "error"}
Answers == [id : Nat, call : Nat, what : Served]
Frames == [kind : {"request"}, id : Nat, call : Nat, method : Methods]
            \cup [kind : {"cancel"}, id : Nat]
Requests == [kind : {"request"}, id : Nat, call : Nat, method : Methods]

TypeOK ==
  /\ life \in [Children -> {"unborn", "alive", "dead"}]
  /\ stdin \in [Children -> Seq(Frames)]
  /\ inbox \in [Children -> Seq(Requests)]
  /\ cancelled \in [Children -> SUBSET Nat]
  /\ seen \in [Children -> SUBSET Nat]
  /\ initialized \in [Children -> BOOLEAN]
  /\ serving \in [Children -> Requests \cup {Nothing}]
  /\ stdout \in [Children -> Seq(Answers)]
  /\ pc \in {"free", "reap", "spawn", "check", "register", "write", "wait"}
  /\ starting \in BOOLEAN
  /\ call \in [id : Nat \cup {None}, method : Methods,
               child : Children \cup {None}]
  /\ calls \in Nat /\ calls <= MaxCalls /\ lastId \in Nat
  /\ spawned \in {0} \cup Children
  /\ reply \in Answers \cup {None}
  /\ ended \in {None} \cup [what : Served \cup {"timeout", "sidecar_down"},
                           answered : Nat \cup {None}]
  /\ input \in Children \cup {None}
  /\ status \in [running : BOOLEAN, initialized : BOOLEAN,
                 pid : Children \cup {None}]
  /\ pending \subseteq Nat /\ tagged \in Nat \cup {None}
  /\ reader \in [Children -> Answers \cup {None}]
  /\ watcher \in [Children -> {"none", "watch", "clear", "gone"}]
  /\ cancels \subseteq Nat /\ asked \in BOOLEAN 
  /\ greeting \in {"none", "accepted", "failed"}

\* The answer a call returns is the one the server gave to that very request,
\* whatever was restarted, timed out or dropped in between: an answer that
\* comes late, also from a process that was replaced, is nobody else's.
AnswerIsOwn == ended # None => ended.answered \in {calls, None}

\* A call ends as cancelled only if the user asked to cancel that call while
\* it was under way, however late a cancel frame is written and whichever
\* process gets it.
CancelledWasAsked == ended # None /\ ended.what = "cancelled" => asked

\* No call is refused for want of a handshake, unless the shell made one with
\* that process and was told, or had to assume, that it failed.
HandshakeFirst ==
  ended # None /\ ended.what = "not_initialized" => greeting = "failed"

\* A call to a process that has ended comes back without waiting for its
\* timeout (the comment at sidecar.rs:483).
EndsWithChild ==
  \A n \in 1 .. MaxCalls :
    (calls = n /\ pc = "wait" /\ ~Alive(call.child))
      ~> ~(calls = n /\ pc = "wait")

\* A waiter is dropped from under a call only when the call's process has
\* ended (the comment at sidecar.rs:472).
DroppedWithChild ==
  [][ pc = "wait" /\ pc' = "wait" /\ Alive(call.child) /\ Abandoned'
        => Abandoned \/ reply' # None ]_vars
=============================================================================
