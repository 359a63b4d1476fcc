--------------------------- MODULE SidecarProofs ---------------------------
(***************************************************************************)
(* Proofs about Sidecar, for any number of processes and calls.            *)
(*                                                                         *)
(* An identifier is the number of its call: next_id is never reset.  Hence *)
(* every request and answer anywhere in a pipe, a queue or a thread bears  *)
(* the number of the call that sent it (Data), and a cancel frame that is  *)
(* still about names either an earlier call or, once the user has asked,   *)
(* the present one (Cancellable).                                          *)
(*                                                                         *)
(* The handshake comes first: an accepted one means that the process which *)
(* all calls go to has accepted it, or is dead (Greeted), and any other    *)
(* request of a process without one is of a call that is over (Handshake,  *)
(* Asked); so a refusal on its way to a call proves that the shell's own   *)
(* handshake has failed (Given).                                           *)
(*                                                                         *)
(* Two more follow from where calls and requests stand.  The process a     *)
(* call waits for has a thread that watches it, and that thread is not     *)
(* turned away before it has cleared the table (Watched).  Along a         *)
(* process's input, queue and output the identifiers rise (Lined), so that *)
(* answers come in order and no request is taken for one seen before.      *)
(***************************************************************************)
EXTENDS Sidecar, TLAPS, SequenceTheorems

\* The call of number calls is under way, or has just ended.
Under == pc \in {"write", "wait"} \/ ended # None
Cancellable == {i \in Nat : i <= calls /\ (i = calls /\ Under => asked)}

OwnRequests == {r \in Requests : r.call = r.id}
FineFrames == OwnRequests \cup [kind : {"cancel"}, id : Cancellable]
FineAnswers ==
  {a \in Answers : /\ a.call = a.id
                   /\ a.what = "cancelled" => a.id \in Cancellable}

Data ==
  /\ stdin \in [Children -> Seq(FineFrames)]
  /\ inbox \in [Children -> Seq(OwnRequests)]
  /\ serving \in [Children -> OwnRequests \cup {Nothing}]
  /\ cancelled \in [Children -> SUBSET Cancellable]
  /\ stdout \in [Children -> Seq(FineAnswers)]
  /\ reader \in [Children -> FineAnswers \cup {None}]
  /\ reply \in FineAnswers \cup {None}
  /\ cancels \subseteq Cancellable

\* The types of the rest.
Typed ==
  /\ life \in [Children -> {"unborn", "alive", "dead"}]
  /\ seen \in [Children -> SUBSET Nat]
  /\ initialized \in [Children -> BOOLEAN]
  /\ pc \in {"free", "reap", "spawn", "check", "register", "write", "wait"}
  /\ starting \in BOOLEAN
  /\ call \in [id : Nat \cup {None}, method : Methods,
               child : Children \cup {None}]
  /\ calls \in Nat /\ calls <= MaxCalls
  /\ spawned \in {0} \cup Children
  /\ ended \in {None} \cup [what : Served \cup {"timeout", "sidecar_down"},
                           answered : Nat \cup {None}]
  /\ input \in Children \cup {None}
  /\ status \in [running : BOOLEAN, initialized : BOOLEAN,
                 pid : Children \cup {None}]
  /\ pending \subseteq Nat /\ tagged \in Nat \cup {None}
  /\ watcher \in [Children -> {"none", "watch", "clear", "gone"}]
  /\ asked \in BOOLEAN
  /\ greeting \in {"none", "accepted", "failed"}

\* Where the command that holds the mutex is.
Place ==
  /\ lastId = calls
  /\ pc # "free" => ended = None
  /\ pc \in {"check", "register"} => calls < MaxCalls
  /\ pc \in {"write", "wait"} => call.id = calls
  /\ reply # None => pc = "wait" /\ reply.id = calls
  /\ tagged # None => tagged = calls /\ pc \in {"write", "wait"}

IInv == Data /\ Typed /\ Place /\ AnswerIsOwn /\ CancelledWasAsked

-----------------------------------------------------------------------------
\* What may be cancelled may be cancelled after any step.
LEMMA StillCancellable ==
  ASSUME IInv, [Next]_vars
  PROVE  Cancellable \subseteq Cancellable'
<1> SUFFICES ASSUME NEW i \in Cancellable PROVE i \in Cancellable'
  OBVIOUS
<1> USE DEF Cancellable, Under, IInv, Typed, Place, NoCall, AfterSpawn
<1>1. CASE \E start \in BOOLEAN : CloseStdin(start)
  BY <1>1 DEF CloseStdin
<1>2. CASE \E method \in {"plan/apply", "other"} : BeginCall(method)
  BY <1>2 DEF BeginCall
<1>3. CASE Reap \/ Spawn \/ SpawnFails \/ Refused \/ CheckRunning
  BY <1>3 DEF Reap, Spawn, SpawnFails, Refused, CheckRunning, callVars,
              cancelVars
<1>4. CASE Register
  BY <1>4 DEF Register, cancelVars
<1>5. CASE Write
  BY <1>5 DEF Write, cancelVars
<1>6. CASE WriteFails \/ Receive \/ Timeout \/ Disconnected
  BY <1>6 DEF WriteFails, Receive, Timeout, Disconnected, GiveUp, End,
              cancelVars
<1>7. CASE \E c \in Children : Reader(c) \/ Watcher(c)
  BY <1>7 DEF Reader, Watcher, TakeWaiter, Send, WatchStale, NoticeExit,
              DropWaiters, callVars, cancelVars
<1>8. CASE LookUp
  BY <1>8 DEF LookUp, callVars
<1>9. CASE \E j \in cancels : WriteCancel(j)
  BY <1>9 DEF WriteCancel, callVars
<1>10. CASE UNCHANGED shellVars
  BY <1>10 DEF shellVars, callVars, cancelVars
<1>11. CASE UNCHANGED vars
  BY <1>11 DEF vars, shellVars, callVars, cancelVars
<1> QED
  BY <1>1, <1>2, <1>3, <1>4, <1>5, <1>6, <1>7, <1>8, <1>9, <1>10, <1>11
     DEF Next, Shell

LEMMA Grown ==
  ASSUME IInv, [Next]_vars
  PROVE  /\ FineFrames \subseteq FineFrames'
         /\ FineAnswers \subseteq FineAnswers'
         /\ Seq(FineFrames) \subseteq Seq(FineFrames')
         /\ Seq(FineAnswers) \subseteq Seq(FineAnswers')
         /\ OwnRequests' = OwnRequests
<1>1. Cancellable \subseteq Cancellable'
  BY StillCancellable
<1>2. FineFrames \subseteq FineFrames'
  BY <1>1 DEF FineFrames, OwnRequests, Requests
<1>3. FineAnswers \subseteq FineAnswers'
  BY <1>1 DEF FineAnswers
<1> QED
  BY <1>2, <1>3, SeqMonotonic DEF OwnRequests, Requests

LEMMA Longer ==
  ASSUME NEW S, NEW f \in [Children -> Seq(S)], NEW c \in Children, NEW e \in S
  PROVE  [f EXCEPT ![c] = Append(@, e)] \in [Children -> Seq(S)]
<1>1. Append(f[c], e) \in Seq(S)
  BY AppendProperties
<1> QED
  BY <1>1

LEMMA Shorter ==
  ASSUME NEW S, NEW f \in [Children -> Seq(S)], NEW c \in Children, f[c] # <<>>
  PROVE  /\ [f EXCEPT ![c] = Tail(@)] \in [Children -> Seq(S)]
         /\ Head(f[c]) \in S
<1>1. Tail(f[c]) \in Seq(S) /\ Head(f[c]) \in S
  BY HeadTailProperties
<1> QED
  BY <1>1

\* Data after a step, with the sets as they were before it.
Kept ==
  /\ stdin' \in [Children -> Seq(FineFrames)]
  /\ inbox' \in [Children -> Seq(OwnRequests)]
  /\ serving' \in [Children -> OwnRequests \cup {Nothing}]
  /\ cancelled' \in [Children -> SUBSET Cancellable]
  /\ stdout' \in [Children -> Seq(FineAnswers)]
  /\ reader' \in [Children -> FineAnswers \cup {None}]
  /\ reply' \in FineAnswers \cup {None}

LEMMA Answered ==
  ASSUME Data, NEW c \in Children, NEW r \in OwnRequests, NEW what \in Served,
         what = "cancelled" => r.id \in Cancellable, Respond(c, r, what)
  PROVE  stdout' \in [Children -> Seq(FineAnswers)]
<1>1. Answer(r, what) \in FineAnswers
  BY DEF Answer, FineAnswers, OwnRequests, Requests, Answers
<1> QED
  BY <1>1, Longer DEF Respond, Data

LEMMA FramesRead ==
  ASSUME Data, NEW c \in Children, ReadFrame(c)
  PROVE  /\ stdin' \in [Children -> Seq(FineFrames)]
         /\ inbox' \in [Children -> Seq(OwnRequests)]
         /\ cancelled' \in [Children -> SUBSET Cancellable]
<1> DEFINE frame == Head(stdin[c])
<1>1. stdin' \in [Children -> Seq(FineFrames)] /\ frame \in FineFrames
  BY Shorter DEF ReadFrame, Data
<1>2. CASE frame.kind = "cancel"
  <2>1. frame.id \in Cancellable
    BY <1>1, <1>2 DEF FineFrames, OwnRequests, Requests
  <2>2. /\ cancelled' = [cancelled EXCEPT ![c] = @ \cup {frame.id}]
        /\ inbox' = inbox
    BY <1>2 DEF ReadFrame
  <2> HIDE DEF frame
  <2>3. cancelled[c] \cup {frame.id} \in SUBSET Cancellable
    BY <2>1 DEF Data
  <2>4. cancelled' \in [Children -> SUBSET Cancellable]
    BY <2>2, <2>3 DEF Data
  <2> QED
    BY <1>1, <2>2, <2>4 DEF Data
<1>3. CASE frame.kind # "cancel"
  <2>1. frame \in OwnRequests
    BY <1>1, <1>3 DEF FineFrames
  <2>2. /\ inbox' = [inbox EXCEPT ![c] = Append(@, frame)]
        /\ cancelled' = cancelled
    BY <1>3 DEF ReadFrame
  <2> HIDE DEF frame
  <2>3. inbox' \in [Children -> Seq(OwnRequests)]
    BY <2>1, <2>2, Longer DEF Data
  <2> QED
    BY <1>1, <2>2, <2>3 DEF Data
<1> QED
  BY <1>2, <1>3

LEMMA Taken ==
  ASSUME Data, NEW c \in Children, Take(c)
  PROVE  /\ inbox' \in [Children -> Seq(OwnRequests)]
         /\ serving' \in [Children -> OwnRequests \cup {Nothing}]
         /\ stdout' \in [Children -> Seq(FineAnswers)]
<1> DEFINE r == Head(inbox[c])
<1>1. inbox' \in [Children -> Seq(OwnRequests)] /\ r \in OwnRequests
  BY Shorter DEF Take, Data
<1>2. CASE \E what \in Refusals(c, r) :
            Respond(c, r, what) /\ UNCHANGED serving
  <2>1. PICK what \in Refusals(c, r) : Respond(c, r, what) /\ UNCHANGED serving
    BY <1>2
  <2>2. what \in Served /\ (what = "cancelled" => r.id \in Cancellable)
    BY DEF Refusals, IsCancelled, Served, Data
  <2> QED
    BY <1>1, <2>1, <2>2, Answered DEF Data
<1>3. CASE serving' = [serving EXCEPT ![c] = r] /\ UNCHANGED stdout
  BY <1>1, <1>3 DEF Data
<1> QED
  BY <1>2, <1>3 DEF Take

LEMMA Finished ==
  ASSUME Data, NEW c \in Children,
         Checkpoint(c) \/ \E what \in {"result", "error"} : Complete(c, what)
  PROVE  /\ serving' \in [Children -> OwnRequests \cup {Nothing}]
         /\ stdout' \in [Children -> Seq(FineAnswers)]
<1>1. serving[c] \in OwnRequests
  BY DEF Data, Checkpoint, Complete
<1>2. CASE Checkpoint(c)
  <2>1. serving[c].id \in Cancellable /\ Respond(c, serving[c], "cancelled")
    BY <1>2 DEF Checkpoint, IsCancelled, Data
  <2> QED
    BY <1>1, <1>2, <2>1, Answered DEF Checkpoint, Data, Served
<1>3. CASE \E what \in {"result", "error"} : Complete(c, what)
  <2>1. PICK what \in {"result", "error"} : Complete(c, what)
    BY <1>3
  <2> QED
    BY <1>1, <2>1, Answered DEF Complete, Data, Served
<1> QED
  BY <1>2, <1>3

LEMMA ServerKeeps ==
  ASSUME Data, NEW c \in Children, ServerStep(c) \/ Die(c),
         UNCHANGED <<reader, reply>>
  PROVE  Kept
<1>1. CASE ReadFrame(c)
  BY <1>1, FramesRead DEF Kept, Data, ReadFrame
<1>2. CASE Take(c)
  BY <1>2, Taken DEF Kept, Data, Take
<1>3. CASE Checkpoint(c) \/ \E what \in {"result", "error"} : Complete(c, what)
  BY <1>3, Finished DEF Kept, Data, Checkpoint, Complete
<1>4. CASE Die(c)
  <2>1. <<>> \in Seq(FineFrames) /\ <<>> \in Seq(OwnRequests)
    BY EmptySeq
  <2> QED
    BY <1>4, <2>1 DEF Kept, Data, Die
<1> QED
  BY <1>1, <1>2, <1>3, <1>4 DEF ServerStep

LEMMA ShellKeeps ==
  ASSUME IInv, Shell
  PROVE  Kept /\ cancels' = cancels
<1> USE DEF IInv
<1>1. CASE \E start \in BOOLEAN : CloseStdin(start)
  BY <1>1 DEF CloseStdin, Kept, Data, serverVars, threadVars
<1>2. CASE \E method \in {"plan/apply", "other"} : BeginCall(method)
  BY <1>2 DEF BeginCall, Kept, Data, serverVars, threadVars
<1>3. CASE Reap
  <2>1. UNCHANGED <<reader, reply, cancels>>
    BY <1>3 DEF Reap, callVars, threadVars, cancelVars
  <2>2. CASE spawned # 0 /\ Alive(spawned)
    BY <1>3, <2>1, <2>2, ServerKeeps DEF Reap, Typed
  <2>3. CASE ~(spawned # 0 /\ Alive(spawned))
    BY <1>3, <2>1, <2>3 DEF Reap, Kept, Data, serverVars
  <2> QED
    BY <2>1, <2>2, <2>3
<1>4. CASE Spawn
  BY <1>4 DEF Spawn, Kept, Data, cancelVars
<1>5. CASE SpawnFails \/ Refused \/ CheckRunning
  BY <1>5 DEF SpawnFails, Refused, CheckRunning, Kept, Data, serverVars,
              callVars, threadVars, cancelVars
<1>6. CASE Register
  BY <1>6 DEF Register, Kept, Data, serverVars, threadVars, cancelVars
<1>7. CASE Write
  <2> DEFINE r == Request(call.id, calls, call.method)
  <2>1. r \in FineFrames
    BY <1>7 DEF Write, Request, FineFrames, OwnRequests, Requests, Typed, Place
  <2>2. /\ input \in Children
        /\ stdin' = [stdin EXCEPT ![input] = Append(@, r)]
    BY <1>7 DEF Write, Feed, Typed
  <2> HIDE DEF r
  <2>3. stdin' \in [Children -> Seq(FineFrames)]
    BY <2>1, <2>2, Longer DEF Data
  <2> QED
    BY <1>7, <2>3 DEF Write, Kept, Data, threadVars, cancelVars
<1>8. CASE WriteFails \/ Receive \/ Timeout \/ Disconnected
  BY <1>8 DEF WriteFails, Receive, Timeout, Disconnected, GiveUp, End, Kept,
              Data, serverVars, threadVars, cancelVars
<1> QED
  BY <1>1, <1>2, <1>3, <1>4, <1>5, <1>6, <1>7, <1>8 DEF Shell

LEMMA ThreadsKeep ==
  ASSUME IInv, NEW c \in Children, Reader(c) \/ Watcher(c)
  PROVE  Kept /\ cancels' = cancels
<1> USE DEF IInv
<1>1. CASE TakeWaiter(c)
  <2> DEFINE answer == Head(stdout[c])
  <2>1. stdout' \in [Children -> Seq(FineAnswers)] /\ answer \in FineAnswers
    BY <1>1, Shorter DEF TakeWaiter, Data
  <2>2. \/ reader' = [reader EXCEPT ![c] = answer]
        \/ reader' = reader
    BY <1>1 DEF TakeWaiter
  <2> HIDE DEF answer
  <2>3. reader' \in [Children -> FineAnswers \cup {None}]
    BY <2>1, <2>2 DEF Data
  <2> QED
    BY <1>1, <2>1, <2>3 DEF TakeWaiter, Kept, Data, callVars, cancelVars
<1>2. CASE Send(c)
  BY <1>2 DEF Send, Kept, Data, serverVars, cancelVars
<1>3. CASE Watcher(c)
  BY <1>3 DEF Watcher, WatchStale, NoticeExit, DropWaiters, Kept, Data,
              serverVars, callVars, cancelVars
<1> QED
  BY <1>1, <1>2, <1>3 DEF Reader

LEMMA LookedUp ==
  ASSUME IInv, LookUp
  PROVE  Kept /\ cancels' \subseteq Cancellable'
<1>1. Cancellable \subseteq Cancellable'
  BY StillCancellable DEF Next
<1>2. tagged \in Cancellable'
  BY DEF IInv, LookUp, Typed, Place, Cancellable, Under, callVars
<1> QED
  BY <1>1, <1>2 DEF IInv, LookUp, Kept, Data, serverVars, callVars, threadVars

LEMMA CancelWritten ==
  ASSUME IInv, NEW i \in cancels, WriteCancel(i)
  PROVE  Kept /\ cancels' \subseteq cancels
<1>1. CancelOf(i) \in FineFrames
  BY DEF CancelOf, FineFrames, IInv, Data
<1>2. stdin' \in [Children -> Seq(FineFrames)]
  <2>1. CASE input # None /\ Alive(input)
    <3>1. /\ input \in Children /\ stdin \in [Children -> Seq(FineFrames)]
          /\ stdin' = [stdin EXCEPT ![input] = Append(@, CancelOf(i))]
      BY <2>1 DEF WriteCancel, Feed, IInv, Data, Typed
    <3> QED
      BY <1>1, <3>1, Longer
  <2>2. CASE ~(input # None /\ Alive(input))
    <3>1. stdin' = stdin
      BY <2>2 DEF WriteCancel
    <3>2. stdin \in [Children -> Seq(FineFrames)]
      BY DEF IInv, Data
    <3> QED
      BY <3>1, <3>2
  <2> QED
    BY <2>1, <2>2
<1> QED
  BY <1>2 DEF WriteCancel, IInv, Kept, Data, callVars, threadVars

LEMMA DataStep ==
  ASSUME IInv, [Next]_vars
  PROVE  Data'
<1>1. Kept /\ cancels' \subseteq Cancellable'
  <2>1. Cancellable \subseteq Cancellable' /\ cancels \subseteq Cancellable
    BY StillCancellable DEF IInv, Data
  <2>2. CASE Shell
    BY <2>1, <2>2, ShellKeeps
  <2>3. CASE \E c \in Children : Reader(c) \/ Watcher(c)
    BY <2>1, <2>3, ThreadsKeep
  <2>4. CASE LookUp
    BY <2>4, LookedUp
  <2>5. CASE \E i \in cancels : WriteCancel(i)
    BY <2>1, <2>5, CancelWritten
  <2>6. CASE \E c \in Children :
             (ServerStep(c) \/ Die(c)) /\ UNCHANGED shellVars
    <3>1. PICK c \in Children :
            (ServerStep(c) \/ Die(c)) /\ UNCHANGED shellVars
      BY <2>6
    <3>2. UNCHANGED <<reader, reply>> /\ cancels' = cancels
      BY <3>1 DEF shellVars, callVars, threadVars, cancelVars
    <3> QED
      BY <2>1, <3>1, <3>2, ServerKeeps DEF IInv
  <2>7. CASE UNCHANGED vars
    BY <2>1, <2>7 DEF vars, serverVars, shellVars, callVars, threadVars,
                      cancelVars, Kept, Data, IInv
  <2> QED
    BY <2>2, <2>3, <2>4, <2>5, <2>6, <2>7 DEF Next
<1>2. /\ Seq(FineFrames) \subseteq Seq(FineFrames')
      /\ FineAnswers \subseteq FineAnswers'
      /\ Seq(FineAnswers) \subseteq Seq(FineAnswers')
      /\ Cancellable \subseteq Cancellable' /\ OwnRequests' = OwnRequests
  BY Grown, StillCancellable
<1> QED
  BY <1>1, <1>2 DEF Kept, Data

-----------------------------------------------------------------------------
LEMMA RestStep ==
  ASSUME IInv, [Next]_vars
  PROVE  Typed' /\ Place' /\ AnswerIsOwn' /\ CancelledWasAsked'
<1> USE DEF IInv, Typed, Place, AnswerIsOwn, CancelledWasAsked
<1>1. CASE \E start \in BOOLEAN : CloseStdin(start)
  BY <1>1 DEF CloseStdin, serverVars, threadVars
<1>2. CASE \E method \in {"plan/apply", "other"} : BeginCall(method)
  <2>1. PICK method \in {"plan/apply", "other"} : BeginCall(method)
    BY <1>2
  <2>2. call' \in [id : Nat \cup {None}, method : Methods,
                   child : Children \cup {None}]
    BY <2>1 DEF BeginCall, NoCall, Methods
  <2>3. pc' = "check" /\ starting' = FALSE /\ ended' = None /\ asked' = FALSE
    BY <2>1 DEF BeginCall
  <2>4. pc = "free" /\ calls < MaxCalls
    BY <2>1 DEF BeginCall
  <2>5. UNCHANGED <<serverVars, calls, lastId, reply, spawned, tableVars,
                    threadVars, cancels, greeting>>
    BY <2>1 DEF BeginCall
  <2> QED
    BY <2>2, <2>3, <2>4, <2>5 DEF serverVars, tableVars, threadVars
<1>3. CASE Reap
  BY <1>3 DEF Reap, Die, Down, serverVars, callVars, threadVars, cancelVars
<1>4. CASE Spawn
  BY <1>4 DEF Spawn, NoCall, Methods, AfterSpawn, IdAfterSpawn, cancelVars
<1>5. CASE SpawnFails \/ Refused \/ CheckRunning
  BY <1>5 DEF SpawnFails, Refused, CheckRunning, serverVars, callVars,
              tableVars, threadVars, cancelVars
<1>6. CASE Register
  BY <1>6, CallsAssumption DEF Register, serverVars, threadVars, cancelVars
<1>7. CASE Write
  BY <1>7 DEF Write, tableVars, threadVars, cancelVars
<1>8. CASE WriteFails \/ Receive \/ Timeout \/ Disconnected
  <2>1. PICK what \in Served \cup {"timeout", "sidecar_down"},
             answered \in {calls, None} :
          /\ End(what, answered)
          /\ what = "cancelled" => asked
    <3>1. CASE WriteFails
      BY <3>1 DEF WriteFails, Served
    <3>2. CASE Receive
      <4>1. /\ reply \in FineAnswers /\ pc = "wait" /\ reply.id = calls
            /\ End(reply.what, reply.call)
        BY <3>2 DEF Receive, Data
      <4>2. /\ reply.what \in Served /\ reply.call = calls
            /\ reply.what = "cancelled" => asked
        BY <4>1 DEF FineAnswers, Answers, Cancellable, Under
      <4> QED
        BY <4>1, <4>2
    <3>3. CASE Timeout \/ Disconnected
      BY <3>3 DEF Timeout, Disconnected, GiveUp, Served
    <3> QED
      BY <1>8, <3>1, <3>2, <3>3
  <2>2. UNCHANGED <<serverVars, threadVars>> /\ pc \in {"write", "wait"}
    BY <1>8 DEF WriteFails, Receive, Timeout, Disconnected
  <2>3. /\ ended' = [what |-> what, answered |-> answered]
        /\ ended' \in [what : Served \cup {"timeout", "sidecar_down"},
                       answered : Nat \cup {None}]
    BY <2>1 DEF End
  <2>4. Typed'
    BY <2>1, <2>2, <2>3 DEF End, NoCall, Methods, serverVars, threadVars,
                            cancelVars
  <2>5. Place'
    BY <2>1, <2>2 DEF End
  <2> QED
    BY <2>1, <2>3, <2>4, <2>5 DEF End, cancelVars
<1>9. CASE \E c \in Children : Reader(c) \/ Watcher(c)
  <2>1. PICK c \in Children : Reader(c) \/ Watcher(c)
    BY <1>9
  <2>2. CASE TakeWaiter(c)
    <3>1. pending' \subseteq pending
      BY <2>2 DEF TakeWaiter
    <3>2. UNCHANGED <<life, seen, initialized, pc, callVars, spawned, input,
                      status, tagged, watcher, cancelVars, greeting>>
      BY <2>2 DEF TakeWaiter
    <3> QED
      BY <3>1, <3>2 DEF callVars, cancelVars
  <2>3. CASE Send(c)
    BY <2>3 DEF Send, serverVars, tableVars, cancelVars
  <2>4. CASE WatchStale(c)
    BY <2>4 DEF WatchStale, serverVars, callVars, tableVars, cancelVars
  <2>5. CASE NoticeExit(c)
    <3>1. /\ status' \in [running : BOOLEAN, initialized : BOOLEAN,
                          pid : Children \cup {None}]
          /\ watcher' \in [Children -> {"none", "watch", "clear", "gone"}]
      BY <2>5 DEF NoticeExit
    <3>2. UNCHANGED <<serverVars, pc, callVars, spawned, input, pending,
                      tagged, reader, cancelVars, greeting>>
      BY <2>5 DEF NoticeExit
    <3> QED
      BY <3>1, <3>2 DEF serverVars, callVars, cancelVars
  <2>6. CASE DropWaiters(c)
    BY <2>6 DEF DropWaiters, LeftWaiting, serverVars, callVars, cancelVars
  <2> QED
    BY <2>1, <2>2, <2>3, <2>4, <2>5, <2>6 DEF Reader, Watcher
<1>10. CASE LookUp
  BY <1>10 DEF LookUp, serverVars, callVars, tableVars, threadVars
<1>11. CASE \E i \in cancels : WriteCancel(i)
  BY <1>11 DEF WriteCancel, callVars, tableVars, threadVars
<1>12. CASE \E c \in Children :
             (ServerStep(c) \/ Die(c)) /\ UNCHANGED shellVars
  <2>1. PICK c \in Children :
            (ServerStep(c) \/ Die(c)) /\ UNCHANGED shellVars
    BY <1>12
  <2>2. UNCHANGED shellVars
    BY <2>1
  <2>3. seen' \in [Children -> SUBSET Nat]
    <3>1. CASE Take(c)
      <4>1. inbox \in [Children -> Seq(OwnRequests)] /\ inbox[c] # <<>>
        BY <3>1 DEF Take, Data
      <4>2. Head(inbox[c]) \in OwnRequests
        BY <4>1, Shorter
      <4>3. Head(inbox[c]).id \in Nat
        BY <4>2 DEF OwnRequests, Requests
      <4> QED
        BY <3>1, <4>3 DEF Take
    <3>2. CASE ~Take(c)
      BY <2>1, <3>2 DEF ServerStep, ReadFrame, Complete, Checkpoint, Die
    <3> QED
      BY <3>1, <3>2
  <2>4. /\ life' \in [Children -> {"unborn", "alive", "dead"}]
        /\ initialized' \in [Children -> BOOLEAN]
    BY <2>1 DEF ServerStep, ReadFrame, Take, Complete, Checkpoint, Die
  <2> QED
    BY <2>2, <2>3, <2>4 DEF shellVars, callVars, tableVars, threadVars,
                            cancelVars
<1>13. CASE UNCHANGED vars
  BY <1>13 DEF vars, serverVars, shellVars, callVars, tableVars, threadVars,
               cancelVars
<1> QED
  BY <1>1, <1>2, <1>3, <1>4, <1>5, <1>6, <1>7, <1>8, <1>9, <1>10, <1>11,
     <1>12, <1>13 DEF Next, Shell

LEMMA InitInvariant == Init => IInv
<1> SUFFICES ASSUME Init PROVE IInv
  OBVIOUS
<1>1. /\ <<>> \in Seq(FineFrames) /\ <<>> \in Seq(OwnRequests)
      /\ <<>> \in Seq(FineAnswers)
  BY EmptySeq
<1>2. Data
  BY <1>1 DEF Init, ServerInit, Data
<1>3. Place /\ AnswerIsOwn /\ CancelledWasAsked
  BY DEF Init, Place, AnswerIsOwn, CancelledWasAsked
<1>4. Typed
  <2>1. status \in [running : BOOLEAN, initialized : BOOLEAN,
                    pid : Children \cup {None}]
    BY DEF Init, Down
  <2>2. call \in [id : Nat \cup {None}, method : Methods,
                  child : Children \cup {None}]
    BY DEF Init, NoCall, Methods
  <2>3. /\ life \in [Children -> {"unborn", "alive", "dead"}]
        /\ seen \in [Children -> SUBSET Nat]
        /\ initialized \in [Children -> BOOLEAN]
        /\ watcher \in [Children -> {"none", "watch", "clear", "gone"}]
    BY DEF Init, ServerInit
  <2>4. calls \in Nat /\ calls <= MaxCalls
    BY CallsAssumption DEF Init
  <2>5. /\ spawned \in {0} \cup Children /\ input \in Children \cup {None}
        /\ pending \subseteq Nat /\ tagged \in Nat \cup {None}
        /\ starting \in BOOLEAN /\ asked \in BOOLEAN
    BY DEF Init
  <2>6. /\ pc = "free" /\ ended = None /\ greeting = "none"
    BY DEF Init
  <2> QED
    BY <2>1, <2>2, <2>3, <2>4, <2>5, <2>6 DEF Typed
<1> QED
  BY <1>2, <1>3, <1>4 DEF IInv

LEMMA InvariantTypes == IInv => TypeOK
<1> SUFFICES ASSUME IInv PROVE TypeOK
  OBVIOUS
<1>1. /\ FineFrames \subseteq Frames /\ OwnRequests \subseteq Requests
      /\ FineAnswers \subseteq Answers /\ Cancellable \subseteq Nat
  BY DEF FineFrames, Frames, OwnRequests, Requests, FineAnswers, Cancellable
<1>2. /\ Seq(FineFrames) \subseteq Seq(Frames)
      /\ Seq(OwnRequests) \subseteq Seq(Requests)
      /\ Seq(FineAnswers) \subseteq Seq(Answers)
  BY <1>1, SeqMonotonic
<1>3. /\ stdin \in [Children -> Seq(Frames)]
      /\ inbox \in [Children -> Seq(Requests)]
      /\ stdout \in [Children -> Seq(Answers)]
  BY <1>2 DEF IInv, Data
<1>4. /\ cancelled \in [Children -> SUBSET Nat]
      /\ serving \in [Children -> Requests \cup {Nothing}]
      /\ reader \in [Children -> Answers \cup {None}]
      /\ reply \in Answers \cup {None} /\ cancels \subseteq Nat
  BY <1>1 DEF IInv, Data
<1>5. lastId \in Nat
  BY DEF IInv, Typed, Place
<1> QED
  BY <1>3, <1>4, <1>5 DEF IInv, Typed, TypeOK

LEMMA Invariant == Spec => []IInv
<1>1. IInv /\ [Next]_vars => IInv'
  BY DataStep, RestStep DEF IInv
<1> QED
  BY <1>1, InitInvariant, PTL DEF Spec

\* Every variable of the shell and of the server processes keeps its type.
THEOREM TypeCorrect == Spec => []TypeOK
  BY Invariant, InvariantTypes, PTL

\* What a call returns is the answer to that very call, however many
\* processes were started and whatever came late (call_tagged, the reader
\* thread and the server's loop).
THEOREM AnswersAreOwn == Spec => []AnswerIsOwn
<1>1. IInv => AnswerIsOwn
  BY DEF IInv
<1> QED
  BY <1>1, Invariant, PTL

\* A call ends as cancelled only if its user asked for that (cancel_tagged,
\* the identifiers of call_tagged and the server's cancelled set).
THEOREM CancelledOnlyWhenAsked == Spec => []CancelledWasAsked
<1>1. IInv => CancelledWasAsked
  BY DEF IInv
<1> QED
  BY <1>1, Invariant, PTL
-----------------------------------------------------------------------------
(* The handshake.  A request of the present call can only be with the      *)
(* process in use (Asked), and what comes back for it depends on whether   *)
(* that process has accepted the handshake (Given): the shell thinks so    *)
(* only of a process that has, or is dead by now (Greeted).                *)

Greeted ==
  spawned \in Children /\ (initialized[spawned] \/ ~Alive(spawned))

Asked(c) ==
  {r \in OwnRequests :
     /\ r.id <= calls
     /\ pc = "write" => r.id < calls
     /\ pc = "wait" /\ r.id = calls =>
          c = call.child /\ r.method = call.method}
FramesFor(c) == Asked(c) \cup [kind : {"cancel"}, id : Nat]

Given ==
  {a \in Answers :
     /\ a.id <= calls
     /\ pc = "write" => a.id < calls
     /\ pc = "wait" /\ a.id = calls =>
          /\ a.what = "not_initialized" /\ ~starting => greeting = "failed"
          /\ a.what = "result" /\ starting => Greeted}

Traffic ==
  /\ \A c \in Children :
       /\ stdin[c] \in Seq(FramesFor(c))
       /\ inbox[c] \in Seq(Asked(c))
       /\ serving[c] \in Asked(c) \cup {Nothing}
       /\ stdout[c] \in Seq(Given)
       /\ reader[c] \in Given \cup {None}
  /\ reply \in Given \cup {None}

Calling == {"check", "register", "write", "wait"}

Handshake ==
  /\ input # None => input = spawned
  /\ pc = "wait" => call.child = spawned /\ spawned \in Children
  /\ pc = "spawn" => starting
  /\ starting /\ pc \in Calling => call.method = "initialize"
  /\ status.running /\ greeting = "none" => starting /\ pc \in Calling
  /\ pc \in {"register", "write", "wait"} /\ greeting = "none" => starting
  /\ greeting = "accepted" => Greeted
  /\ HandshakeFirst

\* An element of a queue that is read, and what is left of it.
LEMMA Read ==
  ASSUME NEW S, NEW q \in Seq(S), q # <<>>
  PROVE  Tail(q) \in Seq(S) /\ Head(q) \in S
  BY HeadTailProperties

\* A process that has been greeted, or is dead, stays so.
LEMMA StillGreeted ==
  ASSUME IInv, Handshake, [Next]_vars, Greeted, spawned' = spawned
  PROVE  Greeted'
<1> USE DEF Greeted, Alive, IInv, Typed
<1>1. CASE Reap
  BY <1>1 DEF Reap, Die, serverVars
<1>2. CASE \E c \in Children : ServerStep(c) \/ Die(c)
  BY <1>2 DEF ServerStep, ReadFrame, Take, Checkpoint, Complete, Die
<1>3. CASE UNCHANGED <<life, initialized>>
  BY <1>3
<1> QED
  BY <1>1, <1>2, <1>3
  DEF Next, Shell, CloseStdin, BeginCall, Spawn, SpawnFails, Refused,
      CheckRunning, Register, Write, WriteFails, Receive, Timeout,
      Disconnected, Reader, TakeWaiter, Send, Watcher, WatchStale, NoticeExit,
      DropWaiters, LookUp, WriteCancel, serverVars, vars

\* How the call that is under way moves.
LEMMA CallMoves ==
  ASSUME IInv, [Next]_vars
  PROVE  \/ UNCHANGED <<pc, starting, call, calls, spawned, greeting>>
         \/ /\ pc' \notin {"write", "wait"}
            /\ calls' = calls
         \/ pc = "register" /\ Register
         \/ pc = "write" /\ Write
<1>1. Shell => \/ pc' \notin {"write", "wait"} /\ calls' = calls
               \/ pc = "register" /\ Register
               \/ pc = "write" /\ Write
  BY DEF Shell, CloseStdin, BeginCall, Reap, Spawn, SpawnFails, Refused,
     CheckRunning, Register, Write, WriteFails, Receive, Timeout, Disconnected,
     GiveUp, End, AfterSpawn, callVars
<1>2. ~Shell => UNCHANGED <<pc, starting, call, calls, spawned, greeting>>
  BY DEF Next, Reader, TakeWaiter, Send, Watcher, WatchStale, NoticeExit,
     DropWaiters, LookUp, WriteCancel, shellVars, vars, callVars
<1> QED
  BY <1>1, <1>2

\* What could be about could be about after any step.
LEMMA TrafficGrows ==
  ASSUME IInv, Handshake, [Next]_vars
  PROVE  /\ \A c \in Children : /\ Asked(c) \subseteq Asked(c)'
                                /\ FramesFor(c) \subseteq FramesFor(c)'
         /\ Given \subseteq Given'
<1>0. calls \in Nat /\ calls' \in Nat
  BY RestStep DEF IInv, Typed
<1>1. ASSUME NEW c \in Children PROVE Asked(c) \subseteq Asked(c)'
  <2> SUFFICES ASSUME NEW r \in Asked(c) PROVE r \in Asked(c)'
    OBVIOUS
  <2>1. /\ r \in OwnRequests /\ r.id \in Nat /\ r.id <= calls
        /\ pc = "write" => r.id < calls
        /\ pc = "wait" /\ r.id = calls =>
             c = call.child /\ r.method = call.method
    BY DEF Asked, OwnRequests, Requests
  <2>2. /\ r.id <= calls'
        /\ pc' = "write" => r.id < calls'
        /\ pc' = "wait" /\ r.id = calls' =>
             c = call'.child /\ r.method = call'.method
    BY <1>0, <2>1, CallMoves DEF Register, Write
  <2> QED
    BY <2>1, <2>2 DEF Asked, OwnRequests, Requests
<1>2. Given \subseteq Given'
  <2> SUFFICES ASSUME NEW a \in Given PROVE a \in Given'
    OBVIOUS
  <2>1. /\ a \in Answers /\ a.id \in Nat /\ a.id <= calls
        /\ pc = "write" => a.id < calls
        /\ pc = "wait" /\ a.id = calls =>
             /\ a.what = "not_initialized" /\ ~starting => greeting = "failed"
             /\ a.what = "result" /\ starting => Greeted
    BY DEF Given, Answers
  <2>2. CASE UNCHANGED <<pc, starting, call, calls, spawned, greeting>>
    <3>1. Greeted => Greeted'
      BY <2>2, StillGreeted
    <3> QED
      BY <2>1, <2>2, <3>1 DEF Given
  <2>3. CASE ~UNCHANGED <<pc, starting, call, calls, spawned, greeting>>
    <3>1. /\ a.id <= calls'
          /\ pc' \in {"write", "wait"} => a.id < calls'
      BY <1>0, <2>1, <2>3, CallMoves DEF Register, Write
    <3> QED
      BY <1>0, <2>1, <3>1 DEF Given
  <2> QED
    BY <2>2, <2>3
<1> QED
  BY <1>1, <1>2 DEF FramesFor

\* Traffic after a step in which nothing is written that was not about.
LEMMA SameTraffic ==
  ASSUME IInv, Handshake, Traffic, [Next]_vars
  PROVE  /\ \A c \in Children :
              /\ stdin[c] \in Seq(FramesFor(c)') /\ inbox[c] \in Seq(Asked(c)')
              /\ serving[c] \in Asked(c)' \cup {Nothing}
              /\ stdout[c] \in Seq(Given')
              /\ reader[c] \in Given' \cup {None}
              /\ <<>> \in Seq(FramesFor(c)') /\ <<>> \in Seq(Asked(c)')
         /\ reply \in Given' \cup {None}
<1>1. ASSUME NEW c \in Children
      PROVE  /\ Seq(FramesFor(c)) \subseteq Seq(FramesFor(c)')
             /\ Seq(Asked(c)) \subseteq Seq(Asked(c)')
             /\ Seq(Given) \subseteq Seq(Given')
  BY TrafficGrows, SeqMonotonic
<1> QED
  BY <1>1, TrafficGrows, EmptySeq DEF Traffic

\* An answer to a request that is about may be given.
LEMMA AnswerGiven ==
  ASSUME IInv, Handshake, NEW c \in Children, NEW r \in Asked(c),
         NEW what \in Served, Alive(c),
         what = "not_initialized" => ~initialized[c],
         what = "result" /\ r.method = "initialize" => initialized'[c],
         UNCHANGED <<pc, starting, calls, spawned, greeting>>
  PROVE  Answer(r, what) \in Given'
<1> DEFINE a == Answer(r, what)
<1>1. /\ a \in Answers /\ a.id = r.id /\ a.what = what
      /\ r.id <= calls /\ (pc = "write" => r.id < calls)
      /\ pc = "wait" /\ r.id = calls => c = call.child /\ r.method = call.method
  BY DEF Answer, Answers, Asked, OwnRequests, Requests
<1> HIDE DEF a
<1>2. ASSUME pc = "wait", r.id = calls, what = "not_initialized", ~starting
      PROVE  greeting = "failed"
  <2>1. c = spawned /\ ~initialized[c]
    BY <1>1, <1>2 DEF Handshake
  <2>2. greeting # "accepted" /\ greeting # "none"
    BY <1>2, <2>1 DEF Handshake, Greeted
  <2> QED
    BY <2>2 DEF IInv, Typed
<1>3. ASSUME pc = "wait", r.id = calls, what = "result", starting
      PROVE  Greeted'
  <2>1. c = spawned /\ r.method = "initialize"
    BY <1>1, <1>3 DEF Handshake, Calling
  <2> QED
    BY <1>3, <2>1 DEF Greeted
<1>4. a \in Given'
  BY <1>1, <1>2, <1>3 DEF Given
<1> QED
  BY <1>4 DEF a

LEMMA ServerTraffic ==
  ASSUME IInv, Handshake, Traffic, NEW c \in Children,
         ServerStep(c) \/ Die(c), UNCHANGED shellVars
  PROVE  Traffic'
<1> USE DEF IInv
<1>0. [Next]_vars
  BY DEF Next
<1>1. \A d \in Children :
        /\ stdin[d] \in Seq(FramesFor(d)') /\ inbox[d] \in Seq(Asked(d)')
        /\ serving[d] \in Asked(d)' \cup {Nothing}
        /\ stdout[d] \in Seq(Given')
        /\ reader'[d] \in Given' \cup {None}
        /\ <<>> \in Seq(FramesFor(d)') /\ <<>> \in Seq(Asked(d)')
  BY <1>0, SameTraffic DEF shellVars, threadVars
<1>2. reply' \in Given' \cup {None}
  BY <1>0, SameTraffic DEF shellVars, callVars
<1>3. UNCHANGED <<pc, starting, calls, spawned, greeting>>
  BY DEF shellVars, callVars
<1>4. ASSUME NEW r \in Asked(c), NEW what \in Served, Alive(c),
             what = "not_initialized" => ~initialized[c],
             what = "result" /\ r.method = "initialize" => initialized'[c],
             Respond(c, r, what)
      PROVE  \A d \in Children : stdout'[d] \in Seq(Given')
  <2>1. Answer(r, what) \in Given'
    BY <1>3, <1>4, AnswerGiven
  <2>2. stdout[c] \in Seq(Given')
    BY <1>1
  <2>3. Append(stdout[c], Answer(r, what)) \in Seq(Given')
    BY <2>1, <2>2, AppendProperties
  <2> QED
    BY <1>1, <1>4, <2>3 DEF Respond, Data
<1>5. CASE ReadFrame(c)
  <2> DEFINE frame == Head(stdin[c])
  <2>1. stdin[c] # <<>>
    BY <1>5 DEF ReadFrame
  <2>2. Tail(stdin[c]) \in Seq(FramesFor(c)') /\ frame \in FramesFor(c)'
    BY <1>1, <2>1, Read
  <2>3. CASE frame.kind = "cancel"
    BY <1>1, <1>2, <1>5, <2>2, <2>3 DEF ReadFrame, Traffic, Data
  <2>4. CASE frame.kind # "cancel"
    <3>1. frame \in Asked(c)' /\ inbox[c] \in Seq(Asked(c)')
      BY <1>1, <2>2, <2>4 DEF FramesFor
    <3>2. Append(inbox[c], frame) \in Seq(Asked(c)')
      BY <3>1, AppendProperties
    <3> QED
      BY <1>1, <1>2, <1>5, <2>2, <2>4, <3>2 DEF ReadFrame, Traffic, Data
  <2> QED
    BY <2>3, <2>4
<1>6. CASE Take(c)
  <2> DEFINE r == Head(inbox[c])
  <2>1. inbox[c] # <<>> /\ Alive(c)
    BY <1>6 DEF Take
  <2>2. r \in Asked(c)
    BY <2>1, Read DEF Traffic
  <2>3. Tail(inbox[c]) \in Seq(Asked(c)') /\ r \in Asked(c)'
    BY <1>1, <2>1, Read
  <2>4. \A d \in Children : inbox'[d] \in Seq(Asked(d)')
    BY <1>1, <1>6, <2>3 DEF Take, Data
  <2>5. CASE \E what \in Refusals(c, r) :
               Respond(c, r, what) /\ UNCHANGED serving
    <3>1. PICK what \in Refusals(c, r) :
            Respond(c, r, what) /\ UNCHANGED serving
      BY <2>5
    <3>2. /\ what \in Served /\ what # "result"
          /\ what = "not_initialized" => ~initialized[c]
      BY DEF Refusals, Served
    <3>3. \A d \in Children : stdout'[d] \in Seq(Given')
      BY <1>4, <2>1, <2>2, <3>1, <3>2
    <3> QED
      BY <1>1, <1>2, <1>6, <2>4, <3>1, <3>3 DEF Take, Traffic
  <2>6. CASE serving' = [serving EXCEPT ![c] = r] /\ UNCHANGED stdout
    <3>1. \A d \in Children : serving'[d] \in Asked(d)' \cup {Nothing}
      BY <1>1, <2>3, <2>6 DEF Data
    <3> QED
      BY <1>1, <1>2, <1>6, <2>4, <2>6, <3>1 DEF Take, Traffic
  <2> QED
    BY <1>6, <2>5, <2>6 DEF Take
<1>7. CASE Checkpoint(c) \/ \E what \in {"result", "error"} : Complete(c, what)
  <2>1. serving[c] \in Asked(c) /\ Alive(c)
    BY <1>7 DEF Checkpoint, Complete, Traffic
  <2>2. \A d \in Children : serving'[d] \in Asked(d)' \cup {Nothing}
    BY <1>1, <1>7 DEF Checkpoint, Complete, Data
  <2>3. PICK what \in {"cancelled", "result", "error"} :
          /\ Respond(c, serving[c], what)
          /\ what = "result" /\ serving[c].method = "initialize"
               => initialized'[c]
    BY <1>7 DEF Checkpoint, Complete, Typed
  <2>4. what \in Served /\ what # "not_initialized"
    BY <2>3 DEF Served
  <2>5. \A d \in Children : stdout'[d] \in Seq(Given')
    BY <1>4, <2>1, <2>3, <2>4
  <2> QED
    BY <1>1, <1>2, <1>7, <2>2, <2>5 DEF Checkpoint, Complete, Traffic
<1>8. CASE Die(c)
  BY <1>1, <1>2, <1>8 DEF Die, Traffic, Data
<1> QED
  BY <1>5, <1>6, <1>7, <1>8 DEF ServerStep

LEMMA TrafficStep ==
  ASSUME IInv, Handshake, Traffic, [Next]_vars
  PROVE  Traffic'
<1>1. /\ \A c \in Children :
           /\ stdin[c] \in Seq(FramesFor(c)') /\ inbox[c] \in Seq(Asked(c)')
           /\ serving[c] \in Asked(c)' \cup {Nothing}
           /\ stdout[c] \in Seq(Given')
           /\ reader[c] \in Given' \cup {None}
           /\ <<>> \in Seq(FramesFor(c)') /\ <<>> \in Seq(Asked(c)')
      /\ reply \in Given' \cup {None}
  BY SameTraffic
<1> USE DEF serverVars, threadVars, callVars, cancelVars, Traffic, IInv
<1>2. CASE \/ \E start \in BOOLEAN : CloseStdin(start)
           \/ \E method \in {"plan/apply", "other"} : BeginCall(method)
           \/ SpawnFails \/ Refused \/ CheckRunning \/ Register
  BY <1>1, <1>2
  DEF CloseStdin, BeginCall, SpawnFails, Refused, CheckRunning, Register
<1>3. CASE Spawn
  BY <1>1, <1>3 DEF Spawn
<1>4. CASE Reap
  BY <1>1, <1>4 DEF Reap, Die, Data
<1>5. CASE Write
  <2> DEFINE r == Request(call.id, calls, call.method)
  <2>1. PICK c \in Children : c = input
    BY <1>5 DEF Write, Typed
  <2>2. /\ calls \in Nat /\ call.id = calls /\ call.method \in Methods
        /\ call' = [call EXCEPT !.child = c]
        /\ pc' = "wait" /\ calls' = calls
    BY <1>5, <2>1 DEF Write, Typed, Place
  <2>3. call'.child = c /\ call'.method = call.method
    BY <2>2
  <2>4. /\ r \in OwnRequests /\ r.id = calls /\ r.method = call.method
    BY <2>2 DEF Request, OwnRequests, Requests
  <2>5. stdin' = [stdin EXCEPT ![c] = Append(@, r)]
    BY <1>5, <2>1 DEF Write, Feed
  <2> HIDE DEF r
  <2>6. r \in FramesFor(c)'
    BY <2>2, <2>3, <2>4 DEF Asked, FramesFor, OwnRequests, Requests
  <2>7. Append(stdin[c], r) \in Seq(FramesFor(c)')
    BY <1>1, <2>6, AppendProperties
  <2>8. \A d \in Children : stdin'[d] \in Seq(FramesFor(d)')
    BY <1>1, <2>5, <2>7 DEF Data
  <2> QED
    BY <1>1, <1>5, <2>8 DEF Write
<1>6. CASE WriteFails \/ Receive \/ Timeout \/ Disconnected
  BY <1>1, <1>6 DEF WriteFails, Receive, Timeout, Disconnected, GiveUp, End
<1>7. ASSUME NEW c \in Children, TakeWaiter(c) PROVE Traffic'
  <2> DEFINE answer == Head(stdout[c])
  <2>1. stdout[c] # <<>>
    BY <1>7 DEF TakeWaiter
  <2>2. Tail(stdout[c]) \in Seq(Given') /\ answer \in Given'
    BY <1>1, <2>1, Read
  <2>3. reader' = [reader EXCEPT ![c] = answer] \/ reader' = reader
    BY <1>7 DEF TakeWaiter
  <2> HIDE DEF answer
  <2>4. \A d \in Children : /\ reader'[d] \in Given' \cup {None}
                            /\ stdout'[d] \in Seq(Given')
    BY <1>1, <1>7, <2>2, <2>3 DEF TakeWaiter, Data
  <2> QED
    BY <1>1, <1>7, <2>4 DEF TakeWaiter
<1>8. ASSUME NEW c \in Children, Send(c) PROVE Traffic'
  BY <1>1, <1>8 DEF Send, Data
<1>9. ASSUME NEW c \in Children, Watcher(c) PROVE Traffic'
  BY <1>1, <1>9 DEF Watcher, WatchStale, NoticeExit, DropWaiters
<1>10. CASE LookUp
  BY <1>1, <1>10 DEF LookUp
<1>11. ASSUME NEW i \in cancels, WriteCancel(i) PROVE Traffic'
  <2>1. CASE input # None /\ Alive(input)
    <3>1. PICK c \in Children :
            stdin' = [stdin EXCEPT ![c] = Append(@, CancelOf(i))]
      BY <1>11, <2>1 DEF WriteCancel, Feed, Typed
    <3>2. CancelOf(i) \in FramesFor(c)'
      BY DEF CancelOf, FramesFor, Data, Cancellable
    <3>3. stdin[c] \in Seq(FramesFor(c)')
      BY <1>1
    <3>4. Append(stdin[c], CancelOf(i)) \in Seq(FramesFor(c)')
      BY <3>2, <3>3, AppendProperties
    <3>5. \A d \in Children : stdin'[d] \in Seq(FramesFor(d)')
      BY <1>1, <3>1, <3>4 DEF Data
    <3> QED
      BY <1>1, <1>11, <3>5 DEF WriteCancel
  <2>2. CASE ~(input # None /\ Alive(input))
    BY <1>1, <1>11, <2>2 DEF WriteCancel
  <2> QED
    BY <2>1, <2>2
<1>12. ASSUME NEW c \in Children, ServerStep(c) \/ Die(c), UNCHANGED shellVars
       PROVE  Traffic'
  BY <1>12, ServerTraffic
<1>13. CASE UNCHANGED vars
  BY <1>1, <1>13 DEF vars, shellVars
<1> QED
  BY <1>2, <1>3, <1>4, <1>5, <1>6, <1>7, <1>8, <1>9, <1>10, <1>11, <1>12,
     <1>13 DEF Next, Shell, Reader

LEMMA HandshakeStep ==
  ASSUME IInv, Handshake, Traffic, [Next]_vars
  PROVE  Handshake'
<1> USE DEF Handshake, HandshakeFirst, IInv, Typed, Place, Calling
<1>0. spawned' = spawned /\ Greeted => Greeted'
  BY StillGreeted
<1>1. CASE \E start \in BOOLEAN : CloseStdin(start)
  BY <1>0, <1>1 DEF CloseStdin
<1>10. CASE \E method \in {"plan/apply", "other"} : BeginCall(method)
  BY <1>0, <1>10 DEF BeginCall, tableVars
<1>2. CASE Reap
  BY <1>0, <1>2 DEF Reap, Down, callVars
<1>3. CASE Spawn
  BY <1>3 DEF Spawn, NoCall, AfterSpawn, Children
<1>4. CASE SpawnFails \/ Refused \/ CheckRunning
  BY <1>0, <1>4 DEF SpawnFails, Refused, CheckRunning, callVars, tableVars
<1>5. CASE Register \/ Write
  BY <1>0, <1>5 DEF Register, Write, tableVars
<1>6. CASE WriteFails \/ Receive \/ Timeout \/ Disconnected
  <2>1. PICK what, answered :
          /\ End(what, answered)
          /\ pc \in {"write", "wait"}
          /\ what = "result" /\ starting => Greeted
          /\ what = "not_initialized" /\ ~starting => greeting = "failed"
    <3>1. CASE Receive
      <4>1. /\ pc = "wait" /\ reply # None /\ End(reply.what, reply.call)
            /\ reply \in Given /\ reply.id = calls
        BY <3>1 DEF Receive, Traffic
      <4>2. /\ reply.what = "not_initialized" /\ ~starting => greeting = "failed"
            /\ reply.what = "result" /\ starting => Greeted
        BY <4>1 DEF Given
      <4> QED
        BY <4>1, <4>2
    <3>2. CASE WriteFails \/ Timeout \/ Disconnected
      BY <3>2 DEF WriteFails, Timeout, Disconnected, GiveUp
    <3> QED
      BY <1>6, <3>1, <3>2
  <2>2. /\ pc' = "free" /\ ended' = [what |-> what, answered |-> answered]
        /\ input' = input /\ spawned' = spawned
        /\ status'.running = status.running
        /\ greeting' = IF ~starting THEN greeting
                       ELSE IF what = "result" THEN "accepted" ELSE "failed"
    BY <2>1 DEF End
  <2>3. greeting' # "none"
    BY <2>1, <2>2
  <2>4. greeting' = "accepted" => Greeted'
    BY <1>0, <2>1, <2>2
  <2>5. HandshakeFirst'
    BY <2>1, <2>2
  <2> QED
    BY <2>2, <2>3, <2>4, <2>5
<1>7. ASSUME NEW c \in Children, Reader(c) \/ Watcher(c) PROVE Handshake'
  <2>1. /\ UNCHANGED <<pc, starting, call, calls, ended, spawned, input, greeting>>
        /\ status'.running => status.running
    BY <1>7
    DEF Reader, TakeWaiter, Send, Watcher, WatchStale, NoticeExit, DropWaiters,
        callVars, tableVars
  <2>2. Greeted => Greeted'
    BY <1>0, <2>1
  <2> QED
    BY <2>1, <2>2
<1>8. CASE LookUp \/ \E i \in cancels : WriteCancel(i)
  BY <1>0, <1>8 DEF LookUp, WriteCancel, callVars, tableVars
<1>9. CASE UNCHANGED shellVars
  BY <1>0, <1>9 DEF shellVars, callVars, tableVars
<1> QED
  BY <1>1, <1>2, <1>3, <1>4, <1>5, <1>6, <1>7, <1>8, <1>9, <1>10
  DEF Next, Shell, vars

LEMMA Greetings == Spec => [](Handshake /\ Traffic)
<1>1. Init => Handshake /\ Traffic
  <2>1. ASSUME NEW S PROVE <<>> \in Seq(S)
    BY EmptySeq
  <2> QED
    BY <2>1 DEF Init, ServerInit, Handshake, HandshakeFirst, Traffic, Down,
                Calling
<1>2. IInv /\ Handshake /\ Traffic /\ [Next]_vars => (Handshake /\ Traffic)'
  BY HandshakeStep, TrafficStep
<1> QED
  BY <1>1, <1>2, Invariant, PTL DEF Spec

\* No call is refused for want of a handshake, unless the shell made one with
\* that process and was told, or had to assume, that it failed (runtime_start,
\* call_tagged, and the server's not_initialized).
THEOREM GreetedFirst == Spec => []HandshakeFirst
<1>1. Handshake => HandshakeFirst
  BY DEF Handshake
<1> QED
  BY <1>1, Greetings, PTL
-----------------------------------------------------------------------------
(* What EndsWithChild rests on: a call that waits in the table for a       *)
(* process has a thread that watches that process and will drop it.        *)

Watched ==
  /\ spawned # 0 /\ Alive(spawned) =>
       watcher[spawned] = "watch" /\ status.pid = spawned
  /\ pc = "wait" => status.pid = call.child
  /\ pc = "wait" /\ call.id \in pending =>
       watcher[call.child] \in {"watch", "clear"}

LEMMA WatchedStep ==
  ASSUME IInv, Handshake, Watched, [Next]_vars
  PROVE  Watched'
<1> USE DEF IInv, Typed, Handshake, Watched, Alive, Children
<1>1. CASE \/ \E start \in BOOLEAN : CloseStdin(start)
           \/ \E method \in {"plan/apply", "other"} : BeginCall(method)
  BY <1>1 DEF CloseStdin, BeginCall, serverVars, tableVars, threadVars
<1>2. CASE Reap
  BY <1>2 DEF Reap, Die, Down, serverVars, threadVars
<1>3. CASE Spawn
  BY <1>3 DEF Spawn, AfterSpawn
<1>4. CASE SpawnFails \/ Refused \/ CheckRunning
  BY <1>4 DEF SpawnFails, Refused, CheckRunning, serverVars, tableVars,
              threadVars
<1>5. CASE Register
  BY <1>5 DEF Register, serverVars, threadVars
<1>6. CASE Write
  <2>1. /\ input = spawned /\ Alive(spawned) /\ call'.child = spawned
        /\ UNCHANGED <<life, spawned, watcher, status>>
    BY <1>6 DEF Write, tableVars, threadVars
  <2>2. spawned \in Children /\ spawned # 0
    BY <1>6, <2>1, NoneAssumption, SpawnsAssumption DEF Write
  <2>3. watcher'[spawned] = "watch" /\ status'.pid = spawned
    BY <2>1, <2>2
  <2> QED
    BY <2>1, <2>3
<1>7. CASE WriteFails \/ Receive \/ Timeout \/ Disconnected
  BY <1>7 DEF WriteFails, Receive, Timeout, Disconnected, GiveUp, End,
              serverVars, threadVars
<1>8. ASSUME NEW c \in Children, Reader(c) PROVE Watched'
  <2>1. /\ UNCHANGED <<life, pc, call, spawned, status, watcher>>
        /\ pending' \subseteq pending
    BY <1>8 DEF Reader, TakeWaiter, Send, serverVars, callVars, tableVars
  <2> QED
    BY <2>1
<1>9. ASSUME NEW c \in Children, Watcher(c) PROVE Watched'
  <2>1. UNCHANGED <<life, pc, call, spawned>>
    BY <1>9 DEF Watcher, WatchStale, NoticeExit, DropWaiters, serverVars,
                callVars
  <2>2. CASE WatchStale(c)
    BY <2>1, <2>2 DEF WatchStale, tableVars
  <2>3. CASE NoticeExit(c)
    BY <2>1, <2>3 DEF NoticeExit
  <2>4. CASE DropWaiters(c)
    BY <2>1, <2>4 DEF DropWaiters, LeftWaiting
  <2> QED
    BY <1>9, <2>2, <2>3, <2>4 DEF Watcher
<1>10. CASE LookUp \/ \E i \in cancels : WriteCancel(i)
  BY <1>10 DEF LookUp, WriteCancel, serverVars, callVars, tableVars, threadVars
<1>11. ASSUME NEW c \in Children, ServerStep(c) \/ Die(c), UNCHANGED shellVars
       PROVE  Watched'
  <2>1. \A d \in Children : life'[d] = "alive" => life[d] = "alive"
    BY <1>11 DEF ServerStep, ReadFrame, Take, Checkpoint, Complete, Die
  <2> QED
    BY <1>11, <2>1 DEF shellVars, callVars, tableVars, threadVars
<1>12. CASE UNCHANGED vars
  BY <1>12 DEF vars, serverVars, shellVars, callVars, tableVars, threadVars
<1> QED
  BY <1>1, <1>2, <1>3, <1>4, <1>5, <1>6, <1>7, <1>8, <1>9, <1>10, <1>11,
     <1>12 DEF Next, Shell

\* Nobody waits for a process that nobody watches: a call whose process has
\* ended and that is still in the table will be found by that process's
\* thread, either on its way to the table or yet to notice, and not turned
\* away by the status (watch_exit, spawn and call_tagged).
THEOREM WaitersAreWatched ==
  Spec => [](pc = "wait" /\ call.id \in pending /\ ~Alive(call.child) =>
               \/ watcher[call.child] = "clear"
               \/ /\ watcher[call.child] = "watch"
                  /\ status.pid = call.child)
<1>1. Init => Watched
  BY DEF Init, Watched
<1>2. IInv /\ Handshake /\ Watched /\ [Next]_vars => Watched'
  BY WatchedStep
<1>3. Watched =>
        (pc = "wait" /\ call.id \in pending /\ ~Alive(call.child) =>
           \/ watcher[call.child] = "clear"
           \/ watcher[call.child] = "watch" /\ status.pid = call.child)
  BY DEF Watched
<1> QED
  BY <1>1, <1>2, <1>3, Invariant, Greetings, PTL DEF Spec

-----------------------------------------------------------------------------
(* Requests and answers in line.  A request is answered once, and in the   *)
(* order in which the requests were made: along a process's input, queue   *)
(* and output the identifiers rise, and those that were taken from the     *)
(* queue are below those still in front of it.                             *)

Rising(q, S) ==
  \A i, j \in 1 .. Len(q) :
    i < j /\ q[i] \in S /\ q[j] \in S => q[i].id < q[j].id
Above(q, S, n) == \A i \in 1 .. Len(q) : q[i] \in S => n < q[i].id
Below(q, n) == \A i \in 1 .. Len(q) : q[i].id < n

LineOf(waiting, queue, now, taken, output) ==
  /\ Rising(waiting, Requests) /\ Rising(queue, Requests)
  /\ Rising(output, Answers)
  /\ \A n \in taken : Above(queue, Requests, n) /\ Above(waiting, Requests, n)
  /\ \A i \in 1 .. Len(queue) : Above(waiting, Requests, queue[i].id)
  /\ now # Nothing => now.id \in taken /\ Below(output, now.id)
  /\ \A i \in 1 .. Len(output) : output[i].what # "duplicate_request_id"

LEMMA TailRises ==
  ASSUME NEW T, NEW q \in Seq(T), q # <<>>, NEW S
  PROVE  /\ Rising(q, S) => /\ Rising(Tail(q), S)
                            /\ Head(q) \in S => Above(Tail(q), S, Head(q).id)
         /\ \A n : Above(q, S, n) =>
              /\ Above(Tail(q), S, n)
              /\ Head(q) \in S => n < Head(q).id
         /\ \A i \in 1 .. Len(Tail(q)) :
              i + 1 \in 1 .. Len(q) /\ Tail(q)[i] = q[i + 1]
<1>1. /\ Len(q) \in Nat /\ Len(q) > 0 /\ Len(Tail(q)) = Len(q) - 1
      /\ Head(q) = q[1]
      /\ \A i \in 1 .. Len(Tail(q)) : Tail(q)[i] = q[i + 1]
  BY HeadTailProperties
<1>2. /\ 1 \in 1 .. Len(q)
      /\ \A i \in 1 .. Len(Tail(q)) : i + 1 \in 1 .. Len(q) /\ 1 < i + 1
  BY <1>1
<1>3. \A i, j \in 1 .. Len(Tail(q)) : i < j => i + 1 < j + 1
  BY <1>1
<1> QED
  BY <1>1, <1>2, <1>3 DEF Rising, Above

LEMMA AppendRises ==
  ASSUME NEW T, NEW q \in Seq(T), NEW e \in T, NEW S
  PROVE  /\ Rising(q, S)
              /\ (e \in S => \A i \in 1 .. Len(q) : q[i] \in S => q[i].id < e.id)
              => Rising(Append(q, e), S)
         /\ \A n : Above(q, S, n) /\ (e \in S => n < e.id)
                     => Above(Append(q, e), S, n)
         /\ \A i \in 1 .. Len(Append(q, e)) :
              \/ i \in 1 .. Len(q) /\ Append(q, e)[i] = q[i]
              \/ i = Len(q) + 1 /\ Append(q, e)[i] = e
<1>1. /\ Len(q) \in Nat /\ Len(Append(q, e)) = Len(q) + 1
      /\ \A i \in 1 .. Len(q) : Append(q, e)[i] = q[i]
      /\ Append(q, e)[Len(q) + 1] = e
  BY AppendProperties
<1>2. \A i \in 1 .. Len(Append(q, e)) : i \in 1 .. Len(q) \/ i = Len(q) + 1
  BY <1>1
<1>3. \A i, j \in 1 .. Len(Append(q, e)) :
        i < j => i \in 1 .. Len(q)
  BY <1>1
<1> QED
  BY <1>1, <1>2, <1>3 DEF Rising, Above

\* The reader thread queues a request, or drops a cancel frame.
LEMMA LineRead ==
  ASSUME NEW si \in Seq(Frames), NEW ib \in Seq(Requests), NEW sv, NEW se,
         NEW so, LineOf(si, ib, sv, se, so), si # <<>>
  PROVE  /\ LineOf(Tail(si), ib, sv, se, so)
         /\ Head(si) \in Requests =>
              LineOf(Tail(si), Append(ib, Head(si)), sv, se, so)
<1>1. /\ Rising(Tail(si), Requests)
      /\ \A n : Above(si, Requests, n) =>
           /\ Above(Tail(si), Requests, n)
           /\ Head(si) \in Requests => n < Head(si).id
      /\ Head(si) \in Requests => Above(Tail(si), Requests, Head(si).id)
  BY TailRises DEF LineOf
<1>2. LineOf(Tail(si), ib, sv, se, so)
  BY <1>1 DEF LineOf
<1>3. ASSUME Head(si) \in Requests
      PROVE  LineOf(Tail(si), Append(ib, Head(si)), sv, se, so)
  <2>1. PICK f \in Requests : f = Head(si)
    BY <1>3
  <2>2. \A i \in 1 .. Len(ib) : ib[i].id < f.id
    BY <1>1, <2>1 DEF LineOf
  <2>3. Rising(Append(ib, f), Requests)
    BY <2>2, AppendRises DEF LineOf
  <2>4. \A n \in se : Above(Append(ib, f), Requests, n)
    BY <1>1, <2>1, AppendRises DEF LineOf
  <2>5. \A i \in 1 .. Len(Append(ib, f)) :
          Above(Tail(si), Requests, Append(ib, f)[i].id)
    BY <1>1, <2>1, AppendRises DEF LineOf
  <2> QED
    BY <1>2, <2>1, <2>3, <2>4, <2>5 DEF LineOf
<1> QED
  BY <1>2, <1>3

\* The main thread takes a request: it was not taken before.
LEMMA LineTaken ==
  ASSUME NEW si, NEW ib \in Seq(Requests), NEW sv, NEW se, NEW so,
         LineOf(si, ib, Nothing, se, so), ib # <<>>,
         \A i \in 1 .. Len(so) : so[i].id \in se
  PROVE  /\ Head(ib) \in Requests /\ Head(ib).id \notin se
         /\ Below(so, Head(ib).id)
         /\ LineOf(si, Tail(ib), Nothing, se \cup {Head(ib).id}, so)
         /\ LineOf(si, Tail(ib), Head(ib), se \cup {Head(ib).id}, so)
<1>1. PICK r \in Requests : r = Head(ib)
  BY Read
<1>2. /\ Rising(Tail(ib), Requests) /\ Above(Tail(ib), Requests, r.id)
      /\ \A n \in se : Above(Tail(ib), Requests, n) /\ n < r.id
  BY <1>1, TailRises DEF LineOf
<1>3. /\ Above(si, Requests, r.id)
      /\ \A i \in 1 .. Len(Tail(ib)) : Above(si, Requests, Tail(ib)[i].id)
  <2>1. 1 \in 1 .. Len(ib) /\ Head(ib) = ib[1]
    BY HeadTailProperties
  <2> QED
    BY <1>1, <2>1, TailRises DEF LineOf
<1>4. r.id \in Nat /\ r.id \notin se
  BY <1>2 DEF Requests
<1>5. Below(so, r.id)
  BY <1>2 DEF Below
<1>6. r # Nothing
  BY DEF Requests, Nothing
<1> QED
  BY <1>1, <1>2, <1>3, <1>4, <1>5, <1>6 DEF LineOf

\* An answer goes out.
LEMMA LineAnswered ==
  ASSUME NEW si, NEW ib, NEW sv, NEW se, NEW so \in Seq(Answers),
         LineOf(si, ib, sv, se, so), NEW a \in Answers,
         Below(so, a.id), a.what # "duplicate_request_id"
  PROVE  LineOf(si, ib, Nothing, se, Append(so, a))
<1>1. Rising(Append(so, a), Answers)
  BY AppendRises DEF LineOf, Below
<1>2. \A i \in 1 .. Len(Append(so, a)) :
        Append(so, a)[i].what # "duplicate_request_id"
  BY AppendRises DEF LineOf
<1> QED
  BY <1>1, <1>2 DEF LineOf

\* The shell writes a frame; a request is above all before it.
LEMMA LineFed ==
  ASSUME NEW si \in Seq(Frames), NEW ib, NEW sv, NEW se, NEW so,
         LineOf(si, ib, sv, se, so), NEW f \in Frames,
         f \in Requests => /\ \A i \in 1 .. Len(si) :
                                si[i] \in Requests => si[i].id < f.id
                           /\ Below(ib, f.id)
                           /\ \A n \in se : n < f.id
  PROVE  LineOf(Append(si, f), ib, sv, se, so)
<1>1. Rising(Append(si, f), Requests)
  BY AppendRises DEF LineOf
<1>2. /\ \A n \in se : Above(Append(si, f), Requests, n)
      /\ \A i \in 1 .. Len(ib) : Above(Append(si, f), Requests, ib[i].id)
  BY AppendRises DEF LineOf, Below
<1> QED
  BY <1>1, <1>2 DEF LineOf

\* The shell's reader thread takes an answer.
LEMMA LineDrained ==
  ASSUME NEW si, NEW ib, NEW sv, NEW se, NEW so \in Seq(Answers), so # <<>>,
         LineOf(si, ib, sv, se, so)
  PROVE  /\ LineOf(si, ib, sv, se, Tail(so))
         /\ Head(so).what # "duplicate_request_id"
<1>1. Rising(Tail(so), Answers)
  BY TailRises DEF LineOf
<1>2. \A n : Below(so, n) => Below(Tail(so), n)
  BY TailRises DEF Below
<1>3. \A i \in 1 .. Len(Tail(so)) : Tail(so)[i].what # "duplicate_request_id"
  BY TailRises DEF LineOf
<1>4. Head(so).what # "duplicate_request_id"
  <2>1. 1 \in 1 .. Len(so) /\ Head(so) = so[1]
    BY HeadTailProperties
  <2> QED
    BY <2>1 DEF LineOf
<1> QED
  BY <1>1, <1>2, <1>3, <1>4 DEF LineOf

Counted(n) == n <= calls /\ (pc = "write" => n < calls)
Line(c) ==
  /\ LineOf(stdin[c], inbox[c], serving[c], seen[c], stdout[c])
  /\ life[c] # "dead" =>
       \A i \in 1 .. Len(stdout[c]) : stdout[c][i].id \in seen[c]
  /\ \A n \in seen[c] : Counted(n)
  /\ c > spawned => life[c] = "unborn"
  /\ reader[c] # None => reader[c].what # "duplicate_request_id"
Lined ==
  /\ \A c \in Children : Line(c)
  /\ reply # None => reply.what # "duplicate_request_id"
  /\ ended # None => ended.what # "duplicate_request_id"

LEMMA StillCounted ==
  ASSUME IInv, [Next]_vars, NEW n \in Nat, Counted(n)
  PROVE  Counted(n)'
<1>1. calls \in Nat /\ calls' \in Nat
  BY RestStep DEF IInv, Typed
<1> QED
  BY <1>1, CallMoves DEF Counted, Register, Write

LEMMA AnswerTo ==
  ASSUME NEW r \in Requests, NEW what \in Served
  PROVE  /\ Answer(r, what) \in Answers
         /\ Answer(r, what).id = r.id /\ Answer(r, what).what = what
  BY DEF Answer, Answers, Requests

\* A step of a server: another process's line is as it was.
LEMMA ServerLined ==
  ASSUME IInv, Handshake, Traffic, Lined, NEW c \in Children,
         ServerStep(c), UNCHANGED shellVars
  PROVE  Lined'
<1> USE DEF IInv
<1>1. /\ stdin \in [Children -> Seq(Frames)]
      /\ inbox \in [Children -> Seq(Requests)]
      /\ stdout \in [Children -> Seq(Answers)]
      /\ serving \in [Children -> Requests \cup {Nothing}]
      /\ seen \in [Children -> SUBSET Nat]
  BY InvariantTypes DEF TypeOK
<1>2. /\ UNCHANGED <<pc, calls, spawned, reader, reply, ended>>
      /\ life' = life /\ life[c] = "alive"
  BY DEF shellVars, callVars, threadVars, ServerStep, ReadFrame, Take,
         Checkpoint, Complete, Alive
<1>3. \A d \in Children : Line(d)
  BY DEF Lined
<1>4. SUFFICES
        /\ \A d \in Children \ {c} :
             UNCHANGED <<stdin[d], inbox[d], serving[d], seen[d], stdout[d]>>
        /\ LineOf(stdin'[c], inbox'[c], serving'[c], seen'[c], stdout'[c])
        /\ \A i \in 1 .. Len(stdout'[c]) : stdout'[c][i].id \in seen'[c]
        /\ \A n \in seen'[c] : Counted(n)
  <2>1. \A n : Counted(n)' <=> Counted(n)
    BY <1>2 DEF Counted
  <2> QED
    BY <1>2, <1>3, <1>4, <2>1 DEF Lined, Line
<1>5. /\ LineOf(stdin[c], inbox[c], serving[c], seen[c], stdout[c])
      /\ \A i \in 1 .. Len(stdout[c]) : stdout[c][i].id \in seen[c]
      /\ \A n \in seen[c] : Counted(n)
  BY <1>2, <1>3 DEF Line
<1>6. CASE ReadFrame(c)
  <2> DEFINE f == Head(stdin[c])
  <2>1. stdin[c] # <<>> /\ f \in Frames
    BY <1>1, <1>6, Read DEF ReadFrame
  <2>2. f.kind # "cancel" => f \in Requests
    BY <2>1 DEF Frames, Requests
  <2>3. LineOf(stdin'[c], inbox'[c], serving[c], seen[c], stdout[c])
    <3>1. /\ LineOf(Tail(stdin[c]), inbox[c], serving[c], seen[c], stdout[c])
          /\ f \in Requests =>
               LineOf(Tail(stdin[c]), Append(inbox[c], f), serving[c], seen[c],
                      stdout[c])
      BY <1>1, <1>5, <2>1, LineRead
    <3>2. /\ stdin'[c] = Tail(stdin[c])
          /\ inbox'[c] = IF f.kind = "cancel" THEN inbox[c]
                         ELSE Append(inbox[c], f)
      BY <1>1, <1>6 DEF ReadFrame
    <3> QED
      BY <2>2, <3>1, <3>2
  <2> QED
    BY <1>1, <1>5, <1>6, <2>3 DEF ReadFrame
<1>7. CASE Take(c)
  <2> DEFINE r == Head(inbox[c])
  <2>1. /\ inbox[c] # <<>> /\ serving[c] = Nothing
        /\ inbox' = [inbox EXCEPT ![c] = Tail(@)] /\ stdin' = stdin
        /\ seen' = [seen EXCEPT ![c] = @ \cup {r.id}]
    BY <1>7 DEF Take
  <2>2. /\ r \in Requests /\ r.id \notin seen[c] /\ Below(stdout[c], r.id)
        /\ LineOf(stdin[c], Tail(inbox[c]), Nothing, seen[c] \cup {r.id},
                  stdout[c])
        /\ LineOf(stdin[c], Tail(inbox[c]), r, seen[c] \cup {r.id}, stdout[c])
    BY <1>1, <1>5, <2>1, LineTaken
  <2>3. Counted(r.id)
    <3>1. r \in Asked(c)
      BY <2>1, Read DEF Traffic
    <3> QED
      BY <3>1 DEF Asked, Counted
  <2>4. CASE \E what \in Refusals(c, r) :
               Respond(c, r, what) /\ UNCHANGED serving
    <3>1. PICK what \in Refusals(c, r) :
            Respond(c, r, what) /\ UNCHANGED serving
      BY <2>4
    <3>2. what \in Served /\ what # "duplicate_request_id"
      BY <2>2 DEF Refusals, Served
    <3>3. PICK a \in Answers : /\ a = Answer(r, what)
                               /\ a.id = r.id /\ a.what = what
      BY <2>2, <3>2, AnswerTo
    <3>4. LineOf(stdin[c], Tail(inbox[c]), Nothing, seen[c] \cup {r.id},
                 Append(stdout[c], a))
      BY <1>1, <2>2, <3>2, <3>3, LineAnswered
    <3>5. stdout' = [stdout EXCEPT ![c] = Append(@, a)] /\ serving' = serving
      BY <3>1, <3>3 DEF Respond
    <3>6. \A i \in 1 .. Len(Append(stdout[c], a)) :
            Append(stdout[c], a)[i].id \in seen[c] \cup {r.id}
      BY <1>1, <1>5, <3>3, AppendRises
    <3> HIDE DEF r
    <3> QED
      BY <1>1, <1>5, <2>1, <2>3, <3>4, <3>5, <3>6
  <2>5. CASE serving' = [serving EXCEPT ![c] = r] /\ UNCHANGED stdout
    <3> HIDE DEF r
    <3> QED
      BY <1>1, <1>5, <2>1, <2>2, <2>3, <2>5
  <2> QED
    BY <1>7, <2>4, <2>5 DEF Take
<1>8. CASE Checkpoint(c) \/ \E what \in {"result", "error"} : Complete(c, what)
  <2>1. PICK what \in {"cancelled", "result", "error"} :
          Respond(c, serving[c], what)
    BY <1>8 DEF Checkpoint, Complete
  <2>2. /\ serving[c] # Nothing /\ serving' = [serving EXCEPT ![c] = Nothing]
        /\ UNCHANGED <<stdin, inbox, seen>>
    BY <1>8 DEF Checkpoint, Complete
  <2>3. PICK a \in Answers : /\ a = Answer(serving[c], what)
                             /\ a.id = serving[c].id /\ a.what = what
    <3>1. serving[c] \in Requests /\ what \in Served
      BY <1>1, <2>2 DEF Served
    <3> QED
      BY <3>1, AnswerTo
  <2>4. serving[c].id \in seen[c] /\ Below(stdout[c], a.id)
    BY <1>5, <2>2, <2>3 DEF LineOf
  <2>5. LineOf(stdin[c], inbox[c], Nothing, seen[c], Append(stdout[c], a))
    BY <1>1, <1>5, <2>1, <2>3, <2>4, LineAnswered
  <2>6. \A i \in 1 .. Len(Append(stdout[c], a)) :
          Append(stdout[c], a)[i].id \in seen[c]
    BY <1>1, <1>5, <2>3, <2>4, AppendRises
  <2>7. stdout' = [stdout EXCEPT ![c] = Append(@, a)]
    BY <2>1, <2>3 DEF Respond
  <2> QED
    BY <1>1, <1>5, <2>2, <2>5, <2>6, <2>7
<1> QED
  BY <1>6, <1>7, <1>8 DEF ServerStep

LEMMA LinedStep ==
  ASSUME IInv, Handshake, Traffic, Lined, [Next]_vars
  PROVE  Lined'
<1> USE DEF IInv
<1>1. /\ stdin \in [Children -> Seq(Frames)]
      /\ stdout \in [Children -> Seq(Answers)]
      /\ inbox \in [Children -> Seq(Requests)]
      /\ seen \in [Children -> SUBSET Nat]
      /\ calls \in Nat /\ spawned \in {0} \cup Children
  BY InvariantTypes DEF TypeOK
<1>2. \A c \in Children : \A n \in seen[c] : Counted(n)'
  BY <1>1, StillCounted DEF Lined, Line
<1> USE DEF Lined, Line, Typed, serverVars, callVars, tableVars, threadVars,
            cancelVars
<1>3. CASE \/ \E start \in BOOLEAN : CloseStdin(start)
           \/ \E method \in {"plan/apply", "other"} : BeginCall(method)
           \/ SpawnFails \/ Refused \/ CheckRunning \/ Register
  BY <1>2, <1>3
  DEF CloseStdin, BeginCall, SpawnFails, Refused, CheckRunning, Register
<1>4. ASSUME NEW c \in Children, Die(c),
             UNCHANGED <<spawned, reader, reply, ended>>
      PROVE  Lined'
  <2>1. LineOf(<<>>, <<>>, Nothing, {}, stdout[c])
    <3>1. LineOf(stdin[c], inbox[c], serving[c], seen[c], stdout[c])
      OBVIOUS
    <3> QED
      BY <3>1 DEF LineOf, Rising, Above
  <2>2. /\ stdin'[c] = <<>> /\ inbox'[c] = <<>> /\ serving'[c] = Nothing
        /\ seen'[c] = {} /\ stdout' = stdout /\ life'[c] = "dead"
        /\ ~(c > spawned)
    BY <1>4 DEF Die, Data, Alive
  <2>3. Line(c)'
    BY <1>4, <2>1, <2>2
  <2>4. ASSUME NEW d \in Children \ {c} PROVE Line(d)'
    <3>1. UNCHANGED <<stdin[d], inbox[d], serving[d], seen[d], stdout[d],
                      life[d]>>
      BY <1>4 DEF Die
    <3> QED
      BY <1>2, <1>4, <3>1
  <2> QED
    BY <1>4, <2>3, <2>4
<1>5. CASE Reap
  <2>1. UNCHANGED <<calls, spawned, reader, reply, ended>>
    BY <1>5 DEF Reap
  <2>2. CASE spawned # 0 /\ Alive(spawned)
    BY <1>1, <1>4, <1>5, <2>1, <2>2 DEF Reap
  <2>3. CASE ~(spawned # 0 /\ Alive(spawned))
    BY <1>2, <1>5, <2>1, <2>3 DEF Reap
  <2> QED
    BY <2>2, <2>3
<1>6. CASE Spawn
  <2>1. /\ spawned' = spawned + 1 /\ spawned + 1 \in Children
        /\ life' = [life EXCEPT ![spawned + 1] = "alive"]
        /\ UNCHANGED <<stdin, inbox, seen, serving, stdout, reader, reply,
                       ended>>
    BY <1>6 DEF Spawn
  <2>2. life[spawned + 1] = "unborn"
    BY <1>1, <2>1 DEF Children
  <2>3. ASSUME NEW c \in Children PROVE Line(c)'
    <3>1. /\ life'[c] # "dead" => life[c] # "dead"
          /\ c > spawned + 1 => life'[c] = "unborn"
      BY <1>1, <2>1, <2>2, SpawnsAssumption DEF Children
    <3> QED
      BY <1>2, <2>1, <3>1
  <2> QED
    BY <2>1, <2>3
<1>7. ASSUME NEW c \in Children, NEW f \in Frames,
             stdin' = [stdin EXCEPT ![c] = Append(@, f)],
             f \in Requests => pc = "write" /\ f.id = calls,
             UNCHANGED <<life, inbox, serving, seen, stdout, spawned, reader,
                         reply, ended>>
      PROVE  Lined'
  <2>1. ASSUME f \in Requests
        PROVE  /\ \A i \in 1 .. Len(stdin[c]) :
                    stdin[c][i] \in Requests => stdin[c][i].id < f.id
               /\ Below(inbox[c], f.id)
               /\ \A n \in seen[c] : n < f.id
    <3>1. pc = "write" /\ f.id = calls
      BY <1>7, <2>1
    <3>2. \A r \in Asked(c) : r.id < calls
      BY <3>1 DEF Asked
    <3>3. /\ \A i \in 1 .. Len(stdin[c]) : stdin[c][i] \in FramesFor(c)
          /\ \A i \in 1 .. Len(inbox[c]) : inbox[c][i] \in Asked(c)
      BY ElementOfSeq DEF Traffic
    <3>4. \A x \in FramesFor(c) : x \in Requests => x \in Asked(c)
      BY DEF FramesFor, Requests
    <3> QED
      BY <3>1, <3>2, <3>3, <3>4 DEF Below, Counted
  <2>2. LineOf(Append(stdin[c], f), inbox[c], serving[c], seen[c], stdout[c])
    BY <1>1, <1>7, <2>1, LineFed
  <2>3. Line(c)'
    BY <1>1, <1>2, <1>7, <2>2
  <2>4. ASSUME NEW d \in Children \ {c} PROVE Line(d)'
    <3>1. stdin'[d] = stdin[d]
      BY <1>7
    <3> QED
      BY <1>2, <1>7, <3>1
  <2> QED
    BY <1>7, <2>3, <2>4
<1>8. CASE Write
  <2>1. PICK r \in Requests :
          r = Request(call.id, calls, call.method) /\ r.id = calls
    BY <1>1, <1>8 DEF Write, Request, Requests, Place
  <2>2. PICK c \in Children : stdin' = [stdin EXCEPT ![c] = Append(@, r)]
    BY <1>8, <2>1 DEF Write, Feed
  <2>3. r \in Frames
    BY DEF Frames, Requests
  <2> QED
    BY <1>7, <1>8, <2>1, <2>2, <2>3 DEF Write
<1>9. CASE WriteFails \/ Receive \/ Timeout \/ Disconnected
  <2>1. PICK what, answered :
          End(what, answered) /\ what # "duplicate_request_id"
    BY <1>9 DEF WriteFails, Receive, Timeout, Disconnected, GiveUp
  <2>2. UNCHANGED <<serverVars, threadVars>>
    BY <1>9 DEF WriteFails, Receive, Timeout, Disconnected
  <2> QED
    BY <1>2, <2>1, <2>2 DEF End
<1>10. ASSUME NEW c \in Children, TakeWaiter(c) PROVE Lined'
  <2> DEFINE a == Head(stdout[c])
  <2>1. /\ stdout[c] # <<>> /\ stdout' = [stdout EXCEPT ![c] = Tail(@)]
        /\ reader' = [reader EXCEPT ![c] = a] \/ reader' = reader
        /\ UNCHANGED <<life, stdin, inbox, seen, serving, spawned, reply, ended>>
    BY <1>10 DEF TakeWaiter
  <2>2. /\ a.what # "duplicate_request_id"
        /\ LineOf(stdin[c], inbox[c], serving[c], seen[c], Tail(stdout[c]))
    <3>1. /\ LineOf(stdin[c], inbox[c], serving[c], seen[c], stdout[c])
          /\ stdout[c] \in Seq(Answers) /\ stdout[c] # <<>>
      BY <1>1, <2>1
    <3> QED
      BY <3>1, LineDrained
  <2>3. \A i \in 1 .. Len(Tail(stdout[c])) :
          i + 1 \in 1 .. Len(stdout[c]) /\ Tail(stdout[c])[i] = stdout[c][i + 1]
    BY <1>1, <2>1, TailRises
  <2> HIDE DEF a
  <2>4. reader' \in [Children -> {reader[d] : d \in Children} \cup {a}]
        /\ reader'[c] \in {reader[c], a}
        /\ \A d \in Children \ {c} : reader'[d] = reader[d]
    BY <2>1 DEF Data
  <2>5. Line(c)'
    <3>1. stdout'[c] = Tail(stdout[c])
      BY <1>1, <2>1
    <3>2. \A i \in 1 .. Len(Tail(stdout[c])) :
            life[c] # "dead" => Tail(stdout[c])[i].id \in seen[c]
      BY <2>3
    <3>3. reader'[c] # None => reader'[c].what # "duplicate_request_id"
      BY <2>2, <2>4
    <3> QED
      BY <1>2, <2>1, <2>2, <3>1, <3>2, <3>3
  <2>6. ASSUME NEW d \in Children \ {c} PROVE Line(d)'
    <3>1. stdout'[d] = stdout[d]
      BY <2>1
    <3> QED
      BY <1>2, <2>1, <2>4, <3>1
  <2> QED
    BY <2>1, <2>5, <2>6
<1>11. ASSUME NEW c \in Children, Send(c) PROVE Lined'
  BY <1>2, <1>11 DEF Send, Data
<1>12. ASSUME NEW c \in Children, Watcher(c) PROVE Lined'
  BY <1>2, <1>12 DEF Watcher, WatchStale, NoticeExit, DropWaiters
<1>13. CASE LookUp
  BY <1>2, <1>13 DEF LookUp
<1>14. ASSUME NEW i \in cancels, WriteCancel(i) PROVE Lined'
  <2>1. CASE input # None /\ Alive(input)
    <3>1. PICK c \in Children :
            stdin' = [stdin EXCEPT ![c] = Append(@, CancelOf(i))]
      BY <1>14, <2>1 DEF WriteCancel, Feed
    <3>2. CancelOf(i) \in Frames /\ CancelOf(i) \notin Requests
      BY DEF CancelOf, Frames, Requests, Data, Cancellable
    <3> QED
      BY <1>7, <1>14, <3>1, <3>2 DEF WriteCancel
  <2>2. CASE ~(input # None /\ Alive(input))
    BY <1>2, <1>14, <2>2 DEF WriteCancel
  <2> QED
    BY <2>1, <2>2
<1>15. ASSUME NEW c \in Children, ServerStep(c) \/ Die(c), UNCHANGED shellVars
       PROVE  Lined'
  BY <1>4, <1>15, ServerLined DEF shellVars
<1>16. CASE UNCHANGED vars
  BY <1>2, <1>16 DEF vars, shellVars
<1> QED
  BY <1>3, <1>5, <1>6, <1>8, <1>9, <1>10, <1>11, <1>12, <1>13, <1>14, <1>15,
     <1>16 DEF Next, Shell, Reader

LEMMA Lines == Spec => []Lined
<1>1. Init => Lined
  BY DEF Init, ServerInit, Lined, Line, LineOf, Rising, Above
<1>2. IInv /\ Handshake /\ Traffic /\ Lined /\ [Next]_vars => Lined'
  BY LinedStep
<1> QED
  BY <1>1, <1>2, Invariant, Greetings, PTL DEF Spec

\* A process's answers are in the order of its requests, and none is answered
\* twice (the request loop, whose reader thread only overtakes it with cancel
\* frames).
THEOREM AnswersInOrder ==
  Spec => [](\A c \in Children : \A i, j \in 1 .. Len(stdout[c]) :
               i < j => stdout[c][i].id < stdout[c][j].id)
<1>1. TypeOK /\ Lined => \A c \in Children : \A i, j \in 1 .. Len(stdout[c]) :
                           i < j => stdout[c][i].id < stdout[c][j].id
  <2> SUFFICES ASSUME TypeOK, Lined, NEW c \in Children,
                      NEW i \in 1 .. Len(stdout[c]),
                      NEW j \in 1 .. Len(stdout[c]), i < j
               PROVE  stdout[c][i].id < stdout[c][j].id
    OBVIOUS
  <2>1. stdout[c] \in Seq(Answers)
    BY DEF TypeOK
  <2>2. stdout[c][i] \in Answers /\ stdout[c][j] \in Answers
    BY <2>1, ElementOfSeq
  <2> QED
    BY <2>2 DEF Lined, Line, LineOf, Rising
<1> QED
  BY <1>1, Lines, TypeCorrect, PTL

\* The server refuses no request of the shell as one it has had before,
\* whichever process it goes to (next_id of call_tagged, seen_request_ids).
THEOREM NoRequestTwice ==
  Spec => [](ended # None => ended.what # "duplicate_request_id")
<1>1. Lined => (ended # None => ended.what # "duplicate_request_id")
  BY DEF Lined
<1> QED
  BY <1>1, Lines, PTL
=============================================================================
