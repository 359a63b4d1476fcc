----------------------------- MODULE RpcServer ------------------------------
(***************************************************************************)
(* The request loop of the runtime server (rt_server.py), one per child    *)
(* process the shell has spawned.  A reader thread takes frames off stdin: *)
(* a cancel frame marks an identifier and goes no further, a request is    *)
(* queued; the main thread serves the queue in order and answers on        *)
(* stdout.  Cancelling is cooperative: a request is given up before its    *)
(* handler runs or, plan/apply only, at a checkpoint between two           *)
(* operations.                                                             *)
(*                                                                         *)
(* Identifiers are chosen by the client.  A request also carries the       *)
(* number of the call that sent it, which the program does not send: the   *)
(* properties tell calls apart by it even where their identifiers clash.   *)
(* The client's frames are well formed and name existing methods.          *)
(***************************************************************************)
EXTENDS Naturals, Sequences

CONSTANTS MaxSpawns   \* bound on the processes spawned, one after the other

ASSUME SpawnsAssumption == MaxSpawns \in Nat

Children == 1 .. MaxSpawns

VARIABLES
  life,         \* "unborn", "alive" or "dead"
  stdin,        \* frames written to the pipe and not read yet
  inbox,        \* requests queued for the main thread
  cancelled,    \* identifiers named by cancel frames
  seen,         \* identifiers of requests taken from the queue
  initialized,  \* the handshake was accepted
  serving,      \* the request in its handler
  stdout        \* answers written to the pipe and not read yet

serverVars ==
  <<life, stdin, inbox, cancelled, seen, initialized, serving, stdout>>

Request(i, n, method) ==
  [kind |-> "request", id |-> i, call |-> n, method |-> method]
CancelOf(i) == [kind |-> "cancel", id |-> i]
Answer(r, what) == [id |-> r.id, call |-> r.call, what |-> what]

Nothing == [kind |-> "nothing"]
Alive(c) == life[c] = "alive"

ServerInit ==
  /\ life = [c \in Children |-> "unborn"]
  /\ stdin = [c \in Children |-> <<>>]
  /\ inbox = [c \in Children |-> <<>>]
  /\ cancelled = [c \in Children |-> {}]
  /\ seen = [c \in Children |-> {}]
  /\ initialized = [c \in Children |-> FALSE]
  /\ serving = [c \in Children |-> Nothing]
  /\ stdout = [c \in Children |-> <<>>]

\* What the shell writes to a child's stdin.
Feed(c, frame) == stdin' = [stdin EXCEPT ![c] = Append(@, frame)]

\* The reader thread.
ReadFrame(c) ==
  /\ Alive(c) /\ stdin[c] # <<>>
  /\ stdin' = [stdin EXCEPT ![c] = Tail(@)]
  /\ LET frame == Head(stdin[c])
     IN  IF frame.kind = "cancel"
         THEN /\ cancelled' = [cancelled EXCEPT ![c] = @ \cup {frame.id}]
              /\ UNCHANGED inbox
         ELSE /\ inbox' = [inbox EXCEPT ![c] = Append(@, frame)]
              /\ UNCHANGED cancelled
  /\ UNCHANGED <<life, seen, initialized, serving, stdout>>

Respond(c, r, what) ==
  stdout' = [stdout EXCEPT ![c] = Append(@, Answer(r, what))]

IsCancelled_AnyId(c, r) == cancelled[c] # {}
IsCancelled(c, r) == r.id \in cancelled[c]

\* Why a request is refused before its handler runs.
Refusals(c, r) ==
  IF r.id \in seen[c] THEN {"duplicate_request_id"}
  ELSE IF IsCancelled(c, r) THEN {"cancelled"}
  ELSE IF ~initialized[c] /\ r.method # "initialize" THEN {"not_initialized"}
  ELSE {}

Take(c) ==
  /\ Alive(c) /\ serving[c] = Nothing
  /\ inbox[c] # <<>>
  /\ LET r == Head(inbox[c])
     IN  /\ \/ \E what \in Refusals(c, r) :
                 Respond(c, r, what) /\ UNCHANGED serving
            \/ /\ Refusals(c, r) = {}
               /\ serving' = [serving EXCEPT ![c] = r]
               /\ UNCHANGED stdout
         /\ seen' = [seen EXCEPT ![c] = @ \cup {r.id}]
  /\ inbox' = [inbox EXCEPT ![c] = Tail(@)]
  /\ UNCHANGED <<life, stdin, cancelled, initialized>>

\* A handler returns a result or raises; initialize does so before or, when
\* the capabilities cannot be told, after it has accepted the handshake.
Complete(c, what) ==
  /\ Alive(c) /\ serving[c] # Nothing
  /\ IF serving[c].method = "initialize"
     THEN \E accepted \in BOOLEAN :
            /\ what = "result" => accepted /\ ~initialized[c]
            /\ initialized' = [initialized EXCEPT ![c] = @ \/ accepted]
     ELSE UNCHANGED initialized
  /\ Respond(c, serving[c], what)
  /\ serving' = [serving EXCEPT ![c] = Nothing]
  /\ UNCHANGED <<life, stdin, inbox, cancelled, seen>>

\* plan/apply looks for its own identifier before every operation.
Checkpoint(c) ==
  /\ Alive(c) /\ serving[c] # Nothing /\ serving[c].method = "plan/apply"
  /\ IsCancelled(c, serving[c])
  /\ Respond(c, serving[c], "cancelled")
  /\ serving' = [serving EXCEPT ![c] = Nothing]
  /\ UNCHANGED <<life, stdin, inbox, cancelled, seen, initialized>>

\* The process ends: killed, crashed, or because it has read the end of its
\* input and served its queue.  What it had written can still be read.
Die(c) ==
  /\ Alive(c)
  /\ life' = [life EXCEPT ![c] = "dead"]
  /\ stdin' = [stdin EXCEPT ![c] = <<>>]
  /\ inbox' = [inbox EXCEPT ![c] = <<>>]
  /\ cancelled' = [cancelled EXCEPT ![c] = {}]
  /\ seen' = [seen EXCEPT ![c] = {}]
  /\ initialized' = [initialized EXCEPT ![c] = FALSE]
  /\ serving' = [serving EXCEPT ![c] = Nothing]
  /\ UNCHANGED stdout

ServerStep(c) ==
  \/ ReadFrame(c) \/ Take(c) \/ Checkpoint(c)
  \/ \E what \in {"result", "error"} : Complete(c, what)
=============================================================================
