------------------------------ MODULE EventLog ------------------------------
(***************************************************************************)
(* A session's events.jsonl: any number of processes append to it, nobody  *)
(* allocates sequence numbers, and a line's index is its sequence.         *)
(*                                                                         *)
(* A terminated line either parses or is wreckage (bad); at most one       *)
(* unterminated line follows them, of which a reader sees nothing, a part, *)
(* or all but the newline.  The bytes of one append go out in one write,   *)
(* which other appends do not interleave with; a reader may see it half    *)
(* done, and the writer may die in the middle of it.                       *)
(***************************************************************************)
EXTENDS Integers, FiniteSets

CONSTANTS
  Writers,   \* processes that append to the stream
  MaxLines,  \* bound on the number of lines
  Nobody     \* holder of a free lock

ASSUME LogAssumption == MaxLines \in Nat /\ Nobody \notin Writers

VARIABLES
  size,      \* terminated lines
  bad,       \* indexes of terminated lines that do not parse
  tail,      \* what is visible of an unterminated last line
  guard,     \* holder of events.jsonl.lock
  wpc,       \* where each writer stands
  prefix,    \* whether it found a torn boundary to repair first
  glued,     \* its bytes have joined an unterminated line
  landed,    \* history: indexes of the appends that completed
  raced      \* history: some append went ahead without the lock

logVars == <<size, bad, tail, guard, wpc, prefix, glued, landed, raced>>

WriterPlaces == {"idle", "write", "written"}
Tails        == {"none", "part", "whole"}

LogInit ==
  /\ size = 0
  /\ bad = {}
  /\ tail = "none"
  /\ guard = Nobody
  /\ wpc = [w \in Writers |-> "idle"]
  /\ prefix = [w \in Writers |-> FALSE]
  /\ glued = [w \in Writers |-> FALSE]
  /\ landed = {}
  /\ raced = FALSE

\* read_events: an unterminated line that happens to parse is an event too.
Readable(i) == (i < size /\ i \notin bad) \/ (i = size /\ tail = "whole")

-----------------------------------------------------------------------------
(* append_event.                                                           *)

WriterGoto(w, place) == wpc' = [wpc EXCEPT ![w] = place]

\* Is the last byte of the file something else than a newline?
TornBoundary_Ignored == FALSE
TornBoundary == tail # "none"

\* The lock of the sibling file is waited for; when the operating system
\* refuses it, the append goes ahead without.  The last byte is probed right
\* after.
Begin(w) ==
  /\ wpc[w] = "idle"
  /\ size < MaxLines
  /\ \/ guard = Nobody /\ guard' = w /\ UNCHANGED raced
     \/ raced' = TRUE /\ UNCHANGED guard
  /\ prefix' = [prefix EXCEPT ![w] = TornBoundary]
  /\ WriterGoto(w, "write")
  /\ UNCHANGED <<size, bad, tail, glued, landed>>

\* The write begins: the prefix ends whatever line is there, and some of the
\* new line becomes visible.  Without a prefix the bytes continue a torn line.
Write(w) ==
  /\ wpc[w] = "write"
  /\ \A v \in Writers : wpc[v] # "written"
  /\ WriterGoto(w, "written")
  /\ IF prefix[w]
       THEN /\ size' = size + 1
            /\ bad' = IF tail = "whole" THEN bad ELSE bad \cup {size}
            /\ tail' \in Tails
            /\ UNCHANGED glued
       ELSE /\ glued' = [glued EXCEPT ![w] = tail # "none"]
            /\ tail' \in IF tail = "none" THEN Tails ELSE {"part"}
            /\ UNCHANGED <<size, bad>>
  /\ UNCHANGED <<guard, prefix, landed, raced>>

Leave(w) ==
  /\ WriterGoto(w, "idle")
  /\ prefix' = [prefix EXCEPT ![w] = FALSE]
  /\ glued' = [glued EXCEPT ![w] = FALSE]
  /\ guard' = IF guard = w THEN Nobody ELSE guard

\* The write ends with its newline; the lock is dropped.
Landed(w) ==
  /\ wpc[w] = "written"
  /\ size' = size + 1
  /\ bad' = IF glued[w] THEN bad \cup {size} ELSE bad
  /\ tail' = "none"
  /\ landed' = landed \cup {size}
  /\ Leave(w)
  /\ UNCHANGED raced

\* The process dies, or the write ends in an OSError, which append_event
\* swallows: what was visible of the line stays.
Torn(w) ==
  /\ wpc[w] # "idle"
  /\ Leave(w)
  /\ UNCHANGED <<size, bad, tail, landed, raced>>

LogNext == \E w \in Writers : Begin(w) \/ Write(w) \/ Landed(w) \/ Torn(w)

-----------------------------------------------------------------------------
FileTypeOK ==
  /\ size \in Nat
  /\ bad \subseteq Nat
  /\ landed \subseteq Nat
  /\ \A i \in bad \cup landed : i < size
  /\ tail \in Tails

WriterTypeOK ==
  /\ guard \in Writers \cup {Nobody}
  /\ wpc \in [Writers -> WriterPlaces]
  /\ prefix \in [Writers -> BOOLEAN]
  /\ glued \in [Writers -> BOOLEAN]
  /\ raced \in BOOLEAN

LogTypeOK == FileTypeOK /\ WriterTypeOK

\* As long as every append got the lock, none is lost: whoever died in the
\* middle of a line before it, a completed append has a line of its own and
\* keeps it.
AppendsSurvive == ~raced => landed \cap bad = {}
=============================================================================
