----------------------------- MODULE AtomicStore -----------------------------
(***************************************************************************)
(* What the coordination directory promises to whoever mutates it: every   *)
(* transaction takes effect at once, on all the documents it rewrites, on  *)
(* the revision and on the event log, and at most once.  Files, the        *)
(* journal of prepared transactions, the lock and dead processes do not    *)
(* show.                                                                   *)
(***************************************************************************)
EXTENDS Naturals, Sequences

CONSTANTS Docs, Txns, MaxEvents

VARIABLES
  value,      \* the transactions each document has been through
  revision,   \* number of transactions
  history     \* their events, each numbered within its transaction

Events(t, n) == [k \in 1 .. n |-> <<t, k>>]

Init ==
  /\ value = [d \in Docs |-> {}]
  /\ revision = 0
  /\ history = <<>>

Commit(t, D, n) ==
  /\ \A d \in Docs : t \notin value[d]
  /\ value' = [d \in Docs |-> IF d \in D THEN value[d] \cup {t} ELSE value[d]]
  /\ revision' = revision + 1
  /\ history' = history \o Events(t, n)

Next == \E t \in Txns, D \in SUBSET Docs, n \in 1 .. MaxEvents : Commit(t, D, n)

vars == <<value, revision, history>>
Spec == Init /\ [][Next]_vars
=============================================================================
