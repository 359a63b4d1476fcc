------------------------------- MODULE Ledger -------------------------------
(***************************************************************************)
(* The coordination directory on disk: JSON documents, an append-only      *)
(* event log, and a journal (.transactions) of prepared transactions.      *)
(*                                                                         *)
(* Every operation takes the directory's lock file, finishes what a dead   *)
(* or failed process has left prepared, reads the documents, and either    *)
(* refuses or commits: it writes the whole transaction to the journal,     *)
(* rewrites the documents one by one, appends the events one by one, and   *)
(* removes the journal file.  It may die or fail between any two of these  *)
(* writes.  A lock whose owner is dead is taken over.                      *)
(*                                                                         *)
(* A process is one incarnation (its pid together with its start time): a  *)
(* dead one does not come back.  What an operation computes is abstracted  *)
(* to which documents it rewrites and how many events it reports; a        *)
(* document's content is the set of transactions that have rewritten it,   *)
(* so that a lost or doubled update shows.                                 *)
(***************************************************************************)
EXTENDS Naturals, Sequences, FiniteSets

CONSTANTS
  Procs,      \* process incarnations that use the directory
  Docs,       \* documents other than meta.json
  Txns,       \* transaction identifiers uuid4 may hand out (bounds the commits)
  MaxEvents,  \* bound on the events of one transaction
  Nobody      \* owner of a free lock, transaction of an idle process

ASSUME LedgerAssumption ==
  /\ Nobody \notin Procs \cup Txns
  /\ "meta" \notin Docs
  /\ MaxEvents \in Nat

VARIABLES
  content,    \* the transactions each document on disk has been through
  revision,   \* the revision in meta.json
  log,        \* the events in events.jsonl, each numbered in its transaction
  tail,       \* what follows them: nothing, a fragment, or a missing newline
  wal,        \* the prepared transactions in .transactions
  lock,       \* owner named in .coordination.lock
  alive,      \* processes that have not died
  stolen,     \* history: some process has removed the lock of a living one
  pc,         \* where each process stands
  tx,         \* the transaction it commits or finishes
  todo,       \* the documents it has still to rewrite
  next        \* the number of the next event to append

diskVars == <<content, revision, log, tail, wal>>
vars == <<diskVars, lock, alive, stolen, pc, tx, todo, next>>

Finishing == {"rewrite", "replay"}
Committing == {"write", "append"}
Inside == {"recover", "operate", "leave"} \cup Finishing \cup Committing
Places == {"idle", "reclaim"} \cup Inside

Files == Docs \cup {"meta"}

\* A journal file: the documents to rewrite and their new contents, the new
\* revision, and how many events.
Records == [txn : Txns, docs : SUBSET Docs, new : [Docs -> SUBSET Txns],
            rev : Nat, events : 1 .. MaxEvents]
NoTx == [txn |-> Nobody]

Init ==
  /\ content = [d \in Docs |-> {}]
  /\ revision = 0
  /\ log = <<>>
  /\ tail = "clean"
  /\ wal = {}
  /\ lock = Nobody
  /\ alive = Procs
  /\ stolen = FALSE
  /\ pc = [p \in Procs |-> "idle"]
  /\ tx = [p \in Procs |-> NoTx]
  /\ todo = [p \in Procs |-> {}]
  /\ next = [p \in Procs |-> 1]

Goto(p, place) == pc' = [pc EXCEPT ![p] = place]

Idle(p) ==
  /\ Goto(p, "idle")
  /\ tx' = [tx EXCEPT ![p] = NoTx]
  /\ todo' = [todo EXCEPT ![p] = {}]
  /\ next' = [next EXCEPT ![p] = 1]

-----------------------------------------------------------------------------
(* _FileLock.                                                              *)

\* A hard link to the finished owner record: it fails when there is a lock,
\* unlike a rename.
Free_Overwritten == TRUE
Free == lock = Nobody

Claim(p) ==
  /\ pc[p] = "idle" /\ p \in alive
  /\ Free
  /\ lock' = p
  /\ Goto(p, "recover")
  /\ UNCHANGED <<diskVars, alive, stolen, tx, todo, next>>

\* The owner on record is dead, and on every read so far it has been the same
\* one (a dead owner's record does not come back).
Provable_Assumed(owner) == owner # Nobody
Provable(owner) == owner # Nobody /\ owner \notin alive

Suspect(p) ==
  /\ pc[p] = "idle" /\ p \in alive
  /\ Provable(lock)
  /\ Goto(p, "reclaim")
  /\ UNCHANGED <<diskVars, lock, alive, stolen, tx, todo, next>>

\* The unlink goes by name, and takes whatever lock is there by now.
Reclaim(p) ==
  /\ pc[p] = "reclaim"
  /\ lock' = Nobody
  /\ stolen' = (stolen \/ lock \in alive)
  /\ Idle(p)
  /\ UNCHANGED <<diskVars, alive>>

\* __exit__ removes the lock only when it names this process, and may have to
\* give up on that.
Release(p) == lock' \in IF lock = p THEN {Nobody, p} ELSE {lock}

Leave(p) ==
  /\ pc[p] = "leave"
  /\ Release(p)
  /\ Idle(p)
  /\ UNCHANGED <<diskVars, alive, stolen>>

-----------------------------------------------------------------------------
(* _recover_locked.                                                        *)

\* A fragment is cut off; a complete last record gets its newline.
Repaired_Not == tail
Repaired == "clean"

\* The tail is repaired, and the next prepared transaction, if any, is taken
\* up; with none left the operation proper begins.
Recover(p) ==
  /\ pc[p] = "recover"
  /\ tail' = Repaired
  /\ \/ \E w \in wal :
          /\ tx' = [tx EXCEPT ![p] = w]
          /\ todo' = [todo EXCEPT ![p] = w.docs \cup {"meta"}]
          /\ Goto(p, "rewrite")
     \/ /\ wal = {}
        /\ Goto(p, "operate")
        /\ UNCHANGED <<tx, todo>>
  /\ UNCHANGED <<content, revision, log, wal, lock, alive, stolen, next>>

\* Both recovery and commit end in removing the journal file.
Clear(p) ==
  /\ pc[p] \in {"replay", "append"}
  /\ next[p] > tx[p].events
  /\ wal' = wal \ {tx[p]}
  /\ tx' = [tx EXCEPT ![p] = NoTx]
  /\ next' = [next EXCEPT ![p] = 1]
  /\ Goto(p, IF pc[p] = "replay" THEN "recover" ELSE "leave")
  /\ UNCHANGED <<content, revision, log, tail, lock, alive, stolen, todo>>

-----------------------------------------------------------------------------
(* _atomic_transaction.                                                    *)

\* The operation reads the documents and refuses, or only reads...
Refuse(p) ==
  /\ pc[p] = "operate"
  /\ Goto(p, "leave")
  /\ UNCHANGED <<diskVars, lock, alive, stolen, tx, todo, next>>

\* ...or computes their new contents and writes them to the journal first.
Prepare(p, t, D, n) ==
  /\ pc[p] = "operate"
  /\ \A d \in Docs : t \notin content[d]
  /\ \A w \in wal : w.txn # t
  /\ \A i \in 1 .. Len(log) : log[i][1] # t
  /\ LET w == [txn |-> t, docs |-> D, rev |-> revision + 1, events |-> n,
               new |-> [d \in Docs |-> IF d \in D THEN content[d] \cup {t} ELSE {}]]
     IN  /\ wal' = wal \cup {w}
         /\ tx' = [tx EXCEPT ![p] = w]
  /\ todo' = [todo EXCEPT ![p] = D \cup {"meta"}]
  /\ Goto(p, "write")
  /\ UNCHANGED <<content, revision, log, tail, lock, alive, stolen, next>>

\* One os.replace.  A commit rewrites meta.json last, a recovery in the
\* journal's own order.
WriteFile(p, f) ==
  /\ pc[p] \in {"rewrite", "write"}
  /\ f \in todo[p]
  /\ pc[p] = "write" /\ f = "meta" => todo[p] = {"meta"}
  /\ IF f = "meta"
       THEN revision' = tx[p].rev /\ UNCHANGED content
       ELSE content' = [content EXCEPT ![f] = tx[p].new[f]] /\ UNCHANGED revision
  /\ todo' = [todo EXCEPT ![p] = @ \ {f}]
  /\ UNCHANGED <<log, tail, wal, lock, alive, stolen, pc, tx, next>>

FilesWritten(p) ==
  /\ pc[p] \in {"rewrite", "write"}
  /\ todo[p] = {}
  /\ Goto(p, IF pc[p] = "rewrite" THEN "replay" ELSE "append")
  /\ UNCHANGED <<diskVars, lock, alive, stolen, tx, todo, next>>

\* The event's identifier is already in the log.
Logged_Never(e) == FALSE
Logged(e) == \E i \in 1 .. Len(log) : log[i] = e

\* An append after a fragment is lost in it; after a record without newline
\* it takes that record with it.
Appended(boundary, e) ==
  IF boundary = "clean" THEN Append(log, e)
  ELSE IF boundary = "part" THEN log ELSE SubSeq(log, 1, Len(log) - 1)

ThisEvent(p) == <<tx[p].txn, next[p]>>
Owed(p) ==
  /\ pc[p] \in {"replay", "append"}
  /\ next[p] <= tx[p].events

\* _event repairs the tail once more.  Only a recovery looks for the
\* identifier.
AppendEvent(p) ==
  /\ Owed(p)
  /\ IF pc[p] = "replay" /\ Logged(ThisEvent(p))
       THEN UNCHANGED <<log, tail>>
       ELSE /\ log' = Appended(Repaired, ThisEvent(p))
            /\ tail' = "clean"
  /\ next' = [next EXCEPT ![p] = @ + 1]
  /\ UNCHANGED <<content, revision, wal, lock, alive, stolen, pc, tx, todo>>

-----------------------------------------------------------------------------
(* Deaths and failures.                                                    *)

\* What an append that does not end leaves: nothing, a fragment, or the
\* record without its newline.
TornAppend(p) ==
  \/ UNCHANGED <<log, tail>>
  \/ /\ Owed(p)
     /\ ~(pc[p] = "replay" /\ Logged(ThisEvent(p)))
     /\ \/ tail' = "part" /\ UNCHANGED log
        \/ tail' = "whole" /\ log' = Appended(Repaired, ThisEvent(p))

\* An OSError, or a refusal raised between two writes, leaves through the
\* lock's with block: the journal file stays.
Fail(p) ==
  /\ pc[p] \in Inside
  /\ TornAppend(p)
  /\ Release(p)
  /\ Idle(p)
  /\ UNCHANGED <<content, revision, wal, alive, stolen>>

Crash(p) ==
  /\ p \in alive
  /\ TornAppend(p)
  /\ alive' = alive \ {p}
  /\ Idle(p)
  /\ UNCHANGED <<content, revision, wal, lock, stolen>>

Operate(p) ==
  \/ Refuse(p)
  \/ \E t \in Txns, D \in SUBSET Docs, n \in 1 .. MaxEvents : Prepare(p, t, D, n)

Proceed(p) ==
  \/ Recover(p) \/ Operate(p) \/ (\E f \in Files : WriteFile(p, f))
  \/ FilesWritten(p) \/ AppendEvent(p) \/ Clear(p) \/ Leave(p)

Next ==
  \E p \in Procs :
    Claim(p) \/ Suspect(p) \/ Reclaim(p) \/ Proceed(p) \/ Fail(p) \/ Crash(p)

Spec == Init /\ [][Next]_vars

-----------------------------------------------------------------------------
\* The variables have their types, and a process has a transaction in hand
\* exactly while it commits one or finishes one.
TypeOK ==
  /\ \A p \in Procs : pc[p] \in Finishing \cup Committing <=> tx[p] # NoTx
  /\ content \in [Docs -> SUBSET Txns]
  /\ revision \in Nat
  /\ log \in Seq(Txns \X Nat)
  /\ tail \in {"clean", "part", "whole"}
  /\ \A w \in wal : w \in Records
  /\ lock \in Procs \cup {Nobody}
  /\ alive \subseteq Procs
  /\ stolen \in BOOLEAN
  /\ pc \in [Procs -> Places]
  /\ tx \in [Procs -> Records \cup {NoTx}]
  /\ todo \in [Procs -> SUBSET Files]
  /\ next \in [Procs -> Nat]

\* Two processes are never inside the directory at once, and whoever is inside
\* owns the lock: as long as nobody has died, and after deaths as long as no
\* lock of a living process has been taken away.
OneInside ==
  alive = Procs \/ ~stolen =>
    \A p \in Procs : pc[p] \in Inside => lock = p

\* _ensure_locked: recovery cannot be bypassed.  Whoever comes to read the
\* documents finds nothing prepared and a log that ends in a whole line.
NothingBypassed ==
  ~stolen => \A p \in Procs : pc[p] = "operate" => wal = {} /\ tail = "clean"

\* The documents, the revision and the log as the journal completes them.
Pending == CHOOSE w \in wal : TRUE
LoggedUpTo(w) ==
  CHOOSE m \in 0 .. w.events :
    \A k \in 1 .. w.events : Logged(<<w.txn, k>>) <=> k <= m
Rest(w) == [k \in 1 .. w.events - LoggedUpTo(w) |-> <<w.txn, LoggedUpTo(w) + k>>]

Value == IF wal = {} THEN content
         ELSE [d \in Docs |-> IF d \in Pending.docs THEN Pending.new[d]
                                             ELSE content[d]]
Revision == IF wal = {} THEN revision ELSE Pending.rev
History == IF wal = {} THEN log ELSE log \o Rest(Pending)

Store == INSTANCE AtomicStore
           WITH value <- Value, revision <- Revision, history <- History

\* The journal makes several files one: whatever dies between two writes, and
\* however often a recovery is cut short itself, each transaction takes effect
\* at once and once, with its events in order; until a lock is stolen.
AtomicUnlessStolen == Store!Init /\ [][stolen' \/ Store!Next]_Store!vars

\* The comment in _unlink_if_token: re-reading the token before every unlink,
\* a retry can never delete a newly claimed lock.
NeverStolen == ~stolen
=============================================================================
