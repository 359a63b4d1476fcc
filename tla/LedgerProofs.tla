---------------------------- MODULE LedgerProofs ----------------------------
(***************************************************************************)
(* Theorems of Ledger, for any number of processes, documents and          *)
(* transactions.  What the directory promises holds until the lock of a    *)
(* living process is removed; Safe is the invariant up to then.            *)
(***************************************************************************)
EXTENDS Ledger, SequenceTheorems, TLAPS

USE LedgerAssumption DEF Finishing, Committing, Inside, Places, Files

\* A process that is anywhere is alive, and a lock can only be removed, its owner
\* dead or alive, once somebody has died.
Deaths ==
  /\ \A p \in Procs : pc[p] # "idle" => p \in alive
  /\ alive = Procs => ~stolen /\ \A p \in Procs : pc[p] # "reclaim"

Owner == \A p \in Procs : pc[p] \in Inside => lock = p

Busy == Finishing \cup Committing

\* Of w's events the first m, and no others, are in the log.
Prefix(w, m) ==
  /\ m \in 0 .. w.events
  /\ \A k \in 1 .. w.events : Logged(<<w.txn, k>>) <=> k <= m

\* At most one transaction is prepared, and part of it is in the log.
Journal ==
  /\ \A v, w \in wal : v = w
  /\ \A w \in wal : \E m \in 0 .. w.events : Prefix(w, m)

\* What a process at work on the prepared transaction has done already.
Written(p) ==
  /\ tx[p] \in wal
  /\ todo[p] \subseteq tx[p].docs \cup {"meta"}
  /\ \A d \in tx[p].docs \ todo[p] : content[d] = tx[p].new[d]
  /\ "meta" \notin todo[p] => revision = tx[p].rev

Progress(p) ==
  /\ pc[p] \in Busy => Written(p)
  /\ pc[p] \in {"replay", "append"} => todo[p] = {} /\ next[p] # 0
  /\ pc[p] \notin {"replay", "append"} => next[p] = 1
  /\ pc[p] = "write" => Prefix(tx[p], 0)
  /\ pc[p] = "append" => Prefix(tx[p], next[p] - 1)
  /\ pc[p] = "replay" => \E m \in 0 .. tx[p].events : Prefix(tx[p], m) /\ next[p] <= m + 1
  /\ pc[p] = "operate" => wal = {} /\ tail = "clean"

Safe == Owner /\ Journal /\ \A p \in Procs : Progress(p)

Inv == TypeOK /\ Deaths /\ (~stolen => Safe)

LEMMA InitInv == Init => Inv
<1> SUFFICES ASSUME Init PROVE Inv
  OBVIOUS
<1>1. TypeOK
  <2>1. log \in Seq(Txns \X Nat)
    BY EmptySeq DEF Init
  <2>2. \A p \in Procs : pc[p] \in Busy <=> tx[p] # NoTx
    BY DEF Init, Busy
  <2>3. /\ tx \in [Procs -> Records \cup {NoTx}]
        /\ todo \in [Procs -> SUBSET Files]
        /\ content \in [Docs -> SUBSET Txns]
        /\ next \in [Procs -> Nat]
        /\ pc \in [Procs -> Places]
    BY DEF Init
  <2>4. /\ revision \in Nat
        /\ tail \in {"clean", "part", "whole"}
        /\ \A w \in wal : w \in Records
        /\ lock \in Procs \cup {Nobody}
        /\ alive \subseteq Procs
        /\ stolen \in BOOLEAN
    BY DEF Init
  <2> QED BY <2>1, <2>2, <2>3, <2>4 DEF TypeOK, Busy
<1>2. Deaths
  BY DEF Init, Deaths
<1>3. Safe
  BY SMTT(30) DEF Init, Safe, Owner, Journal, Progress, Busy
<1> QED BY <1>1, <1>2, <1>3 DEF Inv

-----------------------------------------------------------------------------
(* Types.                                                                  *)

LEMMA RecordTx ==
  ASSUME TypeOK, NEW p \in Procs, pc[p] \in Busy
  PROVE  tx[p] \in Records
  BY DEF TypeOK, Busy

LEMMA TornTypes ==
  ASSUME TypeOK, NEW p \in Procs, TornAppend(p)
  PROVE  log' \in Seq(Txns \X Nat) /\ tail' \in {"clean", "part", "whole"}
<1>1. log \in Seq(Txns \X Nat) /\ tail \in {"clean", "part", "whole"}
  BY DEF TypeOK
<1>2. ASSUME Owed(p), log' = Appended(Repaired, ThisEvent(p))
      PROVE  log' \in Seq(Txns \X Nat)
  <2>1. tx[p] \in Records
    BY <1>2, RecordTx DEF Owed, Busy
  <2>2. ThisEvent(p) \in Txns \X Nat
    BY <2>1 DEF ThisEvent, TypeOK, Records
  <2> QED BY <1>1, <1>2, <2>2 DEF Appended, Repaired
<1> QED BY <1>1, <1>2 DEF TornAppend

LEMMA IdleTypes ==
  ASSUME TypeOK, NEW p \in Procs, Idle(p)
  PROVE  /\ pc' \in [Procs -> Places]
         /\ tx' \in [Procs -> Records \cup {NoTx}]
         /\ todo' \in [Procs -> SUBSET Files]
         /\ next' \in [Procs -> Nat]
         /\ \A q \in Procs : pc'[q] \in Busy <=> tx'[q] # NoTx
  BY SMTT(30) DEF TypeOK, Idle, Goto, Busy

LEMMA StepTypes == TypeOK /\ [Next]_vars => TypeOK'
<1> SUFFICES ASSUME TypeOK, [Next]_vars PROVE TypeOK'
  OBVIOUS
<1>1. ASSUME NEW p \in Procs, Claim(p) PROVE TypeOK'
  BY <1>1, SMTT(30) DEF TypeOK, Claim, Goto, diskVars
<1>2. ASSUME NEW p \in Procs, Suspect(p) PROVE TypeOK'
  BY <1>2, SMTT(30) DEF TypeOK, Suspect, Goto, diskVars
<1>3. ASSUME NEW p \in Procs, Reclaim(p) PROVE TypeOK'
  BY <1>3, IdleTypes, SMTT(30) DEF TypeOK, Reclaim, Busy, diskVars
<1>4. ASSUME NEW p \in Procs, Leave(p) PROVE TypeOK'
  BY <1>4, IdleTypes, SMTT(30) DEF TypeOK, Leave, Release, Busy, diskVars
<1>5. ASSUME NEW p \in Procs, Recover(p) PROVE TypeOK'
  <2>1. CASE wal = {} /\ Goto(p, "operate") /\ UNCHANGED <<tx, todo>>
    BY <1>5, <2>1, SMTT(30) DEF TypeOK, Recover, Goto, Repaired
  <2>2. ASSUME NEW w \in wal, tx' = [tx EXCEPT ![p] = w],
               todo' = [todo EXCEPT ![p] = w.docs \cup {"meta"}], Goto(p, "rewrite")
        PROVE  TypeOK'
    <3>1. w \in Records /\ w # NoTx /\ w.docs \subseteq Docs
      BY DEF TypeOK, Records, NoTx
    <3> QED BY <1>5, <2>2, <3>1, SMTT(30) DEF TypeOK, Recover, Goto, Repaired
  <2> QED BY <1>5, <2>1, <2>2 DEF Recover
<1>6. ASSUME NEW p \in Procs, Refuse(p) PROVE TypeOK'
  BY <1>6, SMTT(30) DEF TypeOK, Refuse, Goto, diskVars
<1>7. ASSUME NEW p \in Procs, NEW t \in Txns, NEW D \in SUBSET Docs,
             NEW n \in 1 .. MaxEvents, Prepare(p, t, D, n)
      PROVE  TypeOK'
  <2> DEFINE w == [txn |-> t, docs |-> D, rev |-> revision + 1, events |-> n,
                   new |-> [d \in Docs |-> IF d \in D THEN content[d] \cup {t} ELSE {}]]
  <2>1. w \in Records /\ w # NoTx
    BY SMTT(30) DEF TypeOK, Records, NoTx
  <2>2. wal' = wal \cup {w} /\ tx' = [tx EXCEPT ![p] = w]
    BY <1>7 DEF Prepare
  <2> HIDE DEF w
  <2>3. /\ todo' = [todo EXCEPT ![p] = D \cup {"meta"}]
        /\ pc' = [pc EXCEPT ![p] = "write"]
        /\ UNCHANGED <<content, revision, log, tail, lock, alive, stolen, next>>
    BY <1>7 DEF Prepare, Goto
  <2>4. /\ \A v \in wal' : v \in Records
        /\ tx' \in [Procs -> Records \cup {NoTx}]
    BY <2>1, <2>2 DEF TypeOK
  <2>5. /\ todo' \in [Procs -> SUBSET Files]
        /\ pc' \in [Procs -> Places]
    BY <2>3 DEF TypeOK
  <2>6. \A q \in Procs : pc'[q] \in Busy <=> tx'[q] # NoTx
    <3>1. \A q \in Procs : q # p => pc'[q] = pc[q] /\ tx'[q] = tx[q]
      BY <2>2, <2>3 DEF TypeOK
    <3>2. pc'[p] = "write" /\ tx'[p] = w
      BY <2>2, <2>3 DEF TypeOK
    <3> QED BY <2>1, <3>1, <3>2 DEF TypeOK, Busy
  <2>7. /\ content' \in [Docs -> SUBSET Txns] /\ revision' \in Nat
        /\ log' \in Seq(Txns \X Nat) /\ tail' \in {"clean", "part", "whole"}
        /\ lock' \in Procs \cup {Nobody} /\ alive' \subseteq Procs
        /\ stolen' \in BOOLEAN /\ next' \in [Procs -> Nat]
    BY <2>3 DEF TypeOK
  <2> QED BY <2>4, <2>5, <2>6, <2>7 DEF TypeOK, Busy
<1>8. ASSUME NEW p \in Procs, NEW f \in Files, WriteFile(p, f) PROVE TypeOK'
  <2>1. tx[p] \in Records
    BY <1>8, RecordTx DEF WriteFile, Busy
  <2>2. tx[p].rev \in Nat /\ tx[p].new \in [Docs -> SUBSET Txns]
    BY <2>1 DEF Records
  <2>3. revision' \in Nat /\ content' \in [Docs -> SUBSET Txns]
    BY <1>8, <2>2 DEF TypeOK, WriteFile
  <2>4. todo' \in [Procs -> SUBSET Files]
    BY <1>8 DEF TypeOK, WriteFile
  <2>5. UNCHANGED <<log, tail, wal, lock, alive, stolen, pc, tx, next>>
    BY <1>8 DEF WriteFile
  <2> QED BY <2>3, <2>4, <2>5 DEF TypeOK
<1>9. ASSUME NEW p \in Procs, FilesWritten(p) PROVE TypeOK'
  BY <1>9, SMTT(30) DEF TypeOK, FilesWritten, Goto, diskVars
<1>10. ASSUME NEW p \in Procs, AppendEvent(p) PROVE TypeOK'
  <2>1. tx[p] \in Records
    BY <1>10, RecordTx DEF AppendEvent, Owed, Busy
  <2>2. ThisEvent(p) \in Txns \X Nat
    BY <2>1 DEF ThisEvent, TypeOK, Records
  <2>3. log' \in Seq(Txns \X Nat)
    <3>1. log \in Seq(Txns \X Nat)
      BY DEF TypeOK
    <3>2. log' = log \/ log' = Append(log, ThisEvent(p))
      BY <1>10 DEF AppendEvent, Appended, Repaired
    <3> QED BY <2>2, <3>1, <3>2, AppendProperties
  <2> QED BY <1>10, <2>3, SMTT(30) DEF TypeOK, AppendEvent
<1>11. ASSUME NEW p \in Procs, Clear(p) PROVE TypeOK'
  BY <1>11, SMTT(30) DEF TypeOK, Clear, Goto
<1>12. ASSUME NEW p \in Procs, Fail(p) PROVE TypeOK'
  BY <1>12, TornTypes, IdleTypes, SMTT(30) DEF TypeOK, Fail, Release, Busy
<1>13. ASSUME NEW p \in Procs, Crash(p) PROVE TypeOK'
  BY <1>13, TornTypes, IdleTypes, SMTT(30) DEF TypeOK, Crash, Busy
<1>14. CASE UNCHANGED vars
  BY <1>14 DEF TypeOK, vars, diskVars
<1> QED BY <1>1, <1>2, <1>3, <1>4, <1>5, <1>6, <1>7, <1>8, <1>9, <1>10, <1>11,
           <1>12, <1>13, <1>14 DEF Next, Proceed, Operate

-----------------------------------------------------------------------------
(* The lock.                                                               *)

LEMMA StepDeaths == TypeOK /\ Deaths /\ [Next]_vars => Deaths'
<1> SUFFICES ASSUME TypeOK, Deaths, [Next]_vars PROVE Deaths'
  OBVIOUS
<1>0. pc \in [Procs -> Places] /\ alive \subseteq Procs /\ lock \in Procs \cup {Nobody}
  BY DEF TypeOK
<1>1. ASSUME NEW p \in Procs, Claim(p) PROVE Deaths'
  BY <1>0, <1>1 DEF Deaths, Claim, Goto
<1>2. ASSUME NEW p \in Procs, Suspect(p) PROVE Deaths'
  BY <1>0, <1>2 DEF Deaths, Suspect, Provable, Goto
<1>3. ASSUME NEW p \in Procs, Reclaim(p) PROVE Deaths'
  BY <1>0, <1>3 DEF Deaths, Reclaim, Idle, Goto
<1>4. ASSUME NEW p \in Procs, Proceed(p) PROVE Deaths'
  <2>1. /\ pc[p] # "idle"
        /\ alive' = alive /\ stolen' = stolen
        /\ \E place \in Places \ {"reclaim"} : pc' = [pc EXCEPT ![p] = place]
    <3>1. CASE Recover(p)
      BY <3>1 DEF Recover, Goto
    <3>2. CASE Operate(p)
      BY <3>2 DEF Operate, Refuse, Prepare, Goto
    <3>3. ASSUME NEW f \in Files, WriteFile(p, f)
          PROVE  <2>1!:
      BY <1>0, <3>3 DEF WriteFile
    <3>4. CASE FilesWritten(p)
      BY <3>4 DEF FilesWritten, Goto
    <3>5. CASE AppendEvent(p)
      BY <1>0, <3>5 DEF AppendEvent, Owed
    <3>6. CASE Clear(p)
      BY <3>6 DEF Clear, Goto
    <3>7. CASE Leave(p)
      BY <3>7 DEF Leave, Idle, Goto
    <3> QED BY <1>4, <3>1, <3>2, <3>3, <3>4, <3>5, <3>6, <3>7 DEF Proceed
  <2> QED BY <1>0, <2>1 DEF Deaths
<1>5. ASSUME NEW p \in Procs, Fail(p) PROVE Deaths'
  BY <1>0, <1>5 DEF Deaths, Fail, Idle, Goto
<1>6. ASSUME NEW p \in Procs, Crash(p) PROVE Deaths'
  BY <1>0, <1>6 DEF Deaths, Crash, Idle, Goto
<1>7. CASE UNCHANGED vars
  BY <1>7 DEF Deaths, vars
<1> QED BY <1>1, <1>2, <1>3, <1>4, <1>5, <1>6, <1>7 DEF Next

LEMMA StepOwner == TypeOK /\ Deaths /\ Owner /\ ~stolen' /\ [Next]_vars => Owner'
<1> SUFFICES ASSUME TypeOK, Deaths, Owner, ~stolen', [Next]_vars PROVE Owner'
  OBVIOUS
<1>0. pc \in [Procs -> Places] /\ lock \in Procs \cup {Nobody}
  BY DEF TypeOK
<1>1. ASSUME NEW p \in Procs, Claim(p) PROVE Owner'
  BY <1>0, <1>1 DEF Owner, Claim, Free, Goto
<1>2. ASSUME NEW p \in Procs, Suspect(p) PROVE Owner'
  BY <1>0, <1>2 DEF Owner, Suspect, Goto
<1>3. ASSUME NEW p \in Procs, Reclaim(p) PROVE Owner'
  BY <1>0, <1>3 DEF Owner, Deaths, Reclaim, Idle, Goto
<1>4. ASSUME NEW p \in Procs, Proceed(p) PROVE Owner'
  <2>1. /\ pc[p] \in Inside
        /\ \/ lock' = lock /\ \E place \in Places : pc' = [pc EXCEPT ![p] = place]
           \/ Release(p) /\ pc' = [pc EXCEPT ![p] = "idle"]
    <3>1. CASE Recover(p)
      BY <3>1 DEF Recover, Goto
    <3>2. CASE Operate(p)
      BY <3>2 DEF Operate, Refuse, Prepare, Goto
    <3>3. ASSUME NEW f \in Files, WriteFile(p, f)
          PROVE  <2>1!:
      BY <1>0, <3>3 DEF WriteFile
    <3>4. CASE FilesWritten(p)
      BY <3>4 DEF FilesWritten, Goto
    <3>5. CASE AppendEvent(p)
      BY <1>0, <3>5 DEF AppendEvent, Owed
    <3>6. CASE Clear(p)
      BY <3>6 DEF Clear, Goto
    <3>7. CASE Leave(p)
      BY <3>7 DEF Leave, Idle, Goto
    <3> QED BY <1>4, <3>1, <3>2, <3>3, <3>4, <3>5, <3>6, <3>7 DEF Proceed
  <2> QED BY <1>0, <2>1 DEF Owner, Release
<1>5. ASSUME NEW p \in Procs, Fail(p) PROVE Owner'
  BY <1>0, <1>5 DEF Owner, Fail, Release, Idle, Goto
<1>6. ASSUME NEW p \in Procs, Crash(p) PROVE Owner'
  BY <1>0, <1>6 DEF Owner, Crash, Idle, Goto
<1>7. CASE UNCHANGED vars
  BY <1>7 DEF Owner, vars
<1> QED BY <1>1, <1>2, <1>3, <1>4, <1>5, <1>6, <1>7 DEF Next

-----------------------------------------------------------------------------
(* The journal.                                                            *)

LEMMA PrefixUnique ==
  ASSUME NEW w \in Records, NEW m, NEW n, Prefix(w, m), Prefix(w, n)
  PROVE  m = n
<1>1. w.events \in Nat
  BY DEF Records
<1>2. ~(m < n)
  <2>1. m < n => n \in 1 .. w.events /\ ~(n <= m) /\ n <= n
    BY <1>1 DEF Prefix
  <2> QED BY <2>1 DEF Prefix
<1>3. ~(n < m)
  <2>1. n < m => m \in 1 .. w.events /\ ~(m <= n) /\ m <= m
    BY <1>1 DEF Prefix
  <2> QED BY <2>1 DEF Prefix
<1> QED BY <1>1, <1>2, <1>3 DEF Prefix

LEMMA SameLog ==
  ASSUME NEW w \in Records, NEW m, log' = log
  PROVE  Prefix(w, m)' <=> Prefix(w, m)
  BY DEF Prefix, Logged

\* An appended event is in the log, next to all that was there.
LEMMA AppendLogs ==
  ASSUME TypeOK, NEW e \in Txns \X Nat, log' = Append(log, e), NEW x
  PROVE  Logged(x)' <=> Logged(x) \/ x = e
<1>1. log \in Seq(Txns \X Nat)
  BY DEF TypeOK
<1>2. /\ Len(log') = Len(log) + 1
      /\ \A i \in 1 .. Len(log) : log'[i] = log[i]
      /\ log'[Len(log) + 1] = e
      /\ Len(log) \in Nat
  BY <1>1, AppendProperties
<1>3. ASSUME NEW i \in 1 .. Len(log'), log'[i] = x PROVE Logged(x) \/ x = e
  <2>1. i \in 1 .. Len(log) \/ i = Len(log) + 1
    BY <1>2
  <2> QED BY <1>2, <1>3, <2>1 DEF Logged
<1>4. ASSUME Logged(x) \/ x = e PROVE \E i \in 1 .. Len(log') : log'[i] = x
  <2>1. CASE x = e
    <3>1. Len(log) + 1 \in 1 .. Len(log')
      BY <1>2
    <3> QED BY <1>2, <2>1, <3>1
  <2>2. ASSUME NEW i \in 1 .. Len(log), log[i] = x
        PROVE  \E j \in 1 .. Len(log') : log'[j] = x
    <3>1. i \in 1 .. Len(log')
      BY <1>2
    <3> QED BY <1>2, <2>2, <3>1
  <2> QED BY <1>4, <2>1, <2>2 DEF Logged
<1> QED BY <1>3, <1>4 DEF Logged

LEMMA AppendPrefix ==
  ASSUME TypeOK, NEW w \in Records, NEW m \in Nat, m + 1 <= w.events, Prefix(w, m),
         log' = Append(log, <<w.txn, m + 1>>)
  PROVE  Prefix(w, m + 1)'
<1>1. <<w.txn, m + 1>> \in Txns \X Nat /\ w.events \in Nat
  BY LedgerAssumption DEF Records
<1>2. \A k \in 1 .. w.events : Logged(<<w.txn, k>>)' <=> Logged(<<w.txn, k>>) \/ k = m + 1
  <2> TAKE k \in 1 .. w.events
  <2>1. Logged(<<w.txn, k>>)' <=> Logged(<<w.txn, k>>) \/ <<w.txn, k>> = <<w.txn, m + 1>>
    BY <1>1, AppendLogs
  <2> QED BY <2>1
<1>3. \A k \in 1 .. w.events : Logged(<<w.txn, k>>) <=> k <= m
  BY DEF Prefix
<1>4. \A k \in 1 .. w.events : k <= m + 1 <=> k <= m \/ k = m + 1
  BY <1>1
<1>5. \A k \in 1 .. w.events : Logged(<<w.txn, k>>)' <=> k <= m + 1
  BY <1>2, <1>3, <1>4
<1>6. m + 1 \in 0 .. w.events
  BY <1>1
<1> QED BY <1>5, <1>6 DEF Prefix

\* What the event a process owes stands for: it is the first of its transaction
\* that is not in the log.
LEMMA Owing ==
  ASSUME TypeOK, NEW p \in Procs, Progress(p), Owed(p),
         ~(pc[p] = "replay" /\ Logged(ThisEvent(p)))
  PROVE  /\ tx[p] \in Records /\ tx[p] \in wal
         /\ next[p] - 1 \in Nat
         /\ next[p] <= tx[p].events
         /\ Prefix(tx[p], next[p] - 1)
<1>1. tx[p] \in Records /\ next[p] \in Nat /\ pc[p] \in Busy
  BY RecordTx DEF Owed, Busy, TypeOK
<1>2. tx[p] \in wal
  BY <1>1 DEF Progress, Written
<1>3. next[p] <= tx[p].events
  BY DEF Owed
<1>4. CASE pc[p] = "append"
  <2>1. Prefix(tx[p], next[p] - 1)
    BY <1>4 DEF Progress
  <2> QED BY <1>1, <1>2, <1>3, <2>1 DEF Prefix
<1>5. CASE pc[p] = "replay"
  <2>1. PICK m \in 0 .. tx[p].events : Prefix(tx[p], m) /\ next[p] <= m + 1
    BY <1>5 DEF Progress
  <2>2. ~Logged(<<tx[p].txn, next[p]>>)
    BY <1>5 DEF ThisEvent
  <2>3. tx[p].events \in Nat
    BY <1>1, LedgerAssumption DEF Records
  <2>4. next[p] # 0
    BY <1>5 DEF Progress
  <2>5. next[p] = m + 1
    BY <1>1, <1>3, <2>1, <2>2, <2>3, <2>4 DEF Prefix
  <2>6. next[p] - 1 = m
    BY <2>1, <2>3, <2>5
  <2> QED BY <1>1, <1>2, <1>3, <2>1, <2>6
<1> QED BY <1>4, <1>5 DEF Owed

-----------------------------------------------------------------------------
(* What the process inside does to the journal.                            *)

\* The processes that are not inside hold nothing that could be disturbed.
LEMMA Others ==
  ASSUME TypeOK, Owner, NEW p \in Procs, pc[p] \in Inside,
         NEW q \in Procs, q # p, Progress(q), pc'[q] = pc[q], next'[q] = next[q]
  PROVE  Progress(q)'
<1>1. pc[q] \notin Inside
  BY DEF Owner
<1> QED BY <1>1 DEF Progress, Busy

\* A process that has let go has nothing in hand.
LEMMA LetGo ==
  ASSUME TypeOK, NEW p \in Procs, Idle(p)
  PROVE  Progress(p)'
  BY DEF TypeOK, Idle, Goto, Progress, Busy

\* As long as the disk and the process stay as they are, so does its progress.
LEMMA Undisturbed ==
  ASSUME NEW q \in Procs, Progress(q), UNCHANGED diskVars,
         pc'[q] = pc[q], tx'[q] = tx[q], todo'[q] = todo[q], next'[q] = next[q]
  PROVE  Progress(q)'
<1>1. \A w, m : Prefix(w, m)' <=> Prefix(w, m)
  BY DEF Prefix, Logged, diskVars
<1>2. Written(q) => Written(q)'
  BY DEF Written, diskVars
<1>3. (\E m \in 0 .. tx[q].events : Prefix(tx[q], m) /\ next[q] <= m + 1) =>
      (\E m \in 0 .. tx[q].events : Prefix(tx[q], m) /\ next[q] <= m + 1)'
  BY <1>1
<1>4. /\ Prefix(tx[q], 0) => Prefix(tx[q], 0)'
      /\ Prefix(tx[q], next[q] - 1) => Prefix(tx[q], next[q] - 1)'
  BY <1>1
<1> QED BY <1>2, <1>3, <1>4 DEF Progress, diskVars

LEMMA SameJournal ==
  ASSUME TypeOK, Journal, wal' \subseteq wal, log' = log
  PROVE  Journal'
<1>1. \A w \in wal : w \in Records
  BY DEF TypeOK
<1>2. ASSUME NEW w \in wal' PROVE (\E m \in 0 .. w.events : Prefix(w, m))'
  <2>1. PICK m \in 0 .. w.events : Prefix(w, m)
    BY DEF Journal
  <2>2. Prefix(w, m)'
    BY <1>1, <2>1, SameLog
  <2> QED BY <2>1, <2>2
<1> QED BY <1>2 DEF Journal

\* One more event of the prepared transaction is in the log.
LEMMA MoreJournal ==
  ASSUME TypeOK, Journal, NEW w \in wal, NEW m \in Nat, wal' = wal, Prefix(w, m)'
  PROVE  Journal'
<1>1. \A v \in wal : v = w
  BY DEF Journal
<1>2. m \in 0 .. w.events
  BY DEF Prefix
<1> QED BY <1>1, <1>2 DEF Journal

\* A torn append leaves the journal with the event, or without.
LEMMA TornJournal ==
  ASSUME TypeOK, Journal, NEW p \in Procs, Progress(p), TornAppend(p), wal' = wal
  PROVE  Journal'
<1>1. CASE log' = log
  BY <1>1, SameJournal
<1>2. CASE log' # log
  <2>1. /\ Owed(p)
        /\ ~(pc[p] = "replay" /\ Logged(ThisEvent(p)))
        /\ log' = Append(log, ThisEvent(p))
    BY <1>2 DEF TornAppend, Appended, Repaired
  <2>2. /\ tx[p] \in Records /\ tx[p] \in wal
        /\ next[p] - 1 \in Nat
        /\ next[p] <= tx[p].events
        /\ Prefix(tx[p], next[p] - 1)
    BY <2>1, Owing
  <2> DEFINE m == next[p] - 1
  <2>3. m \in Nat /\ m + 1 = next[p]
    BY <2>2 DEF TypeOK
  <2> HIDE DEF m
  <2>4. PICK w \in wal : w = tx[p]
    BY <2>2
  <2>5. w \in Records /\ Prefix(w, m) /\ m + 1 <= w.events
    BY <2>2, <2>3, <2>4 DEF m
  <2>6. log' = Append(log, <<w.txn, m + 1>>)
    BY <2>1, <2>3, <2>4 DEF ThisEvent
  <2>7. PICK n \in Nat : n = m
    BY <2>3
  <2>8. Prefix(w, n + 1)'
    BY <2>5, <2>6, <2>7, AppendPrefix
  <2> QED BY <2>7, <2>8, MoreJournal
<1> QED BY <1>1, <1>2

\* What is left to say of a step of the process inside: its own progress.
LEMMA Suffices ==
  ASSUME TypeOK, Safe, NEW p \in Procs, pc[p] \in Inside, Progress(p)',
         \A q \in Procs : q # p => pc'[q] = pc[q] /\ next'[q] = next[q]
  PROVE  \A q \in Procs : Progress(q)'
  BY Others DEF Safe

LEMMA RecoverSafe ==
  ASSUME TypeOK, Safe, NEW p \in Procs, Recover(p)
  PROVE  Journal' /\ \A q \in Procs : Progress(q)'
<1>1. Journal'
  BY SameJournal DEF Recover, Safe
<1>2. Progress(p)
  BY DEF Safe
<1>3. Progress(p)'
  <2>1. ASSUME NEW w \in wal, tx' = [tx EXCEPT ![p] = w],
               todo' = [todo EXCEPT ![p] = w.docs \cup {"meta"}], Goto(p, "rewrite")
        PROVE  Progress(p)'
    <3>1. /\ pc'[p] = "rewrite" /\ tx'[p] = w /\ todo'[p] = w.docs \cup {"meta"}
          /\ next'[p] = next[p] /\ wal' = wal /\ next[p] = 1
      BY <1>2, <2>1 DEF TypeOK, Goto, Recover, Progress
    <3>2. Written(p)'
      BY <3>1 DEF Written
    <3> QED BY <3>1, <3>2 DEF Progress
  <2>2. CASE wal = {} /\ Goto(p, "operate") /\ UNCHANGED <<tx, todo>>
    <3>1. /\ pc'[p] = "operate" /\ next'[p] = next[p] /\ next[p] = 1
          /\ wal' = {} /\ tail' = "clean"
      BY <1>2, <2>2 DEF TypeOK, Goto, Recover, Repaired, Progress
    <3> QED BY <3>1 DEF Progress, Busy
  <2> QED BY <2>1, <2>2 DEF Recover
<1>4. pc[p] \in Inside /\ \A q \in Procs : q # p => pc'[q] = pc[q] /\ next'[q] = next[q]
  BY DEF Recover, Goto, TypeOK
<1> QED BY <1>1, <1>3, <1>4, Suffices

LEMMA RefuseSafe ==
  ASSUME TypeOK, Safe, NEW p \in Procs, Refuse(p)
  PROVE  Journal' /\ \A q \in Procs : Progress(q)'
<1>1. Journal'
  BY SameJournal DEF Refuse, Safe, diskVars
<1>2. Progress(p)
  BY DEF Safe
<1>3. pc'[p] = "leave" /\ next'[p] = 1
  BY <1>2 DEF Refuse, Goto, TypeOK, Progress
<1>4. Progress(p)'
  BY <1>3 DEF Progress, Busy
<1>5. pc[p] \in Inside /\ \A q \in Procs : q # p => pc'[q] = pc[q] /\ next'[q] = next[q]
  BY DEF Refuse, Goto, TypeOK
<1> QED BY <1>1, <1>4, <1>5, Suffices

\* No event of a transaction that is only now prepared is in the log.
LEMMA PrepareSafe ==
  ASSUME TypeOK, Safe, NEW p \in Procs, NEW t \in Txns, NEW D \in SUBSET Docs,
         NEW n \in 1 .. MaxEvents, Prepare(p, t, D, n)
  PROVE  Journal' /\ \A q \in Procs : Progress(q)'
<1>1. Progress(p) /\ pc[p] = "operate" /\ wal = {}
  BY DEF Safe, Prepare, Progress
<1>w. PICK w : w = [txn |-> t, docs |-> D, rev |-> revision + 1, events |-> n,
                    new |-> [d \in Docs |-> IF d \in D THEN content[d] \cup {t} ELSE {}]]
  OBVIOUS
<1>2. /\ w.txn = t /\ w.docs = D /\ w.events = n
  BY <1>w
<1>3. wal' = {w} /\ tx' = [tx EXCEPT ![p] = w]
  BY <1>1, <1>w DEF Prepare
<1>4. /\ todo' = [todo EXCEPT ![p] = D \cup {"meta"}]
      /\ pc' = [pc EXCEPT ![p] = "write"]
      /\ next' = next /\ log' = log
  BY DEF Prepare, Goto
<1>5. /\ pc'[p] = "write" /\ tx'[p] = w /\ todo'[p] = D \cup {"meta"}
      /\ next'[p] = 1
  BY <1>1, <1>3, <1>4 DEF TypeOK, Progress
<1>6. Prefix(w, 0)'
  <2>1. ASSUME NEW k PROVE ~Logged(<<t, k>>)'
    BY <1>4 DEF Prepare, Logged
  <2>2. 0 \in 0 .. n /\ \A k \in 1 .. n : ~(k <= 0)
    BY LedgerAssumption
  <2> QED BY <1>2, <2>1, <2>2 DEF Prefix
<1>7. Journal'
  <2>1. 0 \in 0 .. w.events
    BY <1>2, LedgerAssumption
  <2> QED BY <1>3, <1>6, <2>1 DEF Journal
<1>8. Written(p)'
  BY <1>2, <1>3, <1>5 DEF Written
<1>9. Prefix(tx[p], 0)'
  BY <1>5, <1>6 DEF Prefix, Logged
<1>10. Progress(p)'
  BY <1>5, <1>8, <1>9 DEF Progress, Busy
<1>11. pc[p] \in Inside /\ \A q \in Procs : q # p => pc'[q] = pc[q] /\ next'[q] = next[q]
  BY <1>1, <1>4 DEF TypeOK
<1> QED BY <1>7, <1>10, <1>11, Suffices

LEMMA WriteSafe ==
  ASSUME TypeOK, Safe, NEW p \in Procs, NEW f \in Files, WriteFile(p, f)
  PROVE  Journal' /\ \A q \in Procs : Progress(q)'
<1>1. Journal'
  BY SameJournal DEF WriteFile, Safe
<1>2. Progress(p) /\ pc[p] \in {"rewrite", "write"} /\ Written(p) /\ tx[p] \in Records
  BY RecordTx DEF Safe, WriteFile, Progress, Busy
<1>3. /\ tx' = tx /\ wal' = wal /\ pc' = pc /\ next' = next /\ log' = log
      /\ todo'[p] = todo[p] \ {f}
      /\ f = "meta" => revision' = tx[p].rev /\ content' = content
      /\ f # "meta" => /\ revision' = revision
                       /\ content' = [content EXCEPT ![f] = tx[p].new[f]]
  BY DEF WriteFile, TypeOK
<1>4. Written(p)'
  <2>1. tx'[p] \in wal' /\ todo'[p] \subseteq tx'[p].docs \cup {"meta"}
    BY <1>2, <1>3 DEF Written
  <2>2. ASSUME NEW d \in tx[p].docs \ todo'[p] PROVE content'[d] = tx[p].new[d]
    <3>1. d \in Docs /\ d # "meta"
      BY <1>2, LedgerAssumption DEF Records
    <3>2. content \in [Docs -> SUBSET Txns]
      BY DEF TypeOK
    <3>3. CASE d = f
      BY <1>3, <3>1, <3>2, <3>3
    <3>4. CASE d # f
      <4>1. content[d] = tx[p].new[d]
        BY <1>2, <1>3, <3>4 DEF Written
      <4> QED BY <1>3, <3>1, <3>2, <3>4, <4>1
    <3> QED BY <3>3, <3>4
  <2>3. "meta" \notin todo'[p] => revision' = tx[p].rev
    BY <1>2, <1>3 DEF Written
  <2> QED BY <1>3, <2>1, <2>2, <2>3 DEF Written
<1>5. Prefix(tx[p], 0) => Prefix(tx[p], 0)'
  BY <1>3 DEF Prefix, Logged
<1>6. Progress(p)'
  BY <1>2, <1>3, <1>4, <1>5 DEF Progress, Busy
<1> QED BY <1>1, <1>2, <1>3, <1>6, Suffices

LEMMA FilesSafe ==
  ASSUME TypeOK, Safe, NEW p \in Procs, FilesWritten(p)
  PROVE  Journal' /\ \A q \in Procs : Progress(q)'
<1>1. Journal'
  BY SameJournal DEF FilesWritten, Safe, diskVars
<1>2. Progress(p) /\ Written(p) /\ pc[p] \in {"rewrite", "write"} /\ todo[p] = {} /\ next[p] = 1
  BY DEF Safe, FilesWritten, Progress, Busy
<1>3. /\ UNCHANGED diskVars /\ tx' = tx /\ todo' = todo /\ next' = next
      /\ pc'[p] = IF pc[p] = "rewrite" THEN "replay" ELSE "append"
      /\ \A q \in Procs : q # p => pc'[q] = pc[q]
  BY DEF FilesWritten, Goto, TypeOK
<1>4. Written(p)'
  BY <1>2, <1>3 DEF Written, diskVars
<1>5. ASSUME NEW m, Prefix(tx[p], m) PROVE Prefix(tx[p], m)'
  BY <1>3, <1>5 DEF Prefix, Logged, diskVars
<1>6. ASSUME pc[p] = "rewrite" PROVE Progress(p)'
  <2>1. PICK m \in 0 .. tx[p].events : Prefix(tx[p], m)
    BY <1>2 DEF Safe, Journal, Written
  <2>2. tx[p] \in Records
    BY <1>2, RecordTx DEF Busy
  <2>3. m \in Nat /\ 1 <= m + 1
    BY <2>1, <2>2 DEF Records
  <2>4. Prefix(tx[p], m)'
    BY <1>5, <2>1
  <2>5. (\E n \in 0 .. tx[p].events : Prefix(tx[p], n) /\ next[p] <= n + 1)'
    BY <1>2, <1>3, <2>1, <2>3, <2>4
  <2> QED BY <1>2, <1>3, <1>4, <1>6, <2>5 DEF Progress
<1>7. ASSUME pc[p] = "write" PROVE Progress(p)'
  <2>1. Prefix(tx[p], 0)'
    BY <1>2, <1>5, <1>7 DEF Progress
  <2>2. Prefix(tx[p], next[p] - 1)'
    BY <1>2, <1>3, <2>1
  <2> QED BY <1>2, <1>3, <1>4, <1>7, <2>2 DEF Progress
<1>8. Progress(p)'
  BY <1>2, <1>6, <1>7
<1> QED BY <1>1, <1>2, <1>3, <1>8, Suffices

LEMMA AppendSafe ==
  ASSUME TypeOK, Safe, NEW p \in Procs, AppendEvent(p)
  PROVE  Journal' /\ \A q \in Procs : Progress(q)'
<1>1. Progress(p) /\ Written(p) /\ pc[p] \in {"replay", "append"} /\ tx[p] \in Records
  BY RecordTx DEF Safe, AppendEvent, Owed, Progress, Busy
<1>2. /\ todo[p] = {} /\ next[p] \in Nat /\ next[p] <= tx[p].events
      /\ tx[p].events \in Nat
  BY <1>1, LedgerAssumption DEF Progress, AppendEvent, Owed, TypeOK, Records
<1>3. /\ UNCHANGED <<content, revision, wal, pc, tx, todo>>
      /\ next'[p] = next[p] + 1
      /\ \A q \in Procs : q # p => next'[q] = next[q]
  BY DEF AppendEvent, TypeOK
<1>4. Written(p)'
  BY <1>1, <1>3 DEF Written
<1>5. CASE pc[p] = "replay" /\ Logged(ThisEvent(p))
  <2>1. log' = log /\ Journal'
    BY <1>3, <1>5, SameJournal DEF AppendEvent, Safe
  <2>2. PICK m \in 0 .. tx[p].events : Prefix(tx[p], m) /\ next[p] <= m + 1
    BY <1>1, <1>5 DEF Progress
  <2>3. next[p] # 0 /\ next[p] \in 1 .. tx[p].events
    BY <1>1, <1>2 DEF Progress
  <2>4. next[p] <= m
    BY <1>5, <2>2, <2>3 DEF Prefix, ThisEvent
  <2>5. Prefix(tx[p], m)'
    BY <1>3, <2>1, <2>2 DEF Prefix, Logged
  <2>6. m \in 0 .. tx'[p].events /\ Prefix(tx[p], m)' /\ next'[p] <= m + 1
    BY <1>2, <1>3, <2>2, <2>4, <2>5
  <2>7. Progress(p)'
    BY <1>2, <1>3, <1>4, <1>5, <2>3, <2>6 DEF Progress
  <2> QED BY <1>1, <1>3, <2>1, <2>7, Suffices
<1>6. CASE ~(pc[p] = "replay" /\ Logged(ThisEvent(p)))
  <2>1. log' = Append(log, ThisEvent(p))
    BY <1>6 DEF AppendEvent, Appended, Repaired
  <2>2. /\ tx[p] \in wal /\ next[p] - 1 \in Nat /\ Prefix(tx[p], next[p] - 1)
    BY <1>1, <1>6, Owing DEF AppendEvent
  <2>3. PICK n \in Nat : n = next[p] - 1
    BY <2>2
  <2>4. PICK w \in wal : w = tx[p]
    BY <2>2
  <2>5. n + 1 = next[p] /\ next[p] # 0
    BY <1>2, <2>3
  <2>6. Prefix(w, n + 1)'
    BY <1>1, <1>2, <2>1, <2>2, <2>3, <2>4, <2>5, AppendPrefix DEF ThisEvent
  <2>7. Journal'
    BY <1>3, <2>4, <2>6, MoreJournal DEF Safe
  <2>8. Prefix(tx[p], n + 1)'
    BY <1>3, <2>4, <2>6 DEF Prefix, Logged
  <2>9. next'[p] = n + 2 /\ n + 1 = next'[p] - 1 /\ n + 1 \in 0 .. tx'[p].events
    BY <1>2, <1>3, <2>5
  <2>10. ASSUME pc[p] = "append" PROVE Progress(p)'
    <3>1. Prefix(tx[p], next[p] - 1)'
      BY <2>8, <2>9
    <3> QED BY <1>2, <1>3, <1>4, <2>9, <2>10, <3>1 DEF Progress
  <2>11. ASSUME pc[p] = "replay" PROVE Progress(p)'
    <3>1. (\E m \in 0 .. tx[p].events : Prefix(tx[p], m) /\ next[p] <= m + 1)'
      BY <2>8, <2>9
    <3> QED BY <1>2, <1>3, <1>4, <2>9, <2>11, <3>1 DEF Progress
  <2>12. Progress(p)'
    BY <1>1, <2>10, <2>11
  <2> QED BY <1>1, <1>3, <2>7, <2>12, Suffices
<1> QED BY <1>5, <1>6

LEMMA ClearSafe ==
  ASSUME TypeOK, Safe, NEW p \in Procs, Clear(p)
  PROVE  Journal' /\ \A q \in Procs : Progress(q)'
<1>1. Journal'
  BY SameJournal DEF Clear, Safe
<1>2. /\ pc[p] \in Inside /\ pc'[p] \in {"recover", "leave"} /\ next'[p] = 1
      /\ \A q \in Procs : q # p => pc'[q] = pc[q] /\ next'[q] = next[q]
  BY DEF Clear, Goto, TypeOK
<1>3. Progress(p)'
  BY <1>2 DEF Progress, Busy
<1> QED BY <1>1, <1>2, <1>3, Suffices

\* Whoever lets go, at the end or in the middle, leaves the journal in order.
LEMMA IdleSafe ==
  ASSUME TypeOK, Safe, NEW p \in Procs, Idle(p), TornAppend(p),
         UNCHANGED <<content, revision, wal>>
  PROVE  Journal' /\ \A q \in Procs : Progress(q)'
<1>1. Journal'
  BY TornJournal DEF Safe
<1>2. \A q \in Procs : q # p => /\ pc'[q] = pc[q] /\ tx'[q] = tx[q]
                                /\ todo'[q] = todo[q] /\ next'[q] = next[q]
  BY DEF Idle, Goto, TypeOK
<1>3. Progress(p)'
  BY LetGo
<1>4. CASE pc[p] \in Inside
  BY <1>1, <1>2, <1>3, <1>4, Suffices
<1>5. CASE pc[p] \notin Inside
  <2>1. UNCHANGED diskVars
    BY <1>5 DEF TornAppend, Owed, diskVars
  <2>2. \A q \in Procs : q # p => Progress(q)'
    BY <1>2, <2>1, Undisturbed DEF Safe
  <2> QED BY <1>1, <1>3, <2>2
<1> QED BY <1>4, <1>5

\* Coming to the door does not disturb anything.
LEMMA DoorSafe ==
  ASSUME TypeOK, Safe, NEW p \in Procs, Claim(p) \/ Suspect(p)
  PROVE  Journal' /\ \A q \in Procs : Progress(q)'
<1>1. UNCHANGED diskVars /\ tx' = tx /\ todo' = todo /\ next' = next
  BY DEF Claim, Suspect
<1>2. /\ pc[p] = "idle" /\ pc'[p] \in {"recover", "reclaim"}
      /\ \A q \in Procs : q # p => pc'[q] = pc[q]
  BY DEF Claim, Suspect, Goto, TypeOK
<1>3. Journal'
  BY <1>1, SameJournal DEF Safe, diskVars
<1>4. Progress(p)'
  <2>1. next[p] = 1
    BY <1>2 DEF Safe, Progress
  <2> QED BY <1>1, <1>2, <2>1 DEF Progress, Busy
<1>5. \A q \in Procs : q # p => Progress(q)'
  BY <1>1, <1>2, Undisturbed DEF Safe
<1> QED BY <1>3, <1>4, <1>5

LEMMA StepSafe == TypeOK /\ Deaths /\ Safe /\ ~stolen' /\ [Next]_vars => Safe'
<1> SUFFICES ASSUME TypeOK, Deaths, Safe, ~stolen', [Next]_vars PROVE Safe'
  OBVIOUS
<1>1. Owner'
  BY StepOwner DEF Safe
<1>2. ASSUME NEW p \in Procs, Claim(p) \/ Suspect(p) PROVE Safe'
  BY <1>1, <1>2, DoorSafe DEF Safe
<1>3. ASSUME NEW p \in Procs, Reclaim(p) PROVE Safe'
  BY <1>1, <1>3, IdleSafe DEF Safe, Reclaim, TornAppend, diskVars
<1>4. ASSUME NEW p \in Procs, Proceed(p) PROVE Safe'
  <2>1. ASSUME Leave(p) PROVE Safe'
    BY <1>1, <2>1, IdleSafe DEF Safe, Leave, TornAppend, diskVars
  <2> QED BY <1>1, <1>4, <2>1, RecoverSafe, RefuseSafe, PrepareSafe, WriteSafe, FilesSafe,
             AppendSafe, ClearSafe DEF Proceed, Operate, Safe
<1>5. ASSUME NEW p \in Procs, Fail(p) \/ Crash(p) PROVE Safe'
  BY <1>1, <1>5, IdleSafe DEF Safe, Fail, Crash
<1>6. CASE UNCHANGED vars
  <2>1. \A q \in Procs : Progress(q)'
    BY <1>6, Undisturbed DEF vars, Safe
  <2>2. Journal'
    BY <1>6, SameJournal DEF vars, diskVars, Safe
  <2> QED BY <1>1, <2>1, <2>2 DEF Safe
<1> QED BY <1>2, <1>3, <1>4, <1>5, <1>6 DEF Next

LEMMA StepInv == Inv /\ [Next]_vars => Inv'
<1> SUFFICES ASSUME Inv, [Next]_vars PROVE Inv'
  OBVIOUS
<1>1. TypeOK' /\ Deaths'
  BY StepTypes, StepDeaths DEF Inv
<1>2. ~stolen' => ~stolen
  <2>1. ASSUME NEW p \in Procs, Proceed(p) PROVE stolen' = stolen
    BY <2>1 DEF Proceed, Operate, Recover, Refuse, Prepare, WriteFile, FilesWritten,
                AppendEvent, Clear, Leave
  <2>2. ASSUME NEW p \in Procs, Claim(p) \/ Suspect(p) \/ Fail(p) \/ Crash(p)
        PROVE  stolen' = stolen
    BY <2>2 DEF Claim, Suspect, Fail, Crash
  <2>3. ASSUME NEW p \in Procs, Reclaim(p), ~stolen' PROVE ~stolen
    BY <2>3 DEF Reclaim
  <2> QED BY <2>1, <2>2, <2>3 DEF Next, vars
<1> QED BY <1>1, <1>2, StepSafe DEF Inv

\* What the theorems below rest on.
LEMMA Invariance == Spec => []Inv
  BY InitInv, StepInv, PTL DEF Spec

-----------------------------------------------------------------------------
(* The variables have their types, and a process has a transaction in hand *)
(* exactly while it commits or finishes one (_atomic_transaction,          *)
(* _recover_locked).                                                       *)
THEOREM TypeCorrect == Spec => []TypeOK
  BY Invariance, PTL DEF Inv

(* _FileLock keeps out everybody but its owner, as long as no lock of a    *)
(* living process has been removed.                                        *)
THEOREM Exclusive == Spec => []OneInside
<1>1. Inv => OneInside
  BY DEF Inv, Deaths, Safe, Owner, OneInside
<1> QED BY <1>1, Invariance, PTL

(* _ensure_locked: whoever comes to read the documents finds nothing       *)
(* prepared and a whole last line.                                         *)
THEOREM RecoveredFirst == Spec => []NothingBypassed
<1>1. Inv => NothingBypassed
  BY DEF Inv, Safe, Progress, NothingBypassed
<1> QED BY <1>1, Invariance, PTL

-----------------------------------------------------------------------------
(* Ledger implements AtomicStore.                                          *)

\* Events m + 1 to n of transaction t.
Span(t, m, n) == [k \in 1 .. n - m |-> <<t, m + k>>]

\* It does not matter whether the next event is in the log or still to come.
LEMMA SpanShift ==
  ASSUME NEW s \in Seq(Txns \X Nat), NEW t \in Txns, NEW m \in Nat, NEW n \in Nat, m + 1 <= n
  PROVE  Append(s, <<t, m + 1>>) \o Span(t, m + 1, n) = s \o Span(t, m, n)
<1> DEFINE e == <<t, m + 1>>
           a == Span(t, m, n)
           b == Span(t, m + 1, n)
<1>1. /\ a \in Seq(Txns \X Nat) /\ Len(a) = n - m
      /\ \A k \in 1 .. n - m : a[k] = <<t, m + k>>
  BY DEF Span
<1>2. /\ b \in Seq(Txns \X Nat) /\ Len(b) = n - m - 1
      /\ \A k \in 1 .. n - m - 1 : b[k] = <<t, m + 1 + k>>
  BY DEF Span
<1>3. e \in Txns \X Nat
  OBVIOUS
<1> HIDE DEF a, b, e
<1> DEFINE c == Append(s, e)
<1>4. /\ c \in Seq(Txns \X Nat) /\ Len(c) = Len(s) + 1 /\ Len(s) \in Nat
      /\ \A i \in 1 .. Len(s) : c[i] = s[i]
      /\ c[Len(s) + 1] = e
  BY <1>3, AppendProperties
<1> HIDE DEF c
<1>5. /\ c \o b \in Seq(Txns \X Nat) /\ Len(c \o b) = Len(c) + Len(b)
      /\ \A i \in 1 .. Len(c) + Len(b) :
            (c \o b)[i] = IF i <= Len(c) THEN c[i] ELSE b[i - Len(c)]
  <2>1. c \in Seq(Txns \X Nat) /\ b \in Seq(Txns \X Nat)
    BY <1>2, <1>4
  <2> QED BY <2>1, ConcatProperties
<1>6. /\ s \o a \in Seq(Txns \X Nat) /\ Len(s \o a) = Len(s) + Len(a)
      /\ \A i \in 1 .. Len(s) + Len(a) :
            (s \o a)[i] = IF i <= Len(s) THEN s[i] ELSE a[i - Len(s)]
  BY <1>1, ConcatProperties
<1>7. Len(c \o b) = Len(s \o a) /\ Len(s) + Len(a) = Len(c) + Len(b)
  BY <1>1, <1>2, <1>4, <1>5, <1>6
<1>8. ASSUME NEW i \in 1 .. Len(s \o a) PROVE (c \o b)[i] = (s \o a)[i]
  <2>1. i \in 1 .. Len(s) + Len(a) /\ i \in 1 .. Len(c) + Len(b)
    BY <1>6, <1>7
  <2>2. CASE i <= Len(s)
    <3>1. i \in 1 .. Len(s) /\ i <= Len(c)
      BY <1>4, <2>1, <2>2
    <3> QED BY <1>4, <1>5, <1>6, <2>1, <2>2, <3>1
  <2>3. CASE i = Len(s) + 1
    <3>1. (c \o b)[i] = e
      BY <1>4, <1>5, <2>1, <2>3
    <3>2. (s \o a)[i] = a[1] /\ 1 \in 1 .. n - m
      BY <1>1, <1>4, <1>6, <2>1, <2>3
    <3> QED BY <1>1, <3>1, <3>2 DEF e
  <2>4. CASE i > Len(s) + 1
    <3>1. /\ ~(i <= Len(c)) /\ ~(i <= Len(s))
          /\ i - Len(c) \in 1 .. n - m - 1
          /\ i - Len(s) \in 1 .. n - m
          /\ m + 1 + (i - Len(c)) = m + (i - Len(s))
      <4>1. Len(a) = n - m /\ Len(c) = Len(s) + 1 /\ Len(s) \in Nat
        BY <1>1, <1>4
      <4>2. i \in Nat /\ i <= Len(s) + (n - m) /\ i > Len(s) + 1
        BY <2>1, <2>4, <4>1
      <4> QED BY <4>1, <4>2
    <3>2. (c \o b)[i] = b[i - Len(c)] /\ (s \o a)[i] = a[i - Len(s)]
      BY <1>5, <1>6, <2>1, <3>1
    <3>3. b[i - Len(c)] = <<t, m + 1 + (i - Len(c))>>
      BY <1>2, <3>1
    <3>4. a[i - Len(s)] = <<t, m + (i - Len(s))>>
      BY <1>1, <3>1
    <3> QED BY <3>1, <3>2, <3>3, <3>4
  <2> QED BY <1>4, <2>1, <2>2, <2>3, <2>4
<1>9. c \o b = s \o a
  BY <1>5, <1>6, <1>7, <1>8, SeqEqual
<1> QED BY <1>9 DEF a, b, c, e

\* What the prepared transaction makes of the documents, the revision and the log.
Viewed ==
  \A w \in wal : \A m \in 0 .. w.events :
    /\ TypeOK /\ Journal /\ Prefix(w, m)
    => /\ Value = [d \in Docs |-> IF d \in w.docs THEN w.new[d] ELSE content[d]]
       /\ Revision = w.rev
       /\ History = log \o Span(w.txn, m, w.events)

LEMMA View == Viewed
<1> SUFFICES ASSUME NEW w \in wal, NEW m \in 0 .. w.events, TypeOK, Journal, Prefix(w, m)
             PROVE  /\ Value = [d \in Docs |-> IF d \in w.docs THEN w.new[d] ELSE content[d]]
                    /\ Revision = w.rev
                    /\ History = log \o Span(w.txn, m, w.events)
  BY DEF Viewed
<1>1. wal = {w}
  BY DEF Journal
<1>2. Pending = w
  BY <1>1 DEF Pending
<1>3. LoggedUpTo(w) = m
  <2>1. w \in Records
    BY DEF TypeOK
  <2>2. \A n \in 0 .. w.events :
          (\A k \in 1 .. w.events : Logged(<<w.txn, k>>) <=> k <= n) => n = m
    BY <2>1, PrefixUnique DEF Prefix
  <2>3. \A k \in 1 .. w.events : Logged(<<w.txn, k>>) <=> k <= m
    BY DEF Prefix
  <2> QED BY <2>2, <2>3 DEF LoggedUpTo
<1>4. Rest(w) = Span(w.txn, m, w.events)
  BY <1>3 DEF Rest, Span
<1> QED BY <1>1, <1>2, <1>4 DEF Value, Revision, History

\* A step that neither prepares nor clears a transaction, rewrites only documents of
\* the prepared one and logs nothing but its next event, cannot be seen.
LEMMA Unseen ==
  ASSUME TypeOK, TypeOK', Journal, Journal', wal' = wal,
         NEW w \in wal, NEW m \in Nat, Prefix(w, m),
         \A d \in Docs \ w.docs : content'[d] = content[d],
         log' = log \/ (log' = Append(log, <<w.txn, m + 1>>) /\ m + 1 <= w.events)
  PROVE  UNCHANGED Store!vars
<1>1. Viewed /\ Viewed'
  BY View, PTL
<1>2. w \in Records /\ w.txn \in Txns /\ w.events \in Nat /\ m \in 0 .. w.events
  BY LedgerAssumption DEF TypeOK, Prefix, Records
<1>3. /\ Value = [d \in Docs |-> IF d \in w.docs THEN w.new[d] ELSE content[d]]
      /\ Revision = w.rev
      /\ History = log \o Span(w.txn, m, w.events)
  BY <1>1, <1>2 DEF Viewed
<1>4. log \in Seq(Txns \X Nat)
  BY DEF TypeOK
<1>5. PICK n \in 0 .. w.events :
        Prefix(w, n)' /\ log' \o Span(w.txn, n, w.events) = log \o Span(w.txn, m, w.events)
  <2>1. CASE log' = log
    <3>1. Prefix(w, m)'
      BY <1>2, <2>1, SameLog
    <3> QED BY <1>2, <2>1, <3>1
  <2>2. CASE log' = Append(log, <<w.txn, m + 1>>) /\ m + 1 <= w.events
    <3>1. Prefix(w, m + 1)'
      BY <1>2, <2>2, AppendPrefix
    <3>2. log' \o Span(w.txn, m + 1, w.events) = log \o Span(w.txn, m, w.events)
      BY <1>2, <1>4, <2>2, SpanShift
    <3>3. m + 1 \in 0 .. w.events
      BY <1>2, <2>2
    <3> QED BY <3>1, <3>2, <3>3
  <2> QED BY <2>1, <2>2
<1>6. /\ Value' = [d \in Docs |-> IF d \in w.docs THEN w.new[d] ELSE content'[d]]
      /\ Revision' = w.rev
      /\ History' = log' \o Span(w.txn, n, w.events)
  BY <1>1, <1>5 DEF Viewed
<1>7. Value' = Value
  BY <1>3, <1>6
<1> QED BY <1>3, <1>5, <1>6, <1>7 DEF Store!vars

\* Nor can a step that leaves the disk alone but for the tail.
LEMMA Elsewhere ==
  ASSUME TypeOK, TypeOK', Safe, Journal', UNCHANGED <<content, revision, log, wal>>
  PROVE  UNCHANGED Store!vars
<1>1. CASE wal = {}
  BY <1>1 DEF Store!vars, Value, Revision, History
<1>2. ASSUME NEW w \in wal PROVE UNCHANGED Store!vars
  <2>1. PICK m \in 0 .. w.events : Prefix(w, m)
    BY DEF Safe, Journal
  <2>2. m \in Nat
    BY <2>1, LedgerAssumption DEF TypeOK, Records
  <2>3. Journal /\ wal' = wal /\ \A d \in Docs \ w.docs : content'[d] = content[d]
    BY DEF Safe
  <2>4. log' = log \/ (log' = Append(log, <<w.txn, m + 1>>) /\ m + 1 <= w.events)
    OBVIOUS
  <2> QED BY <2>1, <2>2, <2>3, <2>4, Unseen
<1> QED BY <1>1, <1>2

LEMMA TornUnseen ==
  ASSUME TypeOK, TypeOK', Safe, Journal', NEW p \in Procs,
         AppendEvent(p) \/ TornAppend(p), UNCHANGED <<content, revision, wal>>
  PROVE  UNCHANGED Store!vars
<1>1. CASE log' = log
  BY <1>1, Elsewhere
<1>2. CASE log' # log
  <2>1. /\ Owed(p)
        /\ ~(pc[p] = "replay" /\ Logged(ThisEvent(p)))
        /\ log' = Append(log, ThisEvent(p))
    BY <1>2 DEF TornAppend, AppendEvent, Appended, Repaired
  <2>2. /\ tx[p] \in Records /\ tx[p] \in wal
        /\ next[p] - 1 \in Nat
        /\ next[p] <= tx[p].events
        /\ Prefix(tx[p], next[p] - 1)
    BY <2>1, Owing DEF Safe
  <2>3. PICK m \in Nat : m = next[p] - 1
    BY <2>2
  <2>4. PICK w \in wal : w = tx[p]
    BY <2>2
  <2>5. next[p] = m + 1
    BY <2>3 DEF TypeOK
  <2>6. log' = Append(log, <<w.txn, m + 1>>) /\ m + 1 <= w.events /\ Prefix(w, m)
    BY <2>1, <2>2, <2>3, <2>4, <2>5 DEF ThisEvent
  <2> QED BY <2>4, <2>6, Unseen DEF Safe
<1> QED BY <1>1, <1>2

LEMMA WriteUnseen ==
  ASSUME TypeOK, TypeOK', Safe, Journal', NEW p \in Procs, NEW f \in Files, WriteFile(p, f)
  PROVE  UNCHANGED Store!vars
<1>1. Written(p)
  BY DEF Safe, Progress, WriteFile, Busy
<1>2. PICK w \in wal : w = tx[p]
  BY <1>1 DEF Written
<1>3. PICK m \in 0 .. w.events : Prefix(w, m)
  BY DEF Safe, Journal
<1>4. m \in Nat
  BY <1>3, LedgerAssumption DEF TypeOK, Records
<1>5. \A d \in Docs \ w.docs : content'[d] = content[d]
  <2> TAKE d \in Docs \ w.docs
  <2>1. d # f
    BY <1>1, <1>2, LedgerAssumption DEF Written, WriteFile
  <2> QED BY <2>1 DEF WriteFile, TypeOK
<1>6. wal' = wal /\ Journal
  BY DEF WriteFile, Safe
<1>7. log' = log \/ (log' = Append(log, <<w.txn, m + 1>>) /\ m + 1 <= w.events)
  BY DEF WriteFile
<1> QED BY <1>3, <1>4, <1>5, <1>6, <1>7, Unseen

\* When the journal file goes, all that it promised is in place.
LEMMA ClearUnseen ==
  ASSUME TypeOK, Safe, NEW p \in Procs, Clear(p)
  PROVE  UNCHANGED Store!vars
<1>1. Progress(p) /\ Written(p) /\ pc[p] \in {"replay", "append"} /\ todo[p] = {}
  BY DEF Safe, Clear, Progress, Busy
<1>2. PICK w \in wal : w = tx[p]
  BY <1>1 DEF Written
<1>3. w \in Records /\ w.events \in Nat /\ next[p] \in Nat /\ next[p] > w.events
  BY <1>2, LedgerAssumption DEF TypeOK, Records, Clear
<1>4. Prefix(w, w.events)
  <2>1. CASE pc[p] = "append"
    <3>1. Prefix(w, next[p] - 1)
      BY <1>1, <1>2, <2>1 DEF Progress
    <3>2. next[p] - 1 = w.events
      BY <1>3, <3>1 DEF Prefix
    <3> QED BY <3>1, <3>2
  <2>2. CASE pc[p] = "replay"
    <3>1. PICK m \in 0 .. w.events : Prefix(w, m) /\ next[p] <= m + 1
      BY <1>1, <1>2, <2>2 DEF Progress
    <3>2. m = w.events
      BY <1>3, <3>1
    <3> QED BY <3>1, <3>2
  <2> QED BY <1>1, <2>1, <2>2
<1>5. /\ Value = [d \in Docs |-> IF d \in w.docs THEN w.new[d] ELSE content[d]]
      /\ Revision = w.rev
      /\ History = log \o Span(w.txn, w.events, w.events)
  <2>1. w.events \in 0 .. w.events
    BY <1>3
  <2> QED BY <1>4, <2>1, View DEF Viewed, Safe
<1>6. wal' = {} /\ UNCHANGED <<content, revision, log>>
  BY <1>2 DEF Clear, Safe, Journal
<1>7. Value' = content /\ Revision' = revision /\ History' = log
  BY <1>6 DEF Value, Revision, History
<1>8. Value = content
  <2>1. \A d \in w.docs : content[d] = w.new[d]
    BY <1>1, <1>2 DEF Written
  <2> QED BY <1>5, <2>1 DEF TypeOK
<1>9. Revision = revision
  BY <1>1, <1>2, <1>5 DEF Written
<1>10. History = log
  <2>1. Span(w.txn, w.events, w.events) = <<>>
    BY <1>3 DEF Span
  <2>2. log \in Seq(Txns \X Nat)
    BY DEF TypeOK
  <2> QED BY <1>5, <2>1, <2>2, ConcatEmptySeq
<1> QED BY <1>7, <1>8, <1>9, <1>10 DEF Store!vars

\* A transaction takes effect when its journal file appears.
LEMMA PrepareCommits ==
  ASSUME TypeOK, TypeOK', Safe, Journal', NEW p \in Procs, NEW t \in Txns,
         NEW D \in SUBSET Docs, NEW n \in 1 .. MaxEvents, Prepare(p, t, D, n)
  PROVE  Store!Commit(t, D, n)
<1>1. wal = {}
  BY DEF Safe, Prepare, Progress
<1>w. PICK w : w = [txn |-> t, docs |-> D, rev |-> revision + 1, events |-> n,
                    new |-> [d \in Docs |-> IF d \in D THEN content[d] \cup {t} ELSE {}]]
  OBVIOUS
<1>2. /\ w.txn = t /\ w.docs = D /\ w.events = n /\ w.rev = revision + 1
      /\ \A d \in D : w.new[d] = content[d] \cup {t}
  BY <1>w
<1>3. wal' = {w} /\ UNCHANGED <<content, revision, log>>
  BY <1>1, <1>w DEF Prepare
<1>4. Value = content /\ Revision = revision /\ History = log
  BY <1>1 DEF Value, Revision, History
<1>5. Prefix(w, 0)'
  <2>1. ASSUME NEW k PROVE ~Logged(<<t, k>>)'
    BY <1>3 DEF Prepare, Logged
  <2>2. 0 \in 0 .. n /\ \A k \in 1 .. n : ~(k <= 0)
    BY LedgerAssumption
  <2> QED BY <1>2, <2>1, <2>2 DEF Prefix
<1>6. /\ Value' = [d \in Docs |-> IF d \in w.docs THEN w.new[d] ELSE content'[d]]
      /\ Revision' = w.rev
      /\ History' = log' \o Span(w.txn, 0, w.events)
  <2>1. Viewed'
    BY View, PTL
  <2>2. 0 \in 0 .. w.events /\ w \in wal'
    BY <1>2, <1>3, LedgerAssumption
  <2> QED BY <1>5, <2>1, <2>2 DEF Viewed
<1>7. Span(t, 0, n) = Store!Events(t, n)
  BY LedgerAssumption DEF Span, Store!Events
<1>8. \A d \in Docs : t \notin content[d]
  BY DEF Prepare
<1> QED BY <1>2, <1>3, <1>4, <1>6, <1>7, <1>8 DEF Store!Commit

LEMMA StepImplements == Inv /\ Inv' /\ [Next]_vars => [stolen' \/ Store!Next]_Store!vars
<1> SUFFICES ASSUME Inv, Inv', [Next]_vars, ~stolen', ~Store!Next
             PROVE  UNCHANGED Store!vars
  OBVIOUS
<1>1. TypeOK /\ TypeOK' /\ Journal'
  BY DEF Inv, Safe
<1>2. Safe
  <2>1. ASSUME NEW p \in Procs, Reclaim(p) PROVE ~stolen
    BY <2>1 DEF Reclaim
  <2>2. CASE \E p \in Procs : Reclaim(p)
    BY <2>1, <2>2 DEF Inv
  <2>3. CASE ~(\E p \in Procs : Reclaim(p))
    <3>1. stolen' = stolen
      BY <2>3 DEF Next, Proceed, Operate, Claim, Suspect, Recover, Refuse, Prepare, WriteFile,
                  FilesWritten, AppendEvent, Clear, Leave, Fail, Crash, vars
    <3> QED BY <3>1 DEF Inv
  <2> QED BY <2>2, <2>3
<1>3. ASSUME NEW p \in Procs, Claim(p) \/ Suspect(p) \/ Reclaim(p) \/ Recover(p) \/ Refuse(p)
                              \/ FilesWritten(p) \/ Leave(p)
      PROVE  UNCHANGED Store!vars
  <2>1. UNCHANGED <<content, revision, log, wal>>
    BY <1>3 DEF Claim, Suspect, Reclaim, Recover, Refuse, FilesWritten, Leave, diskVars
  <2> QED BY <1>1, <1>2, <2>1, Elsewhere
<1>4. ASSUME NEW p \in Procs, AppendEvent(p) \/ Fail(p) \/ Crash(p)
      PROVE  UNCHANGED Store!vars
  BY <1>1, <1>2, <1>4, TornUnseen DEF AppendEvent, Fail, Crash
<1>5. ASSUME NEW p \in Procs, NEW f \in Files, WriteFile(p, f) PROVE UNCHANGED Store!vars
  BY <1>1, <1>2, <1>5, WriteUnseen
<1>6. ASSUME NEW p \in Procs, Clear(p) PROVE UNCHANGED Store!vars
  BY <1>1, <1>2, <1>6, ClearUnseen
<1>7. ASSUME NEW p \in Procs, NEW t \in Txns, NEW D \in SUBSET Docs, NEW n \in 1 .. MaxEvents,
             Prepare(p, t, D, n)
      PROVE  Store!Next
  BY <1>1, <1>2, <1>7, PrepareCommits DEF Store!Next
<1>8. CASE UNCHANGED vars
  <2>1. UNCHANGED <<content, revision, log, wal>>
    BY <1>8 DEF vars, diskVars
  <2> QED BY <1>1, <1>2, <2>1, Elsewhere
<1> QED BY <1>3, <1>4, <1>5, <1>6, <1>7, <1>8 DEF Next, Proceed, Operate

(* The journal makes several files one: _atomic_transaction commits a      *)
(* transaction at once and once, with its events in order, whatever dies   *)
(* or fails in between and however often _recover_locked is cut short;     *)
(* until the lock of a living process is removed.                          *)
THEOREM Atomic == Spec => AtomicUnlessStolen
<1>1. Init => Store!Init
  BY DEF Init, Store!Init, Value, Revision, History
<1>2. Spec => [][stolen' \/ Store!Next]_Store!vars
  BY Invariance, StepImplements, PTL DEF Spec
<1> QED BY <1>1, <1>2, PTL DEF Spec, AtomicUnlessStolen
=============================================================================
