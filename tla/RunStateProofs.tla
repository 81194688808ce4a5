--------------------------- MODULE RunStateProofs ---------------------------
(***************************************************************************)
(* Theorems of RunState, for every set of runs, workers and findings.      *)
(***************************************************************************)
EXTENDS RunState, SequenceTheorems, TLAPS

-----------------------------------------------------------------------------
LEMMA NoTxType == NoTx \in Transaction
  BY DEF NoTx, Transaction, Statuses

LEMMA HopType ==
  ASSUME NEW from \in Statuses, NEW to \in Statuses
  PROVE  /\ [from |-> from, to |-> to] \in Hop
         /\ <<[from |-> from, to |-> to]>> \in Seq(Hop)
  BY DEF Hop

LEMMA PairOf ==
  ASSUME NEW a \in Hop, NEW b \in Hop
  PROVE  Append(<<a>>, b) = <<a, b>>
  <1> DEFINE s == Append(<<a>>, b)
             t == <<a, b>>
  <1>1. s \in Seq(Hop) /\ t \in Seq(Hop) /\ Len(s) = 2 /\ Len(t) = 2
    OBVIOUS
  <1>2. s[1] = t[1] /\ s[2] = t[2]
    OBVIOUS
  <1> HIDE DEF s, t
  <1>3. \A i \in 1 .. Len(s) : s[i] = t[i]
    BY <1>1, <1>2
  <1>4. s = t
    BY <1>1, <1>3, SeqEqual
  <1> QED
    BY <1>4 DEF s, t

\* What the statements do to a transaction, field by field.
LEMMA AcquiredEffect ==
  ASSUME NEW t \in Transaction, NEW l \in LockRow
  PROVE  /\ Acquired(t, l) \in Transaction
         /\ Acquired(t, l).key /\ Acquired(t, l).acquired = 1
         /\ Acquired(t, l).released = t.released /\ Acquired(t, l).row = t.row
         /\ Acquired(t, l).state = t.state /\ Acquired(t, l).events = t.events
         /\ Acquired(t, l).loaded = t.loaded /\ Acquired(t, l).upserted = t.upserted
  BY DEF Transaction, Acquired

LEMMA ReleasedEffect ==
  ASSUME NEW t \in Transaction
  PROVE  /\ Released(t) \in Transaction
         /\ Released(t).lock = {} /\ Released(t).released = 1
         /\ Released(t).key = t.key /\ Released(t).acquired = t.acquired
         /\ Released(t).row = t.row /\ Released(t).state = t.state
         /\ Released(t).events = t.events
         /\ Released(t).loaded = t.loaded /\ Released(t).upserted = t.upserted
  BY DEF Transaction, Released

LEMMA RowLockedEffect ==
  ASSUME NEW t \in Transaction
  PROVE  /\ RowLocked(t) \in Transaction
         /\ RowLocked(t).row = "row"
         /\ RowLocked(t).key = t.key /\ RowLocked(t).lock = t.lock
         /\ RowLocked(t).acquired = t.acquired /\ RowLocked(t).released = t.released
         /\ RowLocked(t).state = t.state /\ RowLocked(t).events = t.events
         /\ RowLocked(t).loaded = t.loaded /\ RowLocked(t).upserted = t.upserted
  BY DEF Transaction, RowLocked

LEMMA RunningEffect ==
  ASSUME NEW t \in Transaction, NEW row \in {"row", "insert"}, NEW prev \in Statuses
  PROVE  /\ Running(t, row, prev) \in Transaction
         /\ Running(t, row, prev).row = row
         /\ Running(t, row, prev).state = "running"
         /\ Running(t, row, prev).events = <<[from |-> prev, to |-> "running"]>>
         /\ Running(t, row, prev).key = t.key
         /\ Running(t, row, prev).lock = t.lock
         /\ Running(t, row, prev).acquired = t.acquired
         /\ Running(t, row, prev).released = t.released
         /\ Running(t, row, prev).loaded = t.loaded
         /\ Running(t, row, prev).upserted = t.upserted
  <1> DEFINE events == <<[from |-> prev, to |-> "running"]>>
  <1>1. events \in Seq(Hop) /\ "running" \in Statuses
    BY HopType DEF Statuses
  <1>2. Running(t, row, prev) = [t EXCEPT !.row = row, !.state = "running", !.events = events]
    BY DEF Running
  <1> HIDE DEF events
  <1>3. /\ Running(t, row, prev) \in Transaction
        /\ Running(t, row, prev).row = row
        /\ Running(t, row, prev).state = "running"
        /\ Running(t, row, prev).events = events
        /\ Running(t, row, prev).key = t.key
        /\ Running(t, row, prev).lock = t.lock
        /\ Running(t, row, prev).acquired = t.acquired
        /\ Running(t, row, prev).released = t.released
        /\ Running(t, row, prev).loaded = t.loaded
        /\ Running(t, row, prev).upserted = t.upserted
    BY <1>1, <1>2 DEF Transaction
  <1> QED
    BY <1>3 DEF events

LEMMA ReadyEffect ==
  ASSUME NEW t \in Transaction
  PROVE  /\ Ready(t) \in Transaction
         /\ Ready(t).state = "ready"
         /\ Ready(t).events = Append(t.events, [from |-> "running", to |-> "ready"])
         /\ Ready(t).row = t.row /\ Ready(t).key = t.key /\ Ready(t).lock = t.lock
         /\ Ready(t).acquired = t.acquired /\ Ready(t).released = t.released
         /\ Ready(t).loaded = t.loaded /\ Ready(t).upserted = t.upserted
  <1> DEFINE events == Append(t.events, [from |-> "running", to |-> "ready"])
  <1>1. t.events \in Seq(Hop) /\ "ready" \in Statuses /\ "running" \in Statuses
    BY DEF Transaction, Statuses
  <1>2. events \in Seq(Hop)
    BY <1>1, HopType
  <1>3. Ready(t) = [t EXCEPT !.state = "ready", !.events = events]
    BY DEF Ready
  <1> HIDE DEF events
  <1>4. /\ Ready(t) \in Transaction
        /\ Ready(t).state = "ready" /\ Ready(t).events = events
        /\ Ready(t).row = t.row /\ Ready(t).key = t.key /\ Ready(t).lock = t.lock
        /\ Ready(t).acquired = t.acquired /\ Ready(t).released = t.released
        /\ Ready(t).loaded = t.loaded /\ Ready(t).upserted = t.upserted
    BY <1>1, <1>2, <1>3 DEF Transaction
  <1> QED
    BY <1>4 DEF events

LEMMA FailedEffect ==
  ASSUME NEW t \in Transaction, NEW row \in {"row", "insert"}, NEW prev \in Statuses,
         NEW held \in SUBSET LockRow
  PROVE  /\ Failed(t, row, prev, held) \in Transaction
         /\ Failed(t, row, prev, held).row = row
         /\ Failed(t, row, prev, held).state = "failed"
         /\ Failed(t, row, prev, held).events = <<[from |-> prev, to |-> "failed"]>>
         /\ Failed(t, row, prev, held).lock = t.lock
         /\ Failed(t, row, prev, held).acquired = t.acquired
         /\ held = {} => /\ ~Failed(t, row, prev, held).key
                        /\ Failed(t, row, prev, held).released = 0
         /\ Failed(t, row, prev, held).loaded = t.loaded
         /\ Failed(t, row, prev, held).upserted = t.upserted
  <1> DEFINE events == <<[from |-> prev, to |-> "failed"]>>
             b == IF held = {} THEN 0 ELSE 1
             key == (held # {})
             u == Failed(t, row, prev, held)
  <1>1. events \in Seq(Hop) /\ "failed" \in Statuses /\ b \in {0, 1} /\ key \in BOOLEAN
    BY HopType DEF Statuses
  <1>2. u = [t EXCEPT !.row = row, !.state = "failed", !.events = events,
                      !.key = key, !.released = b]
    BY DEF Failed
  <1>3. held = {} => ~key /\ b = 0
    OBVIOUS
  <1> HIDE DEF events, b, key, u
  <1>4. u \in Transaction
    BY <1>1, <1>2 DEF Transaction
  <1>5. /\ u.row = row /\ u.state = "failed" /\ u.events = events
        /\ u.lock = t.lock /\ u.acquired = t.acquired
        /\ u.released = b /\ u.loaded = t.loaded /\ u.upserted = t.upserted
    BY <1>1, <1>2 DEF Transaction
  <1>6. u.key <=> key
    BY <1>1, <1>2 DEF Transaction
  <1>7. held = {} => ~u.key /\ u.released = 0
    BY <1>3, <1>5, <1>6
  <1> QED
    BY <1>4, <1>5, <1>7 DEF events, u

LEMMA LoadedEffect ==
  ASSUME NEW t \in Transaction
  PROVE  /\ Loaded(t) \in Transaction
         /\ Loaded(t).loaded /\ Loaded(t).upserted = t.upserted
         /\ Loaded(t).key = t.key /\ Loaded(t).lock = t.lock
         /\ Loaded(t).acquired = t.acquired /\ Loaded(t).released = t.released
         /\ Loaded(t).row = t.row /\ Loaded(t).state = t.state
         /\ Loaded(t).events = t.events
  BY DEF Transaction, Loaded

LEMMA RowUpsertedEffect ==
  ASSUME NEW t \in Transaction
  PROVE  /\ RowUpserted(t) \in Transaction
         /\ RowUpserted(t).upserted = t.upserted + 1
         /\ RowUpserted(t).key = t.key /\ RowUpserted(t).lock = t.lock
         /\ RowUpserted(t).acquired = t.acquired /\ RowUpserted(t).released = t.released
         /\ RowUpserted(t).row = t.row /\ RowUpserted(t).state = t.state
         /\ RowUpserted(t).events = t.events /\ RowUpserted(t).loaded = t.loaded
  BY DEF Transaction, RowUpserted

LEMMA ExpiredType ==
  ASSUME NEW locks \in SUBSET LockRow, NEW r \in Runs
  PROVE  /\ Expired(locks, r) \in SUBSET LockRow
         /\ locks = {} => Expired(locks, r) = {}
  BY DEF Expired, LockRow

LEMMA ExpiredEffect ==
  ASSUME NEW t \in Transaction, NEW r \in Runs
  PROVE  LET u == [t EXCEPT !.lock = Expired(@, r)]
         IN  /\ u \in Transaction
             /\ t.lock = {} => u = t
             /\ u.key = t.key /\ u.acquired = t.acquired /\ u.released = t.released
             /\ u.row = t.row /\ u.state = t.state /\ u.events = t.events
             /\ u.loaded = t.loaded /\ u.upserted = t.upserted
  <1>1. t.lock \in SUBSET LockRow
    BY DEF Transaction
  <1> QED
    BY <1>1, ExpiredType DEF Transaction

LEMMA RowsType == ASSUME NEW r \in Runs PROVE RowsOf(r) \in SUBSET Fingerprints
  BY ConstantsAssumption DEF RowsOf

\* The types are kept by the commit of a transaction that is well typed.
LEMMA PublishType ==
  ASSUME TypeOK, NEW w \in Workers, pc[w] \notin Ended, Publish(w),
         NEW how \in Ended, EndIngest(w, how)
  PROVE  TypeOK'
  <1> DEFINE r == run[w]
  <1>1. r \in Runs /\ tx[w] \in Transaction
    BY DEF TypeOK
  <1>2. status' \in [Runs -> Statuses]
    BY <1>1 DEF TypeOK, Publish, Transaction
  <1>3. journal' \in [Runs -> Seq(Hop)]
    <2>1. tx[w].events \in Seq(Hop) /\ journal[r] \in Seq(Hop)
      BY <1>1 DEF TypeOK, Transaction
    <2>2. journal[r] \o tx[w].events \in Seq(Hop)
      BY <2>1
    <2> QED
      BY <1>1, <2>2 DEF TypeOK, Publish
  <1>4. presence' \in [Runs -> SUBSET Fingerprints]
    BY <1>1, RowsType DEF TypeOK, Publish
  <1>5. latest' \in [Fingerprints -> Runs \cup {NoRun}]
    BY <1>1 DEF TypeOK, Publish
  <1>6. runLocks' \in SUBSET LockRow
    BY <1>1 DEF TypeOK, Publish, Transaction
  <1>7. lockLog' \in [Runs -> [acquired : Nat, released : Nat, expired : Nat]]
    <2> DEFINE Counts == [acquired : Nat, released : Nat, expired : Nat]
               row == [lockLog[r] EXCEPT !.acquired = @ + tx[w].acquired,
                                         !.released = @ + tx[w].released]
    <2>1. lockLog[r] \in Counts /\ tx[w].acquired \in {0, 1} /\ tx[w].released \in {0, 1}
      BY <1>1 DEF TypeOK, Transaction
    <2>2. row \in Counts
      <3> DEFINE c == lockLog[r]
      <3>1. c \in Counts /\ c.acquired \in Nat /\ c.released \in Nat
        BY <2>1
      <3>2. /\ c.acquired + tx[w].acquired \in Nat
            /\ c.released + tx[w].released \in Nat
        BY <2>1, <3>1
      <3> HIDE DEF c
      <3> QED
        BY <3>1, <3>2 DEF c
    <2>3. lockLog' = [lockLog EXCEPT ![r] = row]
      BY <1>1, <2>1 DEF TypeOK, Publish
    <2> QED
      BY <1>1, <2>2, <2>3 DEF TypeOK
  <1>8. /\ base' = base /\ attempts' = attempts
        /\ pc' \in [Workers -> Steps \cup FailSteps \cup Ended]
        /\ run' \in [Workers -> Runs \cup {NoRun}]
        /\ lockToken' \in [Workers -> SUBSET Token]
        /\ tx' \in [Workers -> Transaction]
        /\ \A v \in Workers : pc'[v] \notin Ended => run'[v] \in Runs
    BY NoTxType DEF TypeOK, EndIngest, Ended
  <1> QED
    BY <1>2, <1>3, <1>4, <1>5, <1>6, <1>7, <1>8 DEF TypeOK

\* An ingester that ends without committing keeps the types, too.
LEMMA EndType ==
  ASSUME TypeOK, NEW w \in Workers, NEW how \in Ended, EndIngest(w, how), UNCHANGED db
  PROVE  TypeOK'
  BY NoTxType DEF TypeOK, EndIngest, Ended, db

LEMMA TypeStep == TypeOK /\ [Next]_vars => TypeOK'
  <1> SUFFICES ASSUME TypeOK, [Next]_vars PROVE TypeOK'
    OBVIOUS
  <1>1. ASSUME NEW w \in Workers, NEW r \in Runs, StartIngest(w, r) PROVE TypeOK'
    BY <1>1 DEF TypeOK, StartIngest, db, Steps
  <1>2. ASSUME NEW w \in Workers, AcquireRunLock(w) PROVE TypeOK'
    <2> DEFINE mine == [run |-> run[w], owner |-> OwnerOf[w],
                        token |-> <<w, attempts[w]>>, live |-> TRUE]
    <2>1. run[w] \in Runs /\ tx[w] \in Transaction
      BY <1>2 DEF TypeOK, AcquireRunLock, Ended
    <2>2. mine \in LockRow
      BY <2>1 DEF LockRow, Token, TypeOK
    <2>3. CASE EndIngest(w, "exited")
      BY <1>2, <2>3, EndType DEF AcquireRunLock, Ended
    <2>4. CASE /\ tx' = [tx EXCEPT ![w] = Acquired(@, mine)]
               /\ lockToken' = [lockToken EXCEPT ![w] = {mine.token}]
               /\ pc' = [pc EXCEPT ![w] = "begin"]
               /\ UNCHANGED <<base, run, attempts>>
      <3>1. tx' \in [Workers -> Transaction]
        BY <2>1, <2>2, <2>4, AcquiredEffect DEF TypeOK
      <3>2. lockToken' \in [Workers -> SUBSET Token]
        BY <2>4 DEF TypeOK, Token
      <3> QED
        BY <1>2, <2>1, <2>4, <3>1, <3>2 DEF TypeOK, AcquireRunLock, db, Steps
    <2> QED
      BY <1>2, <2>3, <2>4 DEF AcquireRunLock
  <1>3. ASSUME NEW w \in Workers, BeginRunRunning(w) PROVE TypeOK'
    <2> DEFINE prev == status[run[w]]
    <2>1. run[w] \in Runs /\ tx[w] \in Transaction /\ prev \in Statuses
      BY <1>3 DEF TypeOK, BeginRunRunning, Ended
    <2>2. \E t \in Transaction : tx' = [tx EXCEPT ![w] = t]
      <3>1. CASE prev = "ready"
        <4> DEFINE t == RowLocked(tx[w])
        <4>1. tx' = [tx EXCEPT ![w] = Released(t)]
          BY <1>3, <2>1, <3>1, Zenon DEF BeginRunRunning, TypeOK
        <4>2. t \in Transaction
          BY <2>1, RowLockedEffect
        <4>3. Released(t) \in Transaction
          BY <4>2, ReleasedEffect
        <4> QED
          BY <4>1, <4>3
      <3>2. CASE prev = "none"
        <4>1. tx' = tx
          BY <1>3, <3>2 DEF BeginRunRunning
        <4>2. tx = [tx EXCEPT ![w] = tx[w]]
          BY DEF TypeOK
        <4> QED
          BY <2>1, <4>1, <4>2
      <3>3. CASE prev \in {"running", "failed"}
        <4>1. tx' = [tx EXCEPT ![w] = Running(tx[w], "row", prev)]
          BY <1>3, <2>1, <3>3 DEF BeginRunRunning, TypeOK
        <4>2. Running(tx[w], "row", prev) \in Transaction
          BY <2>1, RunningEffect
        <4> QED
          BY <4>1, <4>2
      <3> QED
        BY <2>1, <3>1, <3>2, <3>3 DEF Statuses
    <2>3. tx' \in [Workers -> Transaction]
      BY <2>2 DEF TypeOK
    <2> QED
      BY <1>3, <2>1, <2>3 DEF TypeOK, BeginRunRunning, db, Steps
  <1>4. ASSUME NEW w \in Workers, InsertRunning(w) PROVE TypeOK'
    <2>1. tx' \in [Workers -> Transaction]
      BY <1>4, RunningEffect DEF TypeOK, InsertRunning, Statuses
    <2> QED
      BY <1>4, <2>1 DEF TypeOK, InsertRunning, db, Steps, Ended
  <1>5. ASSUME NEW w \in Workers, LoadPresence(w) PROVE TypeOK'
    <2>1. tx' \in [Workers -> Transaction]
      BY <1>5, LoadedEffect DEF TypeOK, LoadPresence
    <2> QED
      BY <1>5, <2>1 DEF TypeOK, LoadPresence, db, Steps, Ended
  <1>6. ASSUME NEW w \in Workers, UpsertLatest(w) PROVE TypeOK'
    <2>1. tx[w] \in Transaction
      BY DEF TypeOK
    <2>2. RowUpserted(tx[w]) \in Transaction
      BY <2>1, RowUpsertedEffect
    <2>3. tx' = [tx EXCEPT ![w] = RowUpserted(tx[w])]
      BY <1>6, Zenon DEF UpsertLatest, TypeOK
    <2>4. tx' \in [Workers -> Transaction]
      BY <2>2, <2>3 DEF TypeOK
    <2> QED
      BY <1>6, <2>4 DEF TypeOK, UpsertLatest, db
  <1>7. ASSUME NEW w \in Workers, TransitionRunToReady(w) PROVE TypeOK'
    <2>1. tx' \in [Workers -> Transaction]
      <3>1. tx' = [tx EXCEPT ![w] = Released(Ready(tx[w]))]
        BY <1>7 DEF TransitionRunToReady, TypeOK
      <3>2. Ready(tx[w]) \in Transaction
        BY ReadyEffect DEF TypeOK
      <3> QED
        BY <3>1, <3>2, ReleasedEffect DEF TypeOK
    <2> QED
      BY <1>7, <2>1 DEF TypeOK, TransitionRunToReady, db, Steps, Ended
  <1>8. ASSUME NEW w \in Workers, CommitIngest(w) \/ CommitFailed(w) PROVE TypeOK'
    BY <1>8, PublishType DEF CommitIngest, CommitFailed, Ended
  <1>9. ASSUME NEW w \in Workers, FailIngest(w) PROVE TypeOK'
    BY <1>9, NoTxType DEF TypeOK, FailIngest, db, FailSteps, Steps, Ended
  <1>10. ASSUME NEW w \in Workers, NEW prev \in Statuses, NEW row \in {"row", "insert"},
                run[w] \in Runs, MarkFailed(w, prev, row),
                UNCHANGED <<db, base, run, lockToken, attempts>>
         PROVE  TypeOK'
    <2> DEFINE held == {l \in runLocks : l.run = run[w] /\ l.token \in lockToken[w]}
    <2>1. tx' = [tx EXCEPT ![w] = Failed(tx[w], row, prev, held)]
      BY <1>10 DEF MarkFailed, TypeOK
    <2>2. Failed(tx[w], row, prev, held) \in Transaction
      BY FailedEffect DEF TypeOK
    <2>3. tx' \in [Workers -> Transaction]
      BY <2>1, <2>2 DEF TypeOK
    <2> QED
      BY <1>10, <2>3 DEF TypeOK, MarkFailed, db, FailSteps
  <1>11. ASSUME NEW w \in Workers, SelectForFailed(w) PROVE TypeOK'
    <2>1. run[w] \in Runs /\ status[run[w]] \in Statuses
      BY <1>11 DEF TypeOK, SelectForFailed, Ended
    <2>2. CASE status[run[w]] = "none"
      BY <1>11, <2>1, <2>2 DEF TypeOK, SelectForFailed, db, FailSteps
    <2> QED
      BY <1>10, <1>11, <2>1, <2>2 DEF SelectForFailed
  <1>12. ASSUME NEW w \in Workers, InsertFailed(w) PROVE TypeOK'
    <2>1. run[w] \in Runs /\ status[run[w]] \in Statuses
      BY <1>12 DEF TypeOK, InsertFailed, Ended
    <2> QED
      BY <1>10, <1>12, <2>1, EndType DEF InsertFailed, Statuses, Ended
  <1>13. ASSUME NEW w \in Workers, CrashIngest(w) PROVE TypeOK'
    BY <1>13, EndType DEF CrashIngest, Ended
  <1>14. ASSUME NEW r \in Runs, LockExpires(r) PROVE TypeOK'
    <2>2. runLocks' \in SUBSET LockRow
      BY <1>14, ExpiredType DEF TypeOK, LockExpires
    <2>4. tx' \in [Workers -> Transaction]
      BY <1>14, ExpiredEffect DEF TypeOK, LockExpires
    <2> QED
      BY <1>14, <2>2, <2>4 DEF TypeOK, LockExpires
  <1>15. ASSUME RecoverStaleRuns PROVE TypeOK'
    <2> PICK reaped \in SUBSET Reapable, failed \in SUBSET StaleRuns :
          /\ runLocks' = runLocks \ reaped
          /\ lockLog' = [r \in Runs |-> [lockLog[r] EXCEPT
               !.expired = IF \E l \in reaped : l.run = r THEN @ + 1 ELSE @]]
          /\ status' = [r \in Runs |-> IF r \in failed THEN "failed" ELSE status[r]]
          /\ journal' = [r \in Runs |-> IF r \in failed
               THEN Append(journal[r], [from |-> "running", to |-> "failed"])
               ELSE journal[r]]
          /\ UNCHANGED <<presence, latest, base, pc, run, lockToken, tx, attempts>>
      BY <1>15 DEF RecoverStaleRuns
    <2>1. journal' \in [Runs -> Seq(Hop)]
      <3>1. \A r \in Runs :
              Append(journal[r], [from |-> "running", to |-> "failed"]) \in Seq(Hop)
        BY HopType DEF TypeOK, Statuses
      <3> QED
        BY <3>1 DEF TypeOK
    <2>2. lockLog' \in [Runs -> [acquired : Nat, released : Nat, expired : Nat]]
      <3>1. \A r \in Runs : lockLog[r].expired + 1 \in Nat
        BY DEF TypeOK
      <3> QED
        BY <3>1 DEF TypeOK
    <2>3. status' \in [Runs -> Statuses]
      BY DEF TypeOK, Statuses
    <2> QED
      BY <2>1, <2>2, <2>3 DEF TypeOK
  <1>16. CASE UNCHANGED vars
    BY <1>16 DEF TypeOK, vars, db
  <1> QED
    BY <1>1, <1>2, <1>3, <1>4, <1>5, <1>6, <1>7, <1>8, <1>9, <1>11, <1>12, <1>13,
       <1>14, <1>15, <1>16 DEF Next, Advance

LEMMA TypeInit == Init => TypeOK
  <1> SUFFICES ASSUME Init PROVE TypeOK
    OBVIOUS
  <1>1. tx \in [Workers -> Transaction]
    BY NoTxType DEF Init
  <1>2. journal \in [Runs -> Seq(Hop)] /\ runLocks \in SUBSET LockRow
    BY DEF Init
  <1>3. lockLog \in [Runs -> [acquired : Nat, released : Nat, expired : Nat]]
    BY DEF Init
  <1> QED
    BY <1>1, <1>2, <1>3 DEF Init, TypeOK, Ended

\* Every reachable state is well typed: an active ingester always has a run, and
\* what it holds is a transaction.
THEOREM TypeCorrect == Spec => []TypeOK
  BY TypeInit, TypeStep, PTL DEF Spec

-----------------------------------------------------------------------------
(* The locks and their events.                                              *)

\* A step of the others that leaves w and its transaction alone.
Spared(w) == pc'[w] = pc[w] /\ run'[w] = run[w] /\ tx'[w] = tx[w]

LEMMA OthersSpared ==
  ASSUME TypeOK, NEW w \in Workers,
         (\E r \in Runs : StartIngest(w, r)) \/ Advance(w) \/ FailIngest(w) \/ CrashIngest(w)
  PROVE  \A v \in Workers \ {w} : Spared(v)
  BY DEF TypeOK, Spared, StartIngest, Advance, FailIngest, CrashIngest, AcquireRunLock,
         BeginRunRunning, InsertRunning, LoadPresence, UpsertLatest,
         TransitionRunToReady, CommitIngest, SelectForFailed, InsertFailed, CommitFailed,
         MarkFailed, EndIngest

\* The sweep, field by field.
LEMMA SweepEffect ==
  ASSUME RecoverStaleRuns
  PROVE  \E reaped \in SUBSET Reapable, failed \in SUBSET StaleRuns :
           /\ runLocks' = runLocks \ reaped
           /\ lockLog' = [r \in Runs |-> [lockLog[r] EXCEPT
                !.expired = IF \E l \in reaped : l.run = r THEN @ + 1 ELSE @]]
           /\ status' = [r \in Runs |-> IF r \in failed THEN "failed" ELSE status[r]]
           /\ journal' = [r \in Runs |-> IF r \in failed
                THEN Append(journal[r], [from |-> "running", to |-> "failed"])
                ELSE journal[r]]
           /\ UNCHANGED <<presence, latest, base, pc, run, lockToken, tx, attempts>>
  BY DEF RecoverStaleRuns

\* A commit adds as many acquired as released events, and leaves no lock row.
LEMMA PublishLocks ==
  ASSUME TypeOK, LocksStayPrivate, NEW w \in Workers, run[w] \in Runs, Publish(w),
         tx[w].lock = {}, tx[w].acquired = tx[w].released
  PROVE  LocksStayPrivate'
  <1>1. tx[w] \in Transaction
    BY DEF TypeOK
  <1>2. runLocks' = {}
    BY DEF Publish, LocksStayPrivate
  <1>3. ASSUME NEW r \in Runs
        PROVE  lockLog'[r].acquired = lockLog'[r].released /\ lockLog'[r].expired = 0
    <2> DEFINE row == [lockLog[run[w]] EXCEPT !.acquired = @ + tx[w].acquired,
                                             !.released = @ + tx[w].released]
    <2>1. lockLog' = [lockLog EXCEPT ![run[w]] = row]
      BY DEF Publish, TypeOK
    <2>2. lockLog[run[w]] \in [acquired : Nat, released : Nat, expired : Nat]
      BY DEF TypeOK
    <2>3. /\ row.acquired = lockLog[run[w]].acquired + tx[w].acquired
          /\ row.released = lockLog[run[w]].released + tx[w].released
          /\ row.expired = lockLog[run[w]].expired
      BY <2>2
    <2>4. row.acquired = row.released /\ row.expired = 0
      BY <2>3 DEF LocksStayPrivate
    <2> HIDE DEF row
    <2> QED
      BY <2>1, <2>4 DEF LocksStayPrivate, TypeOK
  <1> QED
    BY <1>2, <1>3 DEF LocksStayPrivate

LEMMA LockStep == TypeOK /\ LockInv /\ [Next]_vars => LockInv'
  <1> SUFFICES ASSUME TypeOK, LockInv, [Next]_vars PROVE LockInv'
    OBVIOUS
  <1>1. ASSUME NEW w \in Workers, \A v \in Workers \ {w} : Spared(v), Balanced(w)'
        PROVE  \A v \in Workers : Balanced(v)'
    BY <1>1 DEF LockInv, Balanced, Spared
  <1>2. ASSUME UNCHANGED db PROVE LocksStayPrivate'
    BY <1>2 DEF db, LockInv, LocksStayPrivate
  <1>3. ASSUME NEW w \in Workers, NEW how \in Ended, EndIngest(w, how) PROVE Balanced(w)'
    BY <1>3 DEF EndIngest, Balanced, TypeOK, Ended, Unstarted
  <1>4. \A w \in Workers : tx[w] \in Transaction /\ Balanced(w)
    BY DEF TypeOK, LockInv
  <1>5. NoTx.lock = {} /\ NoTx.acquired = 0 /\ NoTx.released = 0 /\ ~NoTx.key
    BY DEF NoTx
  <1>6. ASSUME NEW w \in Workers, NEW r \in Runs, StartIngest(w, r) PROVE LockInv'
    <2>1. Balanced(w)'
      BY <1>6, <1>4 DEF StartIngest, Balanced, TypeOK, Ended, Unstarted
    <2> QED
      BY <1>1, <1>2, <1>6, <2>1, OthersSpared DEF LockInv, StartIngest
  <1>7. ASSUME NEW w \in Workers, AcquireRunLock(w) PROVE LockInv'
    <2> DEFINE mine == [run |-> run[w], owner |-> OwnerOf[w],
                        token |-> <<w, attempts[w]>>, live |-> TRUE]
    <2>1. Balanced(w)'
      <3>1. CASE EndIngest(w, "exited")
        BY <3>1, <1>3 DEF Ended
      <3>2. CASE tx' = [tx EXCEPT ![w] = Acquired(@, mine)] /\ pc' = [pc EXCEPT ![w] = "begin"]
        <4>1. mine \in LockRow
          BY <1>7 DEF LockRow, Token, TypeOK, AcquireRunLock, Ended
        <4>2. tx[w] = NoTx
          BY <1>4, <1>7 DEF Balanced, AcquireRunLock, Unstarted
        <4>3. /\ Acquired(tx[w], mine).key /\ Acquired(tx[w], mine).acquired = 1
              /\ Acquired(tx[w], mine).released = 0
          BY <1>4, <1>5, <4>1, <4>2, AcquiredEffect
        <4>4. tx'[w].key /\ tx'[w].acquired = 1 /\ tx'[w].released = 0 /\ pc'[w] = "begin"
          BY <3>2, <4>3 DEF TypeOK
        <4> QED
          BY <4>4 DEF Balanced, Ended, Unstarted
      <3> QED
        BY <1>7, <3>1, <3>2 DEF AcquireRunLock
    <2> QED
      BY <1>1, <1>2, <1>7, <2>1, OthersSpared DEF LockInv, AcquireRunLock, Advance
  <1>8. ASSUME NEW w \in Workers, BeginRunRunning(w) PROVE LockInv'
    <2>1. tx[w].key /\ tx[w].acquired = 1 /\ tx[w].released = 0
      BY <1>4, <1>8 DEF Balanced, BeginRunRunning
    <2>2. run[w] \in Runs /\ status[run[w]] \in Statuses
      BY <1>8 DEF BeginRunRunning, TypeOK, Ended
    <2>3. Balanced(w)'
      <3>1. CASE pc'[w] = "commit" /\ tx'[w] = Released(RowLocked(tx[w]))
        <4>1. /\ tx'[w].key /\ tx'[w].lock = {}
              /\ tx'[w].acquired = 1 /\ tx'[w].released = 1
          BY <1>4, <2>1, <3>1, RowLockedEffect, ReleasedEffect
        <4> QED
          BY <3>1, <4>1 DEF Balanced, Ended, Unstarted
      <3>2. CASE pc'[w] = "insert" /\ tx' = tx
        BY <2>1, <3>2 DEF Balanced, Ended, Unstarted
      <3>3. CASE pc'[w] = "load" /\ tx'[w] = Running(tx[w], "row", status[run[w]])
        <4> DEFINE t == Running(tx[w], "row", status[run[w]])
        <4>1. t.key = tx[w].key /\ t.acquired = tx[w].acquired /\ t.released = tx[w].released
          BY <1>4, <2>2, RunningEffect
        <4>2. tx'[w].key /\ tx'[w].acquired = 1 /\ tx'[w].released = 0
          BY <2>1, <3>3, <4>1
        <4> QED
          BY <3>3, <4>2 DEF Balanced, Ended, Unstarted
      <3> QED
        BY <1>8, <3>1, <3>2, <3>3 DEF BeginRunRunning, TypeOK
    <2> QED
      BY <1>1, <1>2, <1>8, <2>3, OthersSpared DEF LockInv, BeginRunRunning, Advance
  <1>9. ASSUME NEW w \in Workers, InsertRunning(w) PROVE LockInv'
    <2>1. tx[w].key /\ tx[w].acquired = 1 /\ tx[w].released = 0
      BY <1>4, <1>9 DEF Balanced, InsertRunning
    <2>2. pc'[w] = "load" /\ tx'[w] = Running(tx[w], "insert", "none")
      BY <1>9 DEF InsertRunning, TypeOK
    <2>3. tx'[w].key /\ tx'[w].acquired = 1 /\ tx'[w].released = 0
      BY <1>4, <2>1, <2>2, RunningEffect DEF Statuses
    <2>4. Balanced(w)'
      BY <2>2, <2>3 DEF Balanced, Ended, Unstarted
    <2> QED
      BY <1>1, <1>2, <1>9, <2>4, OthersSpared DEF LockInv, InsertRunning, Advance
  <1>10. ASSUME NEW w \in Workers, LoadPresence(w) PROVE LockInv'
    <2>1. tx[w].key /\ tx[w].acquired = 1 /\ tx[w].released = 0
      BY <1>4, <1>10 DEF Balanced, LoadPresence
    <2>2. pc'[w] = "upsert" /\ tx'[w] = Loaded(tx[w])
      BY <1>10 DEF LoadPresence, TypeOK
    <2>3. tx'[w].key /\ tx'[w].acquired = 1 /\ tx'[w].released = 0
      BY <1>4, <2>1, <2>2, LoadedEffect
    <2>4. Balanced(w)'
      BY <2>2, <2>3 DEF Balanced, Ended, Unstarted
    <2> QED
      BY <1>1, <1>2, <1>10, <2>4, OthersSpared DEF LockInv, LoadPresence, Advance
  <1>11. ASSUME NEW w \in Workers, UpsertLatest(w) PROVE LockInv'
    <2>1. tx[w].key /\ tx[w].acquired = 1 /\ tx[w].released = 0
      BY <1>4, <1>11 DEF Balanced, UpsertLatest
    <2>2. pc'[w] = "upsert" /\ tx'[w] = RowUpserted(tx[w])
      BY <1>11 DEF UpsertLatest, TypeOK
    <2>3. tx'[w].key /\ tx'[w].acquired = 1 /\ tx'[w].released = 0
      BY <1>4, <2>1, <2>2, RowUpsertedEffect
    <2>4. Balanced(w)'
      BY <2>2, <2>3 DEF Balanced, Ended, Unstarted
    <2> QED
      BY <1>1, <1>2, <1>11, <2>4, OthersSpared DEF LockInv, UpsertLatest, Advance
  <1>12. ASSUME NEW w \in Workers, TransitionRunToReady(w) PROVE LockInv'
    <2>1. tx[w].key /\ tx[w].acquired = 1
      BY <1>4, <1>12 DEF Balanced, TransitionRunToReady
    <2>2. pc'[w] = "commit" /\ tx'[w] = Released(Ready(tx[w]))
      BY <1>12 DEF TransitionRunToReady, TypeOK
    <2>3. /\ tx'[w].key /\ tx'[w].lock = {}
          /\ tx'[w].acquired = 1 /\ tx'[w].released = 1
      BY <1>4, <2>1, <2>2, ReadyEffect, ReleasedEffect
    <2>4. Balanced(w)'
      BY <2>2, <2>3 DEF Balanced, Ended, Unstarted
    <2> QED
      BY <1>1, <1>2, <1>12, <2>4, OthersSpared DEF LockInv, TransitionRunToReady, Advance
  <1>13. ASSUME NEW w \in Workers, CommitIngest(w) \/ CommitFailed(w) PROVE LockInv'
    <2>1. run[w] \in Runs /\ tx[w].lock = {} /\ tx[w].acquired = tx[w].released
      BY <1>4, <1>13 DEF CommitIngest, CommitFailed, Balanced, TypeOK, Ended
    <2>2. LocksStayPrivate'
      BY <1>13, <2>1, PublishLocks DEF CommitIngest, CommitFailed, LockInv
    <2>3. Balanced(w)'
      BY <1>13, <1>3 DEF CommitIngest, CommitFailed, Ended
    <2> QED
      BY <1>1, <1>13, <2>2, <2>3, OthersSpared DEF LockInv, Advance
  <1>14. ASSUME NEW w \in Workers, FailIngest(w) PROVE LockInv'
    <2>1. Balanced(w)'
      BY <1>14 DEF FailIngest, Balanced, TypeOK, Ended, Unstarted
    <2> QED
      BY <1>1, <1>2, <1>14, <2>1, OthersSpared DEF LockInv, FailIngest
  <1>15. ASSUME NEW w \in Workers, NEW prev \in Statuses, NEW row \in {"row", "insert"},
                tx[w] = NoTx, MarkFailed(w, prev, row)
         PROVE  Balanced(w)'
    <2>1. pc'[w] = "failCommit" /\ tx'[w] = Failed(tx[w], row, prev, {})
      BY <1>15 DEF MarkFailed, TypeOK, LockInv, LocksStayPrivate
    <2> DEFINE t == Failed(tx[w], row, prev, {})
    <2>3. {} \in SUBSET LockRow /\ tx[w] \in Transaction
      BY <1>4
    <2>4. t.lock = tx[w].lock /\ t.acquired = tx[w].acquired /\ ~t.key /\ t.released = 0
      BY <2>3, FailedEffect, ZenonT(30)
    <2>2. /\ ~tx'[w].key /\ tx'[w].lock = {}
          /\ tx'[w].acquired = 0 /\ tx'[w].released = 0
      BY <1>5, <1>15, <2>1, <2>4
    <2> QED
      BY <2>1, <2>2 DEF Balanced, Ended, Unstarted
  <1>16. ASSUME NEW w \in Workers, SelectForFailed(w) PROVE LockInv'
    <2>1. tx[w] = NoTx /\ run[w] \in Runs /\ status[run[w]] \in Statuses
      BY <1>4, <1>16 DEF Balanced, SelectForFailed, Unstarted, TypeOK, Ended
    <2>2. Balanced(w)'
      <3>1. CASE status[run[w]] = "none"
        BY <1>16, <2>1, <3>1 DEF SelectForFailed, Balanced, TypeOK, Ended, Unstarted
      <3> QED
        BY <1>15, <1>16, <2>1, <3>1 DEF SelectForFailed
    <2> QED
      BY <1>1, <1>2, <1>16, <2>2, OthersSpared DEF LockInv, SelectForFailed, Advance
  <1>17. ASSUME NEW w \in Workers, InsertFailed(w) PROVE LockInv'
    <2>1. tx[w] = NoTx
      BY <1>4, <1>17 DEF Balanced, InsertFailed, Unstarted
    <2>2. Balanced(w)'
      BY <1>3, <1>15, <1>17, <2>1 DEF InsertFailed, Statuses, Ended
    <2> QED
      BY <1>1, <1>2, <1>17, <2>2, OthersSpared DEF LockInv, InsertFailed, Advance
  <1>18. ASSUME NEW w \in Workers, CrashIngest(w) PROVE LockInv'
    BY <1>1, <1>2, <1>3, <1>18, OthersSpared DEF LockInv, CrashIngest, Ended
  <1>19. ASSUME NEW r \in Runs, LockExpires(r) PROVE LockInv'
    <2>1. LocksStayPrivate'
      BY <1>19 DEF LockExpires, LockInv, LocksStayPrivate, Expired
    <2>2. ASSUME NEW w \in Workers PROVE Balanced(w)'
      <3>1. tx'[w] = [tx[w] EXCEPT !.lock = Expired(@, r)] /\ pc'[w] = pc[w]
        BY <1>19 DEF LockExpires
      <3>2. /\ tx[w].lock = {} => tx'[w] = tx[w]
            /\ tx'[w].key = tx[w].key /\ tx'[w].acquired = tx[w].acquired
            /\ tx'[w].released = tx[w].released
        BY <1>4, <3>1, ExpiredEffect
      <3> QED
        BY <1>4, <1>5, <3>1, <3>2 DEF Balanced
    <2> QED
      BY <2>1, <2>2 DEF LockInv
  <1>20. ASSUME RecoverStaleRuns PROVE LockInv'
    <2>1. Reapable = {}
      BY DEF Reapable, LockInv, LocksStayPrivate
    <2>2. /\ runLocks' = runLocks
          /\ lockLog' = [r \in Runs |-> [lockLog[r] EXCEPT !.expired = @]]
          /\ UNCHANGED <<pc, run, tx>>
      BY <1>20, <2>1, SweepEffect
    <2>3. \A r \in Runs : lockLog'[r] = lockLog[r]
      BY <2>2 DEF TypeOK
    <2> QED
      BY <2>2, <2>3 DEF LockInv, LocksStayPrivate, Balanced
  <1>21. CASE UNCHANGED vars
    BY <1>21 DEF LockInv, LocksStayPrivate, Balanced, vars, db
  <1> QED
    BY <1>6, <1>7, <1>8, <1>9, <1>10, <1>11, <1>12, <1>13, <1>14, <1>16, <1>17, <1>18,
       <1>19, <1>20, <1>21 DEF Next, Advance

LEMMA LockInit == Init => LockInv
  BY DEF Init, LockInv, LocksStayPrivate, Balanced, Ended, Unstarted

\* Nobody ever sees a lock row, an acquired event without its released one, or a
\* lock that expired (test of LocksStayPrivate for every number of ingesters).
THEOREM LocksPrivate == Spec => []LocksStayPrivate
  <1>1. TypeOK /\ LockInv => LocksStayPrivate
    BY DEF LockInv
  <1> QED
    BY <1>1, TypeInit, TypeStep, LockInit, LockStep, PTL DEF Spec
-----------------------------------------------------------------------------
(* The rows of the runs and their events.                                   *)

\* A transaction that holds nothing is compatible with every other one.
LEMMA FreeRow ==
  ASSUME TypeOK, LockInv, RowInv, NEW w \in Workers,
         \A v \in Workers \ {w} : Spared(v), status' = status,
         Chaining(w)', ~tx'[w].key, tx'[w].row = "free"
  PROVE  RowInv'
  <1>1. \A v \in Workers \ {w} : Chaining(v)'
    BY DEF RowInv, Chaining, Spared
  <1>2. \A u, v \in Workers : u # v => Exclusive(u, v)'
    BY DEF RowInv, Exclusive, Spared
  <1> QED
    BY <1>1, <1>2 DEF RowInv

\* An ingester that takes no more than it had, or what no other transaction on the
\* run has, keeps the transactions apart.
LEMMA HeldRow ==
  ASSUME TypeOK, LockInv, RowInv, NEW w \in Workers,
         \A v \in Workers \ {w} : Spared(v), status' = status, run'[w] = run[w],
         Chaining(w)',
         tx'[w].key => tx[w].key \/ KeyFree(w),
         tx'[w].row # "free" =>
           tx[w].row # "free" \/ \A v \in Others(w) : tx[v].row = "free"
  PROVE  RowInv'
  <1>1. \A v \in Workers \ {w} : Chaining(v)'
    BY DEF RowInv, Chaining, Spared
  <1>2. ASSUME NEW v \in Workers \ {w} PROVE Exclusive(v, w)' /\ Exclusive(w, v)'
    BY <1>2 DEF RowInv, Exclusive, Spared, KeyFree, Others
  <1>3. \A u, v \in Workers \ {w} : u # v => Exclusive(u, v)'
    BY DEF RowInv, Exclusive, Spared
  <1> QED
    BY <1>1, <1>2, <1>3 DEF RowInv

\* The row of an existing run is free, or the unique key of a missing one: the
\* status that is committed tells which of the two another transaction can hold.
LEMMA RowIsFree ==
  ASSUME RowInv, NEW w \in Workers,
         \/ RowFree(w) /\ status[run[w]] # "none"
         \/ InsertFree(w) /\ status[run[w]] = "none",
         \A v \in Workers : tx[v] \in Transaction
  PROVE  \A v \in Others(w) : tx[v].row = "free"
  BY DEF RowInv, Chaining, RowFree, InsertFree, Others, Transaction

LEMMA ChainAppend ==
  ASSUME NEW from, NEW mid, NEW to, NEW j \in Seq(Hop), NEW e \in Seq(Hop),
         Chained(from, j, mid), Chained(mid, e, to)
  PROVE  Chained(from, j \o e, to)
  <1>1. CASE j = <<>>
    <2>1. j \o e = e /\ from = mid
      BY <1>1 DEF Chained
    <2> QED
      BY <2>1
  <1>2. CASE e = <<>>
    <2>1. j \o e = j /\ to = mid
      BY <1>2 DEF Chained
    <2> QED
      BY <2>1
  <1>3. CASE j # <<>> /\ e # <<>>
    <2>1. /\ Len(j) \in Nat \ {0} /\ Len(e) \in Nat \ {0}
          /\ j \o e \in Seq(Hop) /\ Len(j \o e) = Len(j) + Len(e)
      BY <1>3
    <2>2. (j \o e)[1] = j[1]
      BY <2>1
    <2>3. (j \o e)[Len(j \o e)] = e[Len(e)]
      BY <2>1
    <2>4. ASSUME NEW i \in 1 .. Len(j \o e) - 1
          PROVE  (j \o e)[i + 1].from = (j \o e)[i].to
      <3>1. CASE i < Len(j)
        <4>1. (j \o e)[i] = j[i] /\ (j \o e)[i + 1] = j[i + 1] /\ i \in 1 .. Len(j) - 1
          BY <2>1, <2>4, <3>1
        <4> QED
          BY <1>3, <4>1 DEF Chained
      <3>2. CASE i = Len(j)
        <4>1. (j \o e)[i] = j[Len(j)] /\ (j \o e)[i + 1] = e[1]
          BY <2>1, <3>2
        <4> QED
          BY <1>3, <4>1 DEF Chained
      <3>3. CASE i > Len(j)
        <4> DEFINE k == i - Len(j)
        <4>1. (j \o e)[i] = e[k] /\ (j \o e)[i + 1] = e[k + 1] /\ k \in 1 .. Len(e) - 1
          BY <2>1, <2>4, <3>3
        <4> HIDE DEF k
        <4> QED
          BY <1>3, <4>1 DEF Chained
      <3> QED
        BY <2>1, <3>1, <3>2, <3>3
    <2>5. j \o e # <<>>
      BY <2>1
    <2> QED
      BY <1>3, <2>2, <2>3, <2>4, <2>5 DEF Chained
  <1> QED
    BY <1>1, <1>2, <1>3

\* A commit moves the status of its run along its own events; every other
\* transaction on the run has not touched the row yet.
LEMMA PublishRow ==
  ASSUME TypeOK, LockInv, RowInv, NEW w \in Workers, pc[w] \in {"commit", "failCommit"},
         Publish(w), NEW how \in Ended, EndIngest(w, how),
         \A v \in Workers \ {w} : Spared(v)
  PROVE  RowInv'
  <1>1. run[w] \in Runs /\ tx[w].row # "free"
    BY DEF TypeOK, Ended, RowInv, Chaining
  <1>2. /\ pc'[w] \in Ended /\ tx'[w] = NoTx /\ run'[w] = NoRun
        /\ NoTx.row = "free" /\ ~NoTx.key
    BY DEF EndIngest, TypeOK, NoTx
  <1>3. Chaining(w)'
    BY <1>2 DEF Chaining, Ended
  <1>4. \A r \in Runs \ {run[w]} : status'[r] = status[r]
    BY <1>1 DEF Publish, TypeOK
  <1>5. ASSUME NEW v \in Workers \ {w} PROVE Chaining(v)'
    <2>1. CASE pc[v] \in Ended
      <3>1. tx[v] = NoTx
        BY <2>1 DEF LockInv, Balanced
      <3> QED
        BY <1>2, <2>1, <3>1 DEF Chaining, Spared, Ended
    <2>2. CASE pc[v] \notin Ended /\ run[v] # run[w]
      <3>1. run[v] \in Runs /\ status'[run[v]] = status[run[v]]
        BY <1>4, <2>2 DEF TypeOK
      <3> QED
        BY <3>1 DEF RowInv, Chaining, Spared
    <2>3. CASE run[v] = run[w]
      <3>1. tx[v].row = "free"
        BY <1>1, <2>3 DEF RowInv, Exclusive
      <3>2. pc[v] \notin {"load", "upsert", "commit", "failCommit"}
        BY <3>1 DEF RowInv, Chaining
      <3> QED
        BY <3>1, <3>2 DEF RowInv, Chaining, Spared
    <2> QED
      BY <2>1, <2>2, <2>3
  <1>6. ASSUME NEW u \in Workers, NEW v \in Workers, u # v PROVE Exclusive(u, v)'
    BY <1>2, <1>6 DEF RowInv, Exclusive, Spared
  <1> QED
    BY <1>3, <1>5, <1>6 DEF RowInv

LEMMA RowStep == TypeOK /\ LockInv /\ RowInv /\ [Next]_vars => RowInv'
  <1> SUFFICES ASSUME TypeOK, LockInv, RowInv, [Next]_vars PROVE RowInv'
    OBVIOUS
  <1>1. NoTx.row = "free" /\ NoTx.state = "none" /\ NoTx.events = <<>> /\ ~NoTx.key
    BY DEF NoTx
  <1>2. \A w \in Workers : tx[w] \in Transaction /\ Balanced(w) /\ Chaining(w)
    BY DEF TypeOK, LockInv, RowInv
  <1>3. ASSUME NEW w \in Workers, NEW how \in Ended, EndIngest(w, how), status' = status,
               \A v \in Workers \ {w} : Spared(v)
        PROVE  RowInv'
    <2>1. tx'[w] = NoTx /\ pc'[w] \in Ended
      BY <1>3 DEF EndIngest, TypeOK
    <2>2. Chaining(w)'
      BY <1>1, <2>1 DEF Chaining, Ended
    <2> QED
      BY <1>1, <1>3, <2>1, <2>2, FreeRow
  <1>4. ASSUME NEW w \in Workers, NEW r \in Runs, StartIngest(w, r) PROVE RowInv'
    <2>1. tx'[w] = NoTx /\ pc'[w] = "acquire" /\ status' = status
      BY <1>2, <1>4 DEF StartIngest, TypeOK, Balanced, db
    <2>2. Chaining(w)'
      BY <1>1, <2>1 DEF Chaining
    <2> QED
      BY <1>1, <1>4, <2>1, <2>2, FreeRow, OthersSpared
  <1>5. ASSUME NEW w \in Workers, AcquireRunLock(w) PROVE RowInv'
    <2> DEFINE mine == [run |-> run[w], owner |-> OwnerOf[w],
                        token |-> <<w, attempts[w]>>, live |-> TRUE]
    <2>1. tx[w] = NoTx /\ status' = status /\ \A v \in Workers \ {w} : Spared(v)
      BY <1>2, <1>5, OthersSpared DEF AcquireRunLock, Balanced, Unstarted, db, Advance
    <2>2. CASE EndIngest(w, "exited")
      BY <1>3, <2>1, <2>2 DEF Ended
    <2>3. CASE /\ tx' = [tx EXCEPT ![w] = Acquired(@, mine)] /\ run' = run
               /\ pc' = [pc EXCEPT ![w] = "begin"]
      <3>1. mine \in LockRow
        BY <1>5 DEF LockRow, Token, TypeOK, AcquireRunLock, Ended
      <3> HIDE DEF mine
      <3>2. /\ Acquired(tx[w], mine).row = "free"
            /\ Acquired(tx[w], mine).state = "none"
            /\ Acquired(tx[w], mine).events = <<>>
        BY <1>1, <1>2, <2>1, <3>1, AcquiredEffect
      <3>3. /\ tx'[w].row = "free" /\ tx'[w].state = "none" /\ tx'[w].events = <<>>
            /\ pc'[w] = "begin"
        BY <2>3, <3>2 DEF TypeOK
      <3>4. Chaining(w)'
        BY <3>3 DEF Chaining
      <3>5. KeyFree(w)
        BY <1>5 DEF AcquireRunLock
      <3> QED
        BY <2>1, <2>3, <3>3, <3>4, <3>5, HeldRow
    <2> QED
      BY <1>5, <2>2, <2>3 DEF AcquireRunLock
  <1>6. ASSUME NEW w \in Workers, BeginRunRunning(w) PROVE RowInv'
    <2>1. /\ tx[w].row = "free" /\ tx[w].state = "none" /\ tx[w].events = <<>>
          /\ tx[w].key /\ tx[w] \in Transaction
      BY <1>2, <1>6 DEF BeginRunRunning, Balanced, Chaining
    <2>2. /\ run[w] \in Runs /\ status[run[w]] \in Statuses /\ RowFree(w)
          /\ status' = status /\ run' = run
          /\ \A v \in Workers \ {w} : Spared(v)
      BY <1>6, OthersSpared DEF BeginRunRunning, TypeOK, Ended, db, Advance
    <2>3. status[run[w]] # "none" => \A v \in Others(w) : tx[v].row = "free"
      BY <1>2, <2>2, RowIsFree
    <2>4. CASE /\ status[run[w]] = "ready" /\ pc'[w] = "commit"
               /\ tx'[w] = Released(RowLocked(tx[w]))
      <3>1. tx'[w].row = "row" /\ tx'[w].state = "none" /\ tx'[w].events = <<>>
        BY <2>1, <2>4, RowLockedEffect, ReleasedEffect
      <3>2. Chaining(w)'
        BY <2>2, <2>4, <3>1 DEF Chaining
      <3> QED
        BY <2>1, <2>2, <2>3, <2>4, <3>2, HeldRow
    <2>5. CASE status[run[w]] = "none" /\ pc'[w] = "insert" /\ tx' = tx
      <3>1. Chaining(w)'
        BY <2>1, <2>2, <2>5 DEF Chaining
      <3> QED
        BY <2>1, <2>2, <2>5, <3>1, HeldRow
    <2>6. CASE /\ status[run[w]] \in {"running", "failed"} /\ pc'[w] = "load"
               /\ tx'[w] = Running(tx[w], "row", status[run[w]])
      <3> DEFINE t == Running(tx[w], "row", status[run[w]])
      <3>1. /\ t.row = "row" /\ t.state = "running"
            /\ t.events = <<[from |-> status[run[w]], to |-> "running"]>>
        BY <2>1, <2>2, RunningEffect
      <3>2. Chaining(w)'
        BY <2>2, <2>6, <3>1 DEF Chaining
      <3> QED
        BY <2>1, <2>2, <2>3, <2>6, <3>2, HeldRow
    <2> QED
      BY <1>6, <2>4, <2>5, <2>6 DEF BeginRunRunning, TypeOK
  <1>7. ASSUME NEW w \in Workers, InsertRunning(w) PROVE RowInv'
    <2>1. tx[w].key /\ tx[w] \in Transaction
      BY <1>2, <1>7 DEF InsertRunning, Balanced
    <2>2. /\ status[run[w]] = "none" /\ InsertFree(w) /\ status' = status /\ run' = run
          /\ \A v \in Workers \ {w} : Spared(v)
          /\ pc'[w] = "load" /\ tx'[w] = Running(tx[w], "insert", "none")
      BY <1>7, OthersSpared DEF InsertRunning, TypeOK, db, Advance
    <2>3. /\ tx'[w].row = "insert" /\ tx'[w].state = "running"
          /\ tx'[w].events = <<[from |-> "none", to |-> "running"]>>
      BY <2>1, <2>2, RunningEffect DEF Statuses
    <2>4. Chaining(w)'
      BY <2>2, <2>3 DEF Chaining
    <2>5. \A v \in Others(w) : tx[v].row = "free"
      BY <1>2, <2>2, RowIsFree
    <2> QED
      BY <2>1, <2>2, <2>4, <2>5, HeldRow
  <1>8. ASSUME NEW w \in Workers, LoadPresence(w) PROVE RowInv'
    <2>1. /\ tx'[w] = Loaded(tx[w]) /\ pc'[w] = "upsert" /\ status' = status /\ run' = run
          /\ \A v \in Workers \ {w} : Spared(v)
      BY <1>8, OthersSpared DEF LoadPresence, TypeOK, db, Advance
    <2>2. /\ tx'[w].row = tx[w].row /\ tx'[w].state = tx[w].state
          /\ tx'[w].events = tx[w].events /\ tx'[w].key = tx[w].key
      BY <1>2, <2>1, LoadedEffect
    <2>3. Chaining(w)'
      BY <1>2, <1>8, <2>1, <2>2 DEF Chaining, LoadPresence
    <2> QED
      BY <2>1, <2>2, <2>3, HeldRow
  <1>9. ASSUME NEW w \in Workers, UpsertLatest(w) PROVE RowInv'
    <2>1. /\ tx'[w] = RowUpserted(tx[w]) /\ pc' = pc /\ status' = status /\ run' = run
          /\ \A v \in Workers \ {w} : Spared(v)
      BY <1>9, OthersSpared DEF UpsertLatest, TypeOK, db, Advance
    <2>2. /\ tx'[w].row = tx[w].row /\ tx'[w].state = tx[w].state
          /\ tx'[w].events = tx[w].events /\ tx'[w].key = tx[w].key
      BY <1>2, <2>1, RowUpsertedEffect
    <2>3. Chaining(w)'
      BY <1>2, <2>1, <2>2 DEF Chaining
    <2> QED
      BY <2>1, <2>2, <2>3, HeldRow
  <1>10. ASSUME NEW w \in Workers, TransitionRunToReady(w) PROVE RowInv'
    <2> DEFINE start == [from |-> status[run[w]], to |-> "running"]
               done == [from |-> "running", to |-> "ready"]
    <2>1. /\ tx'[w] = Released(Ready(tx[w])) /\ pc'[w] = "commit" /\ status' = status
          /\ run' = run /\ \A v \in Workers \ {w} : Spared(v)
      BY <1>10, OthersSpared DEF TransitionRunToReady, TypeOK, db, Advance
    <2>2. /\ tx[w].row # "free" /\ tx[w].events = <<start>> /\ tx[w].key
          /\ status[run[w]] # "ready" /\ tx[w] \in Transaction
      BY <1>2, <1>10 DEF TransitionRunToReady, Chaining, Balanced
    <2>3. /\ tx'[w].row = tx[w].row /\ tx'[w].state = "ready" /\ tx'[w].key = tx[w].key
          /\ tx'[w].events = Append(tx[w].events, done)
      <3> DEFINE t == Ready(tx[w])
      <3>1. /\ t \in Transaction /\ t.row = tx[w].row /\ t.state = "ready"
            /\ t.key = tx[w].key /\ t.events = Append(tx[w].events, done)
        BY <2>2, ReadyEffect
      <3>2. tx'[w] = Released(t)
        BY <2>1
      <3> HIDE DEF t
      <3> QED
        BY <3>1, <3>2, ReleasedEffect
    <2>4. tx'[w].events = <<start, done>>
      <3>1. tx'[w].events = Append(<<start>>, done)
        BY <2>2, <2>3
      <3>2. run[w] \in Runs /\ status[run[w]] \in Statuses
        BY <1>10 DEF TransitionRunToReady, TypeOK, Ended
      <3>3. start \in Hop /\ done \in Hop
        BY <3>2, HopType DEF Statuses
      <3> QED
        BY <3>1, <3>3, PairOf
    <2>5. tx[w].row = "row" => status[run[w]] # "none"
      BY <1>2 DEF Chaining
    <2>6. tx[w].row = "insert" => status[run[w]] = "none"
      BY <1>2 DEF Chaining
    <2>7. Chaining(w)'
      BY <2>1, <2>2, <2>3, <2>4, <2>5, <2>6 DEF Chaining
    <2> QED
      BY <2>1, <2>2, <2>3, <2>7, HeldRow
  <1>11. ASSUME NEW w \in Workers, CommitIngest(w) \/ CommitFailed(w) PROVE RowInv'
    BY <1>11, PublishRow, OthersSpared DEF CommitIngest, CommitFailed, Ended, Advance
  <1>12. ASSUME NEW w \in Workers, FailIngest(w) PROVE RowInv'
    <2>1. /\ tx'[w] = NoTx /\ pc'[w] = "failSelect" /\ status' = status
          /\ \A v \in Workers \ {w} : Spared(v)
      BY <1>12, OthersSpared DEF FailIngest, TypeOK, db
    <2>2. Chaining(w)'
      BY <1>1, <2>1 DEF Chaining
    <2> QED
      BY <1>1, <2>1, <2>2, FreeRow
  <1>13. ASSUME NEW w \in Workers, NEW row \in {"row", "insert"}, tx[w] = NoTx,
                status[run[w]] \in Statuses,
                \/ row = "row" /\ RowFree(w) /\ status[run[w]] # "none"
                \/ row = "insert" /\ InsertFree(w) /\ status[run[w]] = "none",
                MarkFailed(w, status[run[w]], row), status' = status, run' = run,
                \A v \in Workers \ {w} : Spared(v)
         PROVE  RowInv'
    <2> DEFINE prev == status[run[w]]
               t == Failed(tx[w], row, prev, {})
    <2>1. pc'[w] = "failCommit" /\ tx'[w] = t
      BY <1>13 DEF MarkFailed, TypeOK, LockInv, LocksStayPrivate
    <2>2. {} \in SUBSET LockRow /\ tx[w] \in Transaction
      BY <1>2
    <2>3. /\ t.row = row /\ t.state = "failed" /\ ~t.key
          /\ t.events = <<[from |-> prev, to |-> "failed"]>>
      BY <1>13, <2>2, FailedEffect, ZenonT(30)
    <2> HIDE DEF t
    <2>4. Chaining(w)'
      BY <1>13, <2>1, <2>3 DEF Chaining
    <2>5. \A v \in Others(w) : tx[v].row = "free"
      BY <1>2, <1>13, RowIsFree
    <2> QED
      BY <1>13, <2>1, <2>3, <2>4, <2>5, HeldRow
  <1>14. ASSUME NEW w \in Workers, SelectForFailed(w) PROVE RowInv'
    <2>1. /\ tx[w] = NoTx /\ run[w] \in Runs /\ status[run[w]] \in Statuses
          /\ status' = status /\ run' = run /\ \A v \in Workers \ {w} : Spared(v)
      BY <1>2, <1>14, OthersSpared
         DEF Balanced, SelectForFailed, Unstarted, TypeOK, Ended, db, Advance
    <2>2. CASE status[run[w]] = "none"
      <3>1. pc'[w] = "failInsert" /\ tx'[w] = NoTx
        BY <1>14, <2>1, <2>2 DEF SelectForFailed, TypeOK
      <3>2. Chaining(w)'
        BY <1>1, <3>1 DEF Chaining
      <3> QED
        BY <1>1, <2>1, <3>1, <3>2, FreeRow
    <2> QED
      BY <1>13, <1>14, <2>1, <2>2 DEF SelectForFailed
  <1>15. ASSUME NEW w \in Workers, InsertFailed(w) PROVE RowInv'
    <2>1. /\ tx[w] = NoTx /\ run[w] \in Runs /\ status[run[w]] \in Statuses
          /\ status' = status /\ \A v \in Workers \ {w} : Spared(v)
      BY <1>2, <1>15, OthersSpared
         DEF Balanced, InsertFailed, Unstarted, TypeOK, Ended, db, Advance
    <2>2. CASE status[run[w]] = "none"
      BY <1>13, <1>15, <2>1, <2>2 DEF InsertFailed
    <2> QED
      BY <1>3, <1>15, <2>1, <2>2 DEF InsertFailed, Ended
  <1>16. ASSUME NEW w \in Workers, CrashIngest(w) PROVE RowInv'
    BY <1>3, <1>16, OthersSpared DEF CrashIngest, Ended, db
  <1>17. ASSUME NEW r \in Runs, LockExpires(r) PROVE RowInv'
    <2>1. UNCHANGED <<status, pc, run>>
      BY <1>17 DEF LockExpires
    <2>2. \A w \in Workers : /\ tx'[w].key = tx[w].key /\ tx'[w].row = tx[w].row
                             /\ tx'[w].state = tx[w].state
                             /\ tx'[w].events = tx[w].events
      BY <1>2, <1>17, ExpiredEffect DEF LockExpires
    <2>3. \A w \in Workers : Chaining(w)'
      BY <1>2, <2>1, <2>2 DEF Chaining
    <2>4. \A v, w \in Workers : v # w => Exclusive(v, w)'
      BY <2>1, <2>2 DEF RowInv, Exclusive
    <2> QED
      BY <2>3, <2>4 DEF RowInv
  <1>18. ASSUME RecoverStaleRuns PROVE RowInv'
    <2>1. UNCHANGED <<pc, run, tx>>
      BY <1>18 DEF RecoverStaleRuns
    <2>2. \A w \in Workers : run[w] \in Runs /\ tx[w].row # "free" =>
                             status'[run[w]] = status[run[w]]
      <3> PICK failed \in SUBSET StaleRuns :
            status' = [r \in Runs |-> IF r \in failed THEN "failed" ELSE status[r]]
        BY <1>18, SweepEffect
      <3>1. ASSUME NEW w \in Workers, run[w] \in Runs, tx[w].row # "free"
            PROVE  run[w] \notin failed
        <4>1. tx[w].row \in {"row", "insert"}
          BY <1>2, <3>1 DEF Transaction
        <4>2. tx[w].row = "insert" => status[run[w]] = "none"
          BY <1>2 DEF Chaining
        <4> QED
          BY <3>1, <4>1, <4>2 DEF StaleRuns
      <3> QED
        BY <3>1
    <2>3. ASSUME NEW w \in Workers PROVE Chaining(w)'
      <3>1. CASE tx[w].row = "free"
        <4>1. pc[w] \notin {"load", "upsert", "commit", "failCommit"}
          BY <1>2, <3>1 DEF Chaining
        <4> QED
          BY <1>2, <2>1, <3>1, <4>1 DEF Chaining
      <3>2. CASE tx[w].row # "free"
        <4>1. pc[w] \notin Ended
          BY <1>1, <1>2, <3>2 DEF Balanced
        <4>2. status'[run[w]] = status[run[w]]
          BY <2>2, <3>2, <4>1 DEF TypeOK
        <4> QED
          BY <1>2, <2>1, <4>2 DEF Chaining
      <3> QED
        BY <3>1, <3>2
    <2> QED
      BY <2>1, <2>3 DEF RowInv, Exclusive
  <1>19. CASE UNCHANGED vars
    BY <1>19 DEF RowInv, Chaining, Exclusive, vars, db
  <1> QED
    BY <1>4, <1>5, <1>6, <1>7, <1>8, <1>9, <1>10, <1>11, <1>12, <1>14, <1>15, <1>16,
       <1>17, <1>18, <1>19 DEF Next, Advance

LEMMA RowInit == Init => RowInv
  BY DEF Init, RowInv, Chaining, Exclusive, NoTx, Ended

\* What a commit appends leads from the status that was committed to the new one.
LEMMA PublishHops ==
  ASSUME TypeOK, LockInv, RowInv, NEW w \in Workers, pc[w] \in {"commit", "failCommit"},
         Publish(w)
  PROVE  /\ run[w] \in Runs /\ tx[w].events \in Seq(Hop)
         /\ Chained(status[run[w]], tx[w].events, status'[run[w]])
         /\ journal'[run[w]] = journal[run[w]] \o tx[w].events
         /\ \A r \in Runs \ {run[w]} : status'[r] = status[r] /\ journal'[r] = journal[r]
  <1>1. run[w] \in Runs /\ tx[w] \in Transaction /\ Chaining(w)
    BY DEF TypeOK, Ended, RowInv
  <1>2. tx[w].events \in Seq(Hop)
    BY <1>1 DEF Transaction
  <1>3. /\ status'[run[w]] = IF tx[w].state = "none" THEN status[run[w]] ELSE tx[w].state
        /\ journal'[run[w]] = journal[run[w]] \o tx[w].events
        /\ \A r \in Runs \ {run[w]} : status'[r] = status[r] /\ journal'[r] = journal[r]
    BY <1>1 DEF Publish, TypeOK
  <1>4. Chained(status[run[w]], tx[w].events, status'[run[w]])
    <2>1. CASE tx[w].state = "none" /\ tx[w].events = <<>>
      BY <1>3, <2>1 DEF Chained
    <2>2. CASE /\ tx[w].state = "ready"
               /\ tx[w].events = <<[from |-> status[run[w]], to |-> "running"],
                                   [from |-> "running", to |-> "ready"]>>
      <3> DEFINE e == tx[w].events
      <3>1. e # <<>> /\ Len(e) = 2
        BY <2>2
      <3>2. e[1].from = status[run[w]] /\ e[1].to = "running"
        BY <2>2
      <3>3. e[2].from = "running" /\ e[2].to = "ready"
        BY <2>2
      <3>4. status'[run[w]] = "ready"
        BY <1>3, <2>2
      <3> HIDE DEF e
      <3>5. \A i \in 1 .. Len(e) - 1 : e[i + 1].from = e[i].to
        BY <3>1, <3>2, <3>3
      <3>6. Chained(status[run[w]], e, status'[run[w]])
        BY <3>1, <3>2, <3>3, <3>4, <3>5 DEF Chained
      <3> QED
        BY <3>6 DEF e
    <2>3. CASE /\ tx[w].state = "failed"
               /\ tx[w].events = <<[from |-> status[run[w]], to |-> "failed"]>>
      BY <1>3, <2>3 DEF Chained
    <2> QED
      BY <1>1, <2>1, <2>2, <2>3 DEF Chaining
  <1> QED
    BY <1>1, <1>2, <1>3, <1>4

LEMMA JournalStep ==
  TypeOK /\ LockInv /\ RowInv /\ JournalChain /\ [Next]_vars => JournalChain'
  <1> SUFFICES ASSUME TypeOK, LockInv, RowInv, JournalChain, [Next]_vars
               PROVE  JournalChain'
    OBVIOUS
  <1>1. CASE UNCHANGED <<status, journal, base>>
    BY <1>1 DEF JournalChain, Chained
  <1>2. ASSUME NEW w \in Workers, CommitIngest(w) \/ CommitFailed(w) PROVE JournalChain'
    <2>1. Publish(w) /\ pc[w] \in {"commit", "failCommit"} /\ base' = base
      BY <1>2 DEF CommitIngest, CommitFailed, EndIngest
    <2>2. /\ run[w] \in Runs /\ tx[w].events \in Seq(Hop)
          /\ Chained(status[run[w]], tx[w].events, status'[run[w]])
          /\ journal'[run[w]] = journal[run[w]] \o tx[w].events
          /\ \A r \in Runs \ {run[w]} : status'[r] = status[r] /\ journal'[r] = journal[r]
      BY <2>1, PublishHops
    <2>3. journal[run[w]] \in Seq(Hop)
      BY <2>2 DEF TypeOK
    <2>4. Chained(base[run[w]], journal[run[w]], status[run[w]])
      BY <2>2 DEF JournalChain
    <2>5. Chained(base[run[w]], journal'[run[w]], status'[run[w]])
      BY <2>2, <2>3, <2>4, ChainAppend
    <2> QED
      BY <2>1, <2>2, <2>5 DEF JournalChain
  <1>3. ASSUME RecoverStaleRuns PROVE JournalChain'
    <2> DEFINE hop == [from |-> "running", to |-> "failed"]
    <2> PICK failed \in SUBSET StaleRuns :
          /\ status' = [r \in Runs |-> IF r \in failed THEN "failed" ELSE status[r]]
          /\ journal' = [r \in Runs |-> IF r \in failed THEN Append(journal[r], hop)
                                       ELSE journal[r]]
          /\ base' = base
      BY <1>3, SweepEffect
    <2>1. ASSUME NEW r \in failed
          PROVE  r \in Runs /\ Chained(base[r], journal'[r], status'[r])
      <3>1. r \in Runs /\ status[r] = "running" /\ journal[r] \in Seq(Hop)
        BY DEF StaleRuns, TypeOK
      <3>2. hop \in Hop /\ <<hop>> \in Seq(Hop)
        BY HopType DEF Statuses
      <3>3. journal'[r] = Append(journal[r], hop) /\ status'[r] = "failed"
        BY <3>1
      <3>4. Chained("running", <<hop>>, "failed")
        BY DEF Chained
      <3>5. Chained(base[r], journal[r], "running")
        BY <3>1 DEF JournalChain
      <3> HIDE DEF hop
      <3>6. journal'[r] = journal[r] \o <<hop>>
        BY <3>1, <3>2, <3>3
      <3>7. Chained(base[r], journal[r] \o <<hop>>, "failed")
        BY <3>1, <3>2, <3>4, <3>5, ChainAppend
      <3> QED
        BY <3>1, <3>3, <3>6, <3>7
    <2>2. ASSUME NEW r \in Runs, r \notin failed
          PROVE  Chained(base[r], journal'[r], status'[r])
      BY <2>2 DEF JournalChain
    <2> QED
      BY <2>1, <2>2 DEF JournalChain
  <1>4. ASSUME NEW w \in Workers,
               \/ \E r \in Runs : StartIngest(w, r)
               \/ AcquireRunLock(w) \/ BeginRunRunning(w) \/ InsertRunning(w)
               \/ LoadPresence(w) \/ UpsertLatest(w) \/ TransitionRunToReady(w)
               \/ SelectForFailed(w) \/ InsertFailed(w) \/ FailIngest(w) \/ CrashIngest(w)
        PROVE  UNCHANGED <<status, journal, base>>
    BY <1>4 DEF StartIngest, AcquireRunLock, BeginRunRunning, InsertRunning, LoadPresence,
       UpsertLatest, TransitionRunToReady, SelectForFailed, InsertFailed, FailIngest,
       CrashIngest, EndIngest, db
  <1> QED
    BY <1>1, <1>2, <1>3, <1>4 DEF Next, Advance, LockExpires, vars, db

LEMMA JournalInit == Init => JournalChain
  BY DEF Init, JournalChain, Chained

\* The events of every run form one chain from the status it had to the status it
\* has, however many ingesters, failures, crashes and sweeps interleave.
THEOREM JournalsChain == Spec => []JournalChain
  BY TypeInit, TypeStep, LockInit, LockStep, RowInit, RowStep, JournalInit, JournalStep,
     PTL DEF Spec

\* Two transactions never hold the run_locks key, or have written the runs row, of
\* the same run.
THEOREM OneIngester == Spec => []OneIngesterPerRun
  <1>1. TypeOK /\ LockInv /\ RowInv => OneIngesterPerRun
    <2> SUFFICES ASSUME TypeOK, LockInv, RowInv, NEW v \in Workers, NEW w \in Workers,
                        v # w, run[v] = run[w], run[w] # NoRun
                 PROVE  /\ ~(tx[v].key /\ tx[w].key)
                        /\ ~(tx[v].state # "none" /\ tx[w].state # "none")
      BY DEF OneIngesterPerRun
    <2>1. ASSUME NEW u \in Workers PROVE tx[u].state # "none" => tx[u].row # "free"
      <3>1. NoTx.state = "none"
        BY DEF NoTx
      <3> QED
        BY <3>1 DEF TypeOK, LockInv, RowInv, Balanced, Chaining, Unstarted, Steps, FailSteps
    <2> QED
      BY <2>1 DEF RowInv, Exclusive
  <1> QED
    BY <1>1, TypeInit, TypeStep, LockInit, LockStep, RowInit, RowStep, PTL DEF Spec

-----------------------------------------------------------------------------
(* The rows of the findings.                                                *)

\* A step of w that does not touch the committed findings.
LEMMA DataKept ==
  ASSUME DataInv, NEW w \in Workers, \A v \in Workers \ {w} : Spared(v), Complete(w)',
         UNCHANGED <<status, presence, latest>>
  PROVE  DataInv'
  <1>1. ReadyIsComplete' /\ \A r \in Runs : presence'[r] \subseteq RowsOf(r)
    BY DEF DataInv, ReadyIsComplete
  <1>2. \A v \in Workers : Complete(v)'
    BY DEF DataInv, Complete, Spared
  <1> QED
    BY <1>1, <1>2 DEF DataInv

\* What a commit shows: nothing of the findings, or all the findings of its files.
LEMMA PublishRows ==
  ASSUME TypeOK, RowInv, DataInv, NEW w \in Workers, pc[w] \in {"commit", "failCommit"},
         Publish(w)
  PROVE  /\ run[w] \in Runs
         /\ \A r \in Runs \ {run[w]} : status'[r] = status[r] /\ presence'[r] = presence[r]
         /\ \/ /\ tx[w].state \in {"none", "failed"}
               /\ presence' = presence /\ latest' = latest
               /\ status'[run[w]] \in {status[run[w]], "failed"}
            \/ /\ pc[w] = "commit" /\ presence'[run[w]] = RowsOf(run[w])
               /\ latest' = [f \in Fingerprints |-> IF f \in RowsOf(run[w]) THEN run[w]
                                                   ELSE latest[f]]
  <1>1. run[w] \in Runs /\ Chaining(w) /\ Complete(w)
    BY DEF TypeOK, Ended, RowInv, DataInv
  <1>2. \A r \in Runs \ {run[w]} : status'[r] = status[r] /\ presence'[r] = presence[r]
    BY <1>1 DEF Publish, TypeOK
  <1>3. run[w] # NoRun
    BY <1>1, ConstantsAssumption
  <1>4. CASE ~tx[w].loaded /\ tx[w].upserted = 0 /\ tx[w].state \in {"none", "failed"}
    <2>1. Upserted(w) = {}
      BY <1>4 DEF Upserted
    <2>2. presence' = presence /\ latest' = latest
      BY <1>1, <1>4, <2>1 DEF Publish, TypeOK
    <2>3. status'[run[w]] \in {status[run[w]], "failed"}
      BY <1>1, <1>4 DEF Publish, TypeOK
    <2> QED
      BY <1>1, <1>2, <1>4, <2>2, <2>3
  <1>5. CASE /\ pc[w] = "commit" /\ tx[w].loaded
             /\ tx[w].upserted = Len(FileRows[run[w]])
    <2>1. Upserted(w) = RowsOf(run[w])
      BY <1>3, <1>5 DEF Upserted, RowsOf
    <2> QED
      BY <1>1, <1>2, <1>5, <2>1 DEF Publish, TypeOK
  <1> QED
    BY <1>1, <1>4, <1>5 DEF Chaining, Complete

LEMMA PublishData ==
  ASSUME TypeOK, RowInv, DataInv, NEW w \in Workers, pc[w] \in {"commit", "failCommit"},
         Publish(w)
  PROVE  /\ ReadyIsComplete'
         /\ \A r \in Runs : presence'[r] \subseteq RowsOf(r)
  <1> DEFINE q == run[w]
  <1>1. /\ q \in Runs /\ q # NoRun
        /\ \A r \in Runs \ {q} : status'[r] = status[r] /\ presence'[r] = presence[r]
    BY PublishRows, ConstantsAssumption
  <1>2. /\ ReadyIsComplete
        /\ \A r \in Runs : presence[r] \subseteq RowsOf(r) /\ RowsOf(r) \in SUBSET Fingerprints
    BY RowsType DEF DataInv
  <1>3. CASE /\ presence' = presence /\ latest' = latest
             /\ status'[q] \in {status[q], "failed"}
    BY <1>1, <1>2, <1>3 DEF ReadyIsComplete
  <1>4. CASE /\ presence'[q] = RowsOf(q)
             /\ latest' = [f \in Fingerprints |-> IF f \in RowsOf(q) THEN q ELSE latest[f]]
    <2>1. \A r \in Runs : presence'[r] \subseteq RowsOf(r) /\ presence[r] \subseteq presence'[r]
      BY <1>1, <1>2, <1>4
    <2>2. ReadyIsComplete'
      BY <1>1, <1>2, <1>4 DEF ReadyIsComplete
    <2> QED
      BY <2>1, <2>2
  <1> QED
    BY <1>3, <1>4, PublishRows

LEMMA DataStep ==
  TypeOK /\ LockInv /\ RowInv /\ DataInv /\ [Next]_vars => DataInv'
  <1> SUFFICES ASSUME TypeOK, LockInv, RowInv, DataInv, [Next]_vars PROVE DataInv'
    OBVIOUS
  <1>1. ~NoTx.loaded /\ NoTx.upserted = 0 /\ NoTx.state = "none"
    BY DEF NoTx
  <1>2. \A w \in Workers : /\ tx[w] \in Transaction /\ Balanced(w) /\ Chaining(w)
                           /\ Complete(w)
    BY DEF TypeOK, LockInv, RowInv, DataInv
  <1>3. ASSUME NEW w \in Workers, pc'[w] \in Ended \cup Unstarted PROVE Complete(w)'
    BY <1>3 DEF Complete, Ended, Unstarted
  <1>4. ASSUME NEW w \in Workers,
               \/ \E r \in Runs : StartIngest(w, r)
               \/ FailIngest(w) \/ CrashIngest(w)
        PROVE  DataInv'
    <2>1. pc'[w] \in Ended \cup Unstarted /\ UNCHANGED <<status, presence, latest>>
      BY <1>4 DEF StartIngest, FailIngest, CrashIngest, EndIngest, TypeOK, db, Unstarted, Ended
    <2> QED
      BY <1>3, <1>4, <2>1, DataKept, OthersSpared
  <1>5. ASSUME NEW w \in Workers, AcquireRunLock(w) PROVE DataInv'
    <2> DEFINE mine == [run |-> run[w], owner |-> OwnerOf[w],
                        token |-> <<w, attempts[w]>>, live |-> TRUE]
    <2>1. tx[w] = NoTx /\ UNCHANGED <<status, presence, latest>>
      BY <1>2, <1>5 DEF AcquireRunLock, Balanced, Unstarted, db
    <2>2. Complete(w)'
      <3>1. CASE EndIngest(w, "exited")
        BY <1>3, <3>1 DEF EndIngest, TypeOK, Ended
      <3>2. CASE tx' = [tx EXCEPT ![w] = Acquired(@, mine)] /\ pc' = [pc EXCEPT ![w] = "begin"]
        <4>1. mine \in LockRow
          BY <1>5 DEF LockRow, Token, TypeOK, AcquireRunLock, Ended
        <4> HIDE DEF mine
        <4>2. ~Acquired(tx[w], mine).loaded /\ Acquired(tx[w], mine).upserted = 0
          BY <1>1, <1>2, <2>1, <4>1, AcquiredEffect
        <4> QED
          BY <3>2, <4>2 DEF TypeOK, Complete
      <3> QED
        BY <1>5, <3>1, <3>2 DEF AcquireRunLock
    <2> QED
      BY <1>5, <2>1, <2>2, DataKept, OthersSpared DEF Advance
  <1>6. ASSUME NEW w \in Workers, BeginRunRunning(w) PROVE DataInv'
    <2>1. /\ ~tx[w].loaded /\ tx[w].upserted = 0 /\ tx[w].state = "none"
          /\ UNCHANGED <<status, presence, latest>>
          /\ run[w] \in Runs /\ status[run[w]] \in Statuses /\ tx[w] \in Transaction
      BY <1>2, <1>6 DEF BeginRunRunning, Complete, Chaining, db, TypeOK, Ended
    <2>2. CASE pc'[w] = "commit" /\ tx'[w] = Released(RowLocked(tx[w]))
      <3>1. ~tx'[w].loaded /\ tx'[w].upserted = 0 /\ tx'[w].state = "none"
        BY <2>1, <2>2, RowLockedEffect, ReleasedEffect
      <3> QED
        BY <1>6, <2>1, <2>2, <3>1, DataKept, OthersSpared DEF Complete, Advance
    <2>3. CASE pc'[w] = "insert" /\ tx' = tx
      BY <1>6, <2>1, <2>3, DataKept, OthersSpared DEF Complete, Advance
    <2>4. CASE pc'[w] = "load" /\ tx'[w] = Running(tx[w], "row", status[run[w]])
      <3> DEFINE t == Running(tx[w], "row", status[run[w]])
      <3>1. t.loaded = tx[w].loaded /\ t.upserted = tx[w].upserted
        BY <2>1, RunningEffect
      <3> QED
        BY <1>6, <2>1, <2>4, <3>1, DataKept, OthersSpared DEF Complete, Advance
    <2> QED
      BY <1>6, <2>2, <2>3, <2>4 DEF BeginRunRunning, TypeOK
  <1>7. ASSUME NEW w \in Workers, InsertRunning(w) PROVE DataInv'
    <2>1. /\ ~tx[w].loaded /\ tx[w].upserted = 0 /\ tx[w] \in Transaction
          /\ UNCHANGED <<status, presence, latest>>
          /\ pc'[w] = "load" /\ tx'[w] = Running(tx[w], "insert", "none")
      BY <1>2, <1>7 DEF InsertRunning, Complete, db, TypeOK
    <2>2. ~tx'[w].loaded /\ tx'[w].upserted = 0
      BY <2>1, RunningEffect DEF Statuses
    <2> QED
      BY <1>7, <2>1, <2>2, DataKept, OthersSpared DEF Complete, Advance
  <1>8. ASSUME NEW w \in Workers, LoadPresence(w) PROVE DataInv'
    <2>1. /\ tx[w].upserted = 0 /\ tx[w] \in Transaction
          /\ UNCHANGED <<status, presence, latest>> /\ run' = run /\ run[w] \in Runs
          /\ pc'[w] = "upsert" /\ tx'[w] = Loaded(tx[w])
      BY <1>2, <1>8 DEF LoadPresence, Complete, db, TypeOK, Ended
    <2>2. tx'[w].loaded /\ tx'[w].upserted = 0
      BY <2>1, LoadedEffect
    <2>3. Len(FileRows[run[w]]) \in Nat
      BY <2>1, ConstantsAssumption
    <2>4. tx'[w].upserted <= Len(FileRows[run'[w]])
      BY <2>1, <2>2, <2>3
    <2> QED
      BY <1>8, <2>1, <2>2, <2>4, DataKept, OthersSpared DEF Complete, Advance
  <1>9. ASSUME NEW w \in Workers, UpsertLatest(w) PROVE DataInv'
    <2>1. /\ tx[w].loaded /\ tx[w].upserted < Len(FileRows[run[w]])
          /\ tx[w] \in Transaction /\ tx[w].upserted \in Nat
          /\ UNCHANGED <<status, presence, latest>> /\ run' = run /\ run[w] \in Runs
          /\ pc'[w] = "upsert" /\ tx'[w] = RowUpserted(tx[w])
      BY <1>2, <1>9 DEF UpsertLatest, Complete, db, TypeOK, Ended, Transaction
    <2>2. tx'[w].loaded /\ tx'[w].upserted = tx[w].upserted + 1
      BY <2>1, RowUpsertedEffect
    <2>3. Len(FileRows[run[w]]) \in Nat
      BY <2>1, ConstantsAssumption
    <2>4. tx'[w].upserted <= Len(FileRows[run'[w]])
      BY <2>1, <2>2, <2>3
    <2> QED
      BY <1>9, <2>1, <2>2, <2>4, DataKept, OthersSpared DEF Complete, Advance
  <1>10. ASSUME NEW w \in Workers, TransitionRunToReady(w) PROVE DataInv'
    <2>1. /\ tx[w].loaded /\ tx[w].upserted = Len(FileRows[run[w]])
          /\ tx[w] \in Transaction /\ run' = run
          /\ UNCHANGED <<status, presence, latest>>
          /\ pc'[w] = "commit" /\ tx'[w] = Released(Ready(tx[w]))
      BY <1>2, <1>10 DEF TransitionRunToReady, db, TypeOK
    <2>2. tx'[w].loaded /\ tx'[w].upserted = tx[w].upserted /\ tx'[w].state = "ready"
      <3> DEFINE t == Ready(tx[w])
      <3>1. /\ t \in Transaction /\ t.state = "ready" /\ t.loaded = tx[w].loaded
            /\ t.upserted = tx[w].upserted
        BY <2>1, ReadyEffect
      <3>2. tx'[w] = Released(t)
        BY <2>1
      <3> HIDE DEF t
      <3> QED
        BY <2>1, <3>1, <3>2, ReleasedEffect
    <2> QED
      BY <1>10, <2>1, <2>2, DataKept, OthersSpared DEF Complete, Advance
  <1>11. ASSUME NEW w \in Workers, CommitIngest(w) \/ CommitFailed(w) PROVE DataInv'
    <2>1. pc'[w] \in Ended /\ Publish(w) /\ pc[w] \in {"commit", "failCommit"}
      BY <1>11 DEF CommitIngest, CommitFailed, EndIngest, Ended, TypeOK
    <2>2. Complete(w)'
      BY <1>3, <2>1
    <2>3. \A v \in Workers : Complete(v)'
      BY <1>2, <1>11, <2>2, OthersSpared DEF Spared, Complete, Advance
    <2> QED
      BY <2>1, <2>3, PublishData DEF DataInv
  <1>12. ASSUME NEW w \in Workers, NEW prev \in Statuses, NEW row \in {"row", "insert"},
                tx[w] = NoTx, MarkFailed(w, prev, row)
         PROVE  Complete(w)'
    <2> DEFINE t == Failed(tx[w], row, prev, {})
    <2>1. pc'[w] = "failCommit" /\ tx'[w] = t
      BY <1>12 DEF MarkFailed, TypeOK, LockInv, LocksStayPrivate
    <2>2. {} \in SUBSET LockRow /\ tx[w] \in Transaction
      BY <1>2
    <2>3. t.loaded = tx[w].loaded /\ t.upserted = tx[w].upserted
      BY <2>2, FailedEffect, ZenonT(30)
    <2> QED
      BY <1>1, <1>12, <2>1, <2>3 DEF Complete
  <1>13. ASSUME NEW w \in Workers, SelectForFailed(w) \/ InsertFailed(w) PROVE DataInv'
    <2>1. /\ tx[w] = NoTx /\ run[w] \in Runs /\ status[run[w]] \in Statuses
          /\ UNCHANGED <<status, presence, latest>>
      BY <1>2, <1>13 DEF Balanced, SelectForFailed, InsertFailed, Unstarted, TypeOK, Ended, db
    <2>2. CASE pc'[w] \in Ended \cup Unstarted
      BY <1>3, <1>13, <2>1, <2>2, DataKept, OthersSpared DEF Advance
    <2>3. CASE \E row \in {"row", "insert"} : MarkFailed(w, status[run[w]], row)
      BY <1>12, <1>13, <2>1, <2>3, DataKept, OthersSpared DEF Advance
    <2> QED
      BY <1>13, <2>2, <2>3
         DEF SelectForFailed, InsertFailed, EndIngest, TypeOK, Ended, Unstarted
  <1>14. ASSUME NEW r \in Runs, LockExpires(r) PROVE DataInv'
    <2>1. UNCHANGED <<status, presence, latest, pc, run>>
      BY <1>14 DEF LockExpires
    <2>2. \A w \in Workers : /\ tx'[w].loaded = tx[w].loaded /\ tx'[w].state = tx[w].state
                             /\ tx'[w].upserted = tx[w].upserted
      BY <1>2, <1>14, ExpiredEffect DEF LockExpires
    <2>3. \A w \in Workers : Complete(w)'
      BY <1>2, <2>1, <2>2 DEF Complete
    <2> QED
      BY <2>1, <2>3 DEF DataInv, ReadyIsComplete
  <1>15. ASSUME RecoverStaleRuns PROVE DataInv'
    <2>1. UNCHANGED <<presence, latest, pc, run, tx>>
      BY <1>15 DEF RecoverStaleRuns
    <2>2. \A r \in Runs : status'[r] = "ready" => status[r] = "ready"
      BY <1>15, SweepEffect
    <2> QED
      BY <2>1, <2>2 DEF DataInv, ReadyIsComplete, Complete
  <1>16. CASE UNCHANGED vars
    BY <1>16 DEF DataInv, ReadyIsComplete, Complete, vars, db
  <1> QED
    BY <1>4, <1>5, <1>6, <1>7, <1>8, <1>9, <1>10, <1>11, <1>13, <1>14, <1>15, <1>16
       DEF Next, Advance

LEMMA DataInit == Init => DataInv
  <1> SUFFICES ASSUME Init PROVE DataInv
    OBVIOUS
  <1>1. ReadyIsComplete
    BY DEF Init, ReadyIsComplete
  <1>2. \A r \in Runs : presence[r] \subseteq RowsOf(r)
    BY ConstantsAssumption DEF Init, FirstRows, RowsOf
  <1> QED
    BY <1>1, <1>2 DEF Init, DataInv, Complete, Ended

\* Every run that is ready has all the findings of its files in finding_presence, and
\* each of them in finding_latest.
THEOREM ReadyComplete == Spec => []ReadyIsComplete
  <1>1. DataInv => ReadyIsComplete
    BY DEF DataInv
  <1> QED
    BY <1>1, TypeInit, TypeStep, LockInit, LockStep, RowInit, RowStep, DataInit, DataStep,
       PTL DEF Spec

\* The whole discipline of the transactions is an invariant.
THEOREM Discipline == Spec => []TransactionDiscipline
  <1>1. LockInv /\ RowInv /\ JournalChain /\ DataInv => TransactionDiscipline
    BY DEF TransactionDiscipline
  <1> QED
    BY <1>1, TypeInit, TypeStep, LockInit, LockStep, RowInit, RowStep, JournalInit,
       JournalStep, DataInit, DataStep, PTL DEF Spec

-----------------------------------------------------------------------------
(* What a step may do.                                                      *)

\* All the steps but the two commits and the sweep keep the committed tables that a
\* reader of runs and findings sees.
LEMMA OnlyCommits ==
  ASSUME [Next]_vars, ~(\E w \in Workers : CommitIngest(w) \/ CommitFailed(w)),
         ~RecoverStaleRuns
  PROVE  UNCHANGED <<status, journal, presence, latest>>
  <1>1. ASSUME NEW w \in Workers,
               \/ \E r \in Runs : StartIngest(w, r)
               \/ AcquireRunLock(w) \/ BeginRunRunning(w) \/ InsertRunning(w)
               \/ LoadPresence(w) \/ UpsertLatest(w) \/ TransitionRunToReady(w)
               \/ SelectForFailed(w) \/ InsertFailed(w) \/ FailIngest(w) \/ CrashIngest(w)
        PROVE  UNCHANGED <<status, journal, presence, latest>>
    BY <1>1 DEF StartIngest, AcquireRunLock, BeginRunRunning, InsertRunning, LoadPresence,
       UpsertLatest, TransitionRunToReady, SelectForFailed, InsertFailed, FailIngest,
       CrashIngest, EndIngest, db
  <1> QED
    BY <1>1 DEF Next, Advance, LockExpires, vars, db

\* The step that makes a run ready shows all its findings and its snapshots.
LEMMA ReadyStep ==
  ASSUME TypeOK, LockInv, RowInv, DataInv, [Next]_vars, NEW r \in Runs,
         status[r] # "ready", status'[r] = "ready"
  PROVE  presence'[r] = RowsOf(r) /\ \A f \in RowsOf(r) : latest'[f] = r
  <1>1. ~RecoverStaleRuns
    BY SweepEffect
  <1>2. PICK w \in Workers : CommitIngest(w) \/ CommitFailed(w)
    BY <1>1, OnlyCommits
  <1>3. Publish(w) /\ pc[w] \in {"commit", "failCommit"}
    BY <1>2 DEF CommitIngest, CommitFailed
  <1>4. /\ r = run[w] /\ presence'[r] = RowsOf(r)
        /\ latest' = [f \in Fingerprints |-> IF f \in RowsOf(r) THEN r ELSE latest[f]]
    BY <1>3, PublishRows
  <1> QED
    BY <1>4, RowsType

\* A run becomes ready in the very step that shows all its findings.
THEOREM ReadyAtomically == Spec => ReadyIsAtomic
  <1>1. TypeOK /\ LockInv /\ RowInv /\ DataInv /\ [Next]_vars =>
          [\A r \in Runs : status[r] # "ready" /\ status'[r] = "ready" =>
             /\ presence'[r] = RowsOf(r)
             /\ \A f \in RowsOf(r) : latest'[f] = r]_vars
    BY ReadyStep
  <1> QED
    BY <1>1, TypeInit, TypeStep, LockInit, LockStep, RowInit, RowStep, DataInit, DataStep,
       PTL DEF Spec, ReadyIsAtomic

\* An ingest that raises, is refused or dies leaves the findings as they were.
LEMMA ExitStep ==
  ASSUME TypeOK, LockInv, RowInv, DataInv, [Next]_vars, NEW w \in Workers,
         pc[w] \in Steps \cup FailSteps, pc'[w] = "exited"
  PROVE  UNCHANGED <<presence, latest>>
  <1>1. CASE RecoverStaleRuns
    BY <1>1 DEF RecoverStaleRuns
  <1>2. ASSUME NEW v \in Workers, CommitIngest(v) PROVE FALSE
    BY <1>2 DEF CommitIngest, EndIngest, TypeOK, Steps, FailSteps
  <1>3. ASSUME NEW v \in Workers, CommitFailed(v) PROVE UNCHANGED <<presence, latest>>
    <2>1. Publish(v) /\ pc[v] = "failCommit"
      BY <1>3 DEF CommitFailed
    <2> QED
      BY <2>1, PublishRows
  <1> QED
    BY <1>1, <1>2, <1>3, OnlyCommits

THEOREM FailuresLeaveFindings == Spec => FailureLeavesFindings
  <1>1. TypeOK /\ LockInv /\ RowInv /\ DataInv /\ [Next]_vars =>
          [\A w \in Workers : pc[w] \in Steps \cup FailSteps /\ pc'[w] = "exited" =>
             UNCHANGED <<presence, latest>>]_vars
    BY ExitStep
  <1> QED
    BY <1>1, TypeInit, TypeStep, LockInit, LockStep, RowInit, RowStep, DataInit, DataStep,
       PTL DEF Spec, FailureLeavesFindings

\* What a step does to the snapshots: those that were those of a run with the finding
\* still are.
LEMMA OrphansStep ==
  ASSUME TypeOK, LockInv, RowInv, DataInv, [Next]_vars, NEW f \in Fingerprints,
         f \notin Orphans
  PROVE  f \notin Orphans'
  <1>1. CASE UNCHANGED <<presence, latest>>
    BY <1>1 DEF Orphans
  <1>2. ASSUME NEW w \in Workers, Publish(w), pc[w] \in {"commit", "failCommit"},
               presence'[run[w]] = RowsOf(run[w]),
               latest' = [g \in Fingerprints |-> IF g \in RowsOf(run[w]) THEN run[w]
                                                 ELSE latest[g]]
        PROVE  f \notin Orphans'
    <2>1. /\ run[w] \in Runs /\ presence[run[w]] \subseteq presence'[run[w]]
          /\ \A r \in Runs \ {run[w]} : presence'[r] = presence[r]
      BY <1>2, PublishRows DEF DataInv
    <2>2. CASE f \in RowsOf(run[w])
      BY <1>2, <2>2 DEF Orphans
    <2>3. CASE f \notin RowsOf(run[w])
      <3>1. latest'[f] = latest[f]
        BY <1>2, <2>3
      <3>2. CASE latest[f] = NoRun
        BY <3>1, <3>2 DEF Orphans
      <3>3. CASE latest[f] \in Runs /\ f \in presence[latest[f]]
        BY <2>1, <3>1, <3>3 DEF Orphans
      <3> QED
        BY <3>2, <3>3 DEF Orphans, TypeOK
    <2> QED
      BY <2>2, <2>3
  <1>3. ASSUME NEW w \in Workers, CommitIngest(w) \/ CommitFailed(w)
        PROVE  f \notin Orphans'
    <2>1. Publish(w) /\ pc[w] \in {"commit", "failCommit"}
      BY <1>3 DEF CommitIngest, CommitFailed
    <2> QED
      BY <1>1, <1>2, <2>1, PublishRows
  <1>4. CASE RecoverStaleRuns
    BY <1>1, <1>4 DEF RecoverStaleRuns
  <1> QED
    BY <1>1, <1>3, <1>4, OnlyCommits

\* No ingest and no sweep leaves a snapshot of a run that has not the finding, unless
\* it was such a snapshot before.
THEOREM OrphansStay == Spec => OrphansDoNotSpread
  <1>1. TypeOK /\ LockInv /\ RowInv /\ DataInv /\ [Next]_vars => [Orphans' \subseteq Orphans]_vars
    <2> SUFFICES ASSUME TypeOK, LockInv, RowInv, DataInv, [Next]_vars
                 PROVE  Orphans' \subseteq Orphans
      OBVIOUS
    <2>1. Orphans' \subseteq Fingerprints
      BY DEF Orphans
    <2> QED
      BY <2>1, OrphansStep
  <1> QED
    BY <1>1, TypeInit, TypeStep, LockInit, LockStep, RowInit, RowStep, DataInit, DataStep,
       PTL DEF Spec, OrphansDoNotSpread

-----------------------------------------------------------------------------
(* The refinement of RunJournal.                                            *)

LEMMA JournalCommit ==
  ASSUME TypeOK, LockInv, RowInv, NEW w \in Workers, pc[w] \in {"commit", "failCommit"},
         Publish(w)
  PROVE  Abstract!Next \/ UNCHANGED <<status, journal>>
  <1> DEFINE r == run[w]
  <1>1. r \in Runs /\ Chaining(w) /\ journal[r] \in Seq(Hop)
    BY DEF TypeOK, Ended, RowInv
  <1>2. /\ status' = [status EXCEPT ![r] = IF tx[w].state = "none" THEN @ ELSE tx[w].state]
        /\ journal' = [journal EXCEPT ![r] = journal[r] \o tx[w].events]
    BY <1>1 DEF Publish, TypeOK
  <1>3. CASE tx[w].state = "none" /\ tx[w].events = <<>>
    <2>1. journal[r] \o <<>> = journal[r]
      BY <1>1
    <2>2. journal' = [journal EXCEPT ![r] = journal[r]]
      BY <1>2, <1>3, <2>1
    <2> QED
      BY <1>1, <1>2, <1>3, <2>2 DEF TypeOK
  <1>4. CASE /\ tx[w].state = "ready" /\ status[r] # "ready"
             /\ tx[w].events = <<[from |-> status[r], to |-> "running"],
                                 [from |-> "running", to |-> "ready"]>>
    <2>1. status' = [status EXCEPT ![r] = "ready"]
      BY <1>2, <1>4
    <2>2. Abstract!Ingested(r)
      BY <1>1, <1>2, <1>4, <2>1, Zenon DEF Abstract!Ingested, TypeOK
    <2> QED
      BY <1>1, <2>2 DEF Abstract!Next
  <1>5. CASE tx[w].state = "failed" /\ tx[w].events = <<[from |-> status[r], to |-> "failed"]>>
    <2>1. status' = [status EXCEPT ![r] = "failed"]
      BY <1>2, <1>5
    <2>2. Abstract!Failed(r)
      BY <1>1, <1>2, <1>5, <2>1, Zenon DEF Abstract!Failed, TypeOK
    <2> QED
      BY <1>1, <2>2 DEF Abstract!Next
  <1> QED
    BY <1>1, <1>3, <1>4, <1>5 DEF Chaining

\* The machine implements the abstract journal: its initial states are initial there,
\* and every step is a step of the journal or leaves status and events alone.
THEOREM Implementation == Spec => ImplementsJournal
  <1>1. Init => Abstract!Init
    BY DEF Init, Abstract!Init, Statuses
  <1>2. TypeOK /\ LockInv /\ RowInv /\ [Next]_vars => [Abstract!Next]_<<status, journal>>
    <2> SUFFICES ASSUME TypeOK, LockInv, RowInv, [Next]_vars
                 PROVE  Abstract!Next \/ UNCHANGED <<status, journal>>
      OBVIOUS
    <2>1. ASSUME NEW w \in Workers, CommitIngest(w) \/ CommitFailed(w)
          PROVE  Abstract!Next \/ UNCHANGED <<status, journal>>
      BY <2>1, JournalCommit DEF CommitIngest, CommitFailed
    <2>2. CASE RecoverStaleRuns
      <3> PICK failed \in SUBSET StaleRuns :
            /\ status' = [r \in Runs |-> IF r \in failed THEN "failed" ELSE status[r]]
            /\ journal' = [r \in Runs |-> IF r \in failed
                             THEN Append(journal[r], [from |-> "running", to |-> "failed"])
                             ELSE journal[r]]
        BY <2>2, SweepEffect
      <3>1. failed \in SUBSET Runs /\ \A r \in failed : status[r] = "running"
        BY DEF StaleRuns
      <3>2. Abstract!Swept(failed)
        BY <3>1 DEF Abstract!Swept
      <3> QED
        BY <3>1, <3>2 DEF Abstract!Next
    <2> QED
      BY <2>1, <2>2, OnlyCommits
  <1> QED
    BY <1>1, <1>2, TypeInit, TypeStep, LockInit, LockStep, RowInit, RowStep,
       PTL DEF Spec, ImplementsJournal, Abstract!Spec
=============================================================================
