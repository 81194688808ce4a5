------------------------------ MODULE RunState ------------------------------
(***************************************************************************)
(* The run state machine of the ingest worker: apps/backend/run_state.py   *)
(* driven by the COPY path of apps/worker/ingest_parquet.py and by the     *)
(* recovery sweep of apps/worker/recover_runs.py, in one tenant/workspace. *)
(*                                                                         *)
(* An ingester does all its work in ONE Postgres transaction (READ         *)
(* COMMITTED): what it wrote stays in tx[w], invisible to the others, until *)
(* it commits; what it locked makes the others wait.  status, presence,    *)
(* latest, runLocks, journal and lockLog are the committed tables.         *)
(***************************************************************************)
EXTENDS Naturals, Sequences, FiniteSets

CONSTANTS
  Runs,          \* run ids of the scope
  NoRun,         \* "no row" in finding_latest
  Fingerprints,  \* findings the runs may report
  FileRows,      \* FileRows[r]: the fingerprints in the datasets of r, in file order
  RunTs,         \* RunTs[r]: the run timestamp of the manifest
  Workers,       \* ingest processes (and their connections)
  OwnerOf,       \* OwnerOf[w]: lock owner "ingest_parquet:<pid>"; pids may coincide
  MaxAttempts,   \* bound: ingests one worker slot starts
  RecoverLimit   \* max rows of a recovery step (--limit)

ASSUME ConstantsAssumption ==
  /\ NoRun \notin Runs
  /\ FileRows \in [Runs -> Seq(Fingerprints)]
  /\ RunTs \in [Runs -> Nat]
  /\ MaxAttempts \in Nat
  /\ RecoverLimit \in Nat \ {0}

VARIABLES
  status,     \* runs.status, "none" when the run has no row
  presence,   \* finding_presence: the fingerprints stored for each run
  latest,     \* finding_latest.run_id of each fingerprint
  runLocks,   \* run_locks
  journal,    \* run_events of type run.state.changed, per run
  lockLog,    \* run_events of the lock types, counted per run
  base,       \* history: the status a run had when observation began
  pc, run, lockToken, tx, attempts   \* of each worker

db == <<status, presence, latest, runLocks, journal, lockLog>>
vars == <<db, base, pc, run, lockToken, tx, attempts>>

-----------------------------------------------------------------------------
Statuses == {"none", "running", "ready", "failed"}
Hop == [from : Statuses, to : Statuses]
Token == Workers \X Nat
LockRow == [run : Runs, owner : {OwnerOf[w] : w \in Workers}, token : Token,
            live : BOOLEAN]

\* What an open transaction holds: the run_locks key, the lock row it wrote,
\* the lock on the runs row ("row" of an existing row, "insert" of a new one),
\* the status it wrote, its events, whether it replaced the finding_presence rows of
\* the run, and how many rows of the files it has upserted into finding_latest.
Transaction == [key : BOOLEAN, lock : SUBSET LockRow,
                row : {"free", "row", "insert"}, state : Statuses,
                events : Seq(Hop), acquired : {0, 1}, released : {0, 1},
                loaded : BOOLEAN, upserted : Nat]

NoTx == [key |-> FALSE, lock |-> {}, row |-> "free", state |-> "none",
         events |-> <<>>, acquired |-> 0, released |-> 0,
         loaded |-> FALSE, upserted |-> 0]

Steps == {"acquire", "begin", "insert", "load", "upsert", "commit"}
FailSteps == {"failSelect", "failInsert", "failCommit"}
Ended == {"idle", "exited"}   \* "exited": refused, failed or killed

RowsOf(r) == {FileRows[r][i] : i \in 1 .. Len(FileRows[r])}
Upserted(w) == IF run[w] = NoRun THEN {} ELSE {FileRows[run[w]][i] : i \in 1 .. tx[w].upserted}
Others(w) == {v \in Workers \ {w} : run[v] = run[w]}

\* What the statements do to their transaction: the lock row is written and, in the
\* same transaction, deleted by its token; the runs row is locked, and written as
\* running, ready or failed with its event; the rows of the findings are written.
Acquired(t, l) == [t EXCEPT !.key = TRUE, !.lock = {l}, !.acquired = 1]
Released(t) == [t EXCEPT !.lock = {}, !.released = 1]
RowLocked(t) == [t EXCEPT !.row = "row"]
Running(t, row, prev) ==
  [t EXCEPT !.row = row, !.state = "running",
            !.events = <<[from |-> prev, to |-> "running"]>>]
Ready(t) == [t EXCEPT !.state = "ready",
                      !.events = Append(@, [from |-> "running", to |-> "ready"])]

\* Wrong variant: a status that is none of the three.
FailedAsError(t, row, prev, held) ==
  [t EXCEPT !.row = row, !.state = "error",
            !.events = <<[from |-> prev, to |-> "error"]>>,
            !.key = (held # {}), !.released = IF held = {} THEN 0 ELSE 1]

Failed(t, row, prev, held) ==
  [t EXCEPT !.row = row, !.state = "failed",
            !.events = <<[from |-> prev, to |-> "failed"]>>,
            !.key = (held # {}), !.released = IF held = {} THEN 0 ELSE 1]
Loaded(t) == [t EXCEPT !.loaded = TRUE]
RowUpserted(t) == [t EXCEPT !.upserted = @ + 1]

\* The statements that wait: on the run_locks key, on the row of an existing
\* run, on the unique key of a run being inserted, on a finding_latest row.

\* Wrong variants of the waits: the statement goes on.
KeyNotAwaited(w) == w \in Workers
RowNotAwaited(w) == w \in Workers

KeyFree(w) == \A v \in Others(w) : ~tx[v].key
RowFree(w) == \A v \in Others(w) : tx[v].row # "row"
InsertFree(w) == \A v \in Others(w) : tx[v].row # "insert"
LatestFree(w, f) == \A v \in Workers \ {w} : f \notin Upserted(v)

-----------------------------------------------------------------------------
(* The databases that ingests without COPY leave when they ran one at a time, *)
(* in any order of the runs, and each may have died between two statements:   *)
(* that path commits the DELETE of the finding_presence rows by itself, then   *)
(* each batch of finding_presence before the same batch of finding_latest.    *)
(* Migration 005 leaves no lock and no event.                                 *)
FirstRows(r, n) == {FileRows[r][i] : i \in 1 .. n}

Init ==
  /\ status \in [Runs -> Statuses]
  /\ presence \in [Runs -> SUBSET Fingerprints]
  /\ latest \in [Fingerprints -> Runs \cup {NoRun}]
  /\ \A r \in Runs :
       /\ \E n \in 0 .. Len(FileRows[r]) : presence[r] = FirstRows(r, n)
       /\ status[r] = "none" => presence[r] = {}
       /\ status[r] = "ready" => /\ presence[r] = RowsOf(r)
                                 /\ \A f \in RowsOf(r) : latest[f] # NoRun
  /\ \A f \in Fingerprints : latest[f] # NoRun =>
       /\ status[latest[f]] # "none"
       /\ \E n \in 1 .. Len(FileRows[latest[f]]) :
            /\ FileRows[latest[f]][n] = f
            /\ \A i \in 1 .. n : latest[FileRows[latest[f]][i]] # NoRun
  /\ base = status
  /\ runLocks = {}
  /\ journal = [r \in Runs |-> <<>>]
  /\ lockLog = [r \in Runs |-> [acquired |-> 0, released |-> 0, expired |-> 0]]
  /\ pc = [w \in Workers |-> "idle"]
  /\ run = [w \in Workers |-> NoRun]
  /\ lockToken = [w \in Workers |-> {}]
  /\ tx = [w \in Workers |-> NoTx]
  /\ attempts = [w \in Workers |-> 0]

-----------------------------------------------------------------------------
(* The COPY path of one ingester (_ingest_with_copy).                       *)

\* A process is started on the manifest of r; its connection opens a
\* transaction with the first statement.
StartIngest(w, r) ==
  /\ pc[w] \in Ended
  /\ attempts[w] < MaxAttempts
  /\ attempts' = [attempts EXCEPT ![w] = @ + 1]
  /\ pc' = [pc EXCEPT ![w] = "acquire"]
  /\ run' = [run EXCEPT ![w] = r]
  /\ UNCHANGED <<db, base, lockToken, tx>>

\* The process is over: nothing of it remains but what it committed.
EndIngest(w, how) ==
  /\ pc' = [pc EXCEPT ![w] = how]
  /\ run' = [run EXCEPT ![w] = NoRun]
  /\ lockToken' = [lockToken EXCEPT ![w] = {}]
  /\ tx' = [tx EXCEPT ![w] = NoTx]
  /\ UNCHANGED <<base, attempts>>

\* Wrong variant: the lock row is committed as soon as it is written.
AcquireAndCommit(w) ==
  LET r == run[w]
      mine == [run |-> r, owner |-> OwnerOf[w], token |-> <<w, attempts[w]>>,
               live |-> TRUE]
      taken == {l \in runLocks : l.run = r /\ l.live /\ l.owner # OwnerOf[w]}
  IN  /\ pc[w] = "acquire" /\ KeyFree(w) /\ taken = {}
      /\ runLocks' = {l \in runLocks : l.run # r} \cup {mine}
      /\ lockLog' = [lockLog EXCEPT ![r].acquired = @ + 1]
      /\ lockToken' = [lockToken EXCEPT ![w] = {mine.token}]
      /\ pc' = [pc EXCEPT ![w] = "begin"]
      /\ UNCHANGED <<status, presence, latest, journal, base, run, attempts, tx>>

\* INSERT ... ON CONFLICT DO UPDATE WHERE expired or same owner RETURNING:
\* no row returned is SystemExit, which passes the "except Exception".
AcquireRunLock(w) ==
  LET r == run[w]
      mine == [run |-> r, owner |-> OwnerOf[w], token |-> <<w, attempts[w]>>,
               live |-> TRUE]
      taken == {l \in runLocks : l.run = r /\ l.live /\ l.owner # OwnerOf[w]}
  IN  /\ pc[w] = "acquire"
      /\ KeyFree(w)
      /\ UNCHANGED db
      /\ IF taken # {}
         THEN EndIngest(w, "exited")
         ELSE /\ tx' = [tx EXCEPT ![w] = Acquired(@, mine)]
              /\ lockToken' = [lockToken EXCEPT ![w] = {mine.token}]
              /\ pc' = [pc EXCEPT ![w] = "begin"]
              /\ UNCHANGED <<base, run, attempts>>

\* SELECT status FOR UPDATE; a run that is ready is skipped, an existing one is
\* set to running, a missing one is inserted by the next statement.
BeginRunRunning(w) ==
  LET prev == status[run[w]]
  IN  /\ pc[w] = "begin"
      /\ RowFree(w)
      /\ \/ /\ prev = "ready"
            /\ tx' = [tx EXCEPT ![w] = Released(RowLocked(@))]
            /\ pc' = [pc EXCEPT ![w] = "commit"]
         \/ /\ prev = "none"
            /\ pc' = [pc EXCEPT ![w] = "insert"]
            /\ tx' = tx
         \/ /\ prev \in {"running", "failed"}
            /\ tx' = [tx EXCEPT ![w] = Running(@, "row", prev)]
            /\ pc' = [pc EXCEPT ![w] = "load"]
      /\ UNCHANGED <<db, base, run, lockToken, attempts>>

\* INSERT INTO runs: waits for another uncommitted insert of the run, and is a
\* unique violation (FailIngest) when the run has got a row meanwhile.
InsertRunning(w) ==
  /\ pc[w] = "insert"
  /\ InsertFree(w)
  /\ status[run[w]] = "none"
  /\ tx' = [tx EXCEPT ![w] = Running(@, "insert", "none")]
  /\ pc' = [pc EXCEPT ![w] = "load"]
  /\ UNCHANGED <<db, base, run, lockToken, attempts>>

\* DELETE and INSERT of the finding_presence rows of the run.
LoadPresence(w) ==
  /\ pc[w] = "load"
  /\ tx' = [tx EXCEPT ![w] = Loaded(@)]
  /\ pc' = [pc EXCEPT ![w] = "upsert"]
  /\ UNCHANGED <<db, base, run, lockToken, attempts>>

\* INSERT ... ON CONFLICT DO UPDATE into finding_latest, one row at a time in
\* the order of the files; each row stays locked until the transaction ends.
UpsertLatest(w) ==
  /\ pc[w] = "upsert"
  /\ tx[w].upserted < Len(FileRows[run[w]])
  /\ LatestFree(w, FileRows[run[w]][tx[w].upserted + 1])
  /\ tx' = [tx EXCEPT ![w] = RowUpserted(@)]
  /\ UNCHANGED <<db, base, pc, run, lockToken, attempts>>

\* Wrong variants: ready before the last row is upserted; ready made visible at
\* once, outside the transaction of the rows.
ReadyBeforeRows(w) ==
  /\ pc[w] = "upsert"
  /\ tx[w].loaded
  /\ tx[w].state = "running"
  /\ tx' = [tx EXCEPT ![w] = Released(Ready(@))]
  /\ lockToken' = [lockToken EXCEPT ![w] = {}]
  /\ pc' = [pc EXCEPT ![w] = "commit"]
  /\ UNCHANGED <<db, base, run, attempts>>

ReadyAtOnce(w) ==
  /\ pc[w] = "upsert"
  /\ tx[w].upserted = Len(FileRows[run[w]])
  /\ tx[w].loaded
  /\ tx[w].state = "running"
  /\ status' = [status EXCEPT ![run[w]] = "ready"]
  /\ tx' = [tx EXCEPT ![w] = Released(Ready(@))]
  /\ lockToken' = [lockToken EXCEPT ![w] = {}]
  /\ pc' = [pc EXCEPT ![w] = "commit"]
  /\ UNCHANGED <<presence, latest, runLocks, journal, lockLog, base, run, attempts>>

\* The post-ingest invariants hold on the rows the transaction sees; then
\* UPDATE runs ... WHERE status='running', and the lock row is deleted.
TransitionRunToReady(w) ==
  /\ pc[w] = "upsert"
  /\ tx[w].upserted = Len(FileRows[run[w]])
  /\ tx[w].loaded
  /\ tx[w].state = "running"
  /\ tx' = [tx EXCEPT ![w] = Released(Ready(@))]
  /\ lockToken' = [lockToken EXCEPT ![w] = {}]
  /\ pc' = [pc EXCEPT ![w] = "commit"]
  /\ UNCHANGED <<db, base, run, attempts>>

-----------------------------------------------------------------------------
(* Wrong variant: the finding_presence rows are deleted after the insert.    *)
PublishDeletedLast(w) ==
  LET r == run[w]
      t == tx[w]
  IN  /\ status' = [status EXCEPT ![r] = IF t.state = "none" THEN @ ELSE t.state]
      /\ journal' = [journal EXCEPT ![r] = @ \o t.events]
      /\ presence' = [presence EXCEPT ![r] = IF t.loaded THEN {} ELSE @]
      /\ latest' = [f \in Fingerprints |-> IF f \in Upserted(w) THEN r ELSE latest[f]]
      /\ runLocks' = runLocks
      /\ lockLog' = [lockLog EXCEPT ![r].acquired = @ + t.acquired,
                                    ![r].released = @ + t.released]

(* COMMIT makes all the writes of the transaction visible at once.          *)
Publish(w) ==
  LET r == run[w]
      t == tx[w]
  IN  /\ status' = [status EXCEPT ![r] = IF t.state = "none" THEN @ ELSE t.state]
      /\ journal' = [journal EXCEPT ![r] = @ \o t.events]
      /\ presence' = [presence EXCEPT ![r] = IF t.loaded THEN RowsOf(r) ELSE @]
      /\ latest' = [f \in Fingerprints |-> IF f \in Upserted(w) THEN r ELSE latest[f]]
      /\ runLocks' = IF t.key THEN {l \in runLocks : l.run # r} \cup t.lock
                              ELSE runLocks
      /\ lockLog' = [lockLog EXCEPT ![r].acquired = @ + t.acquired,
                                    ![r].released = @ + t.released]

CommitIngest(w) ==
  /\ pc[w] = "commit"
  /\ Publish(w)
  /\ EndIngest(w, "idle")

-----------------------------------------------------------------------------
(* "except Exception": rollback, then the failed status in a transaction of  *)
(* its own.  Any statement may raise (a lost file, a failed assertion, a      *)
(* statement timeout while it waits, a deadlock victim, a unique violation). *)

\* Wrong variant: no rollback, so that the failed status is written and committed
\* with whatever the transaction had done.
FailWithoutRollback(w) ==
  /\ pc[w] \in Steps
  /\ pc' = [pc EXCEPT ![w] = "failSelect"]
  /\ UNCHANGED <<db, base, run, lockToken, tx, attempts>>

FailIngest(w) ==
  /\ pc[w] \in Steps
  /\ tx' = [tx EXCEPT ![w] = NoTx]
  /\ pc' = [pc EXCEPT ![w] = "failSelect"]
  /\ UNCHANGED <<db, base, run, lockToken, attempts>>

\* The failed status and its event are written, and the lock row is deleted by
\* the token of the rolled back transaction, if any such row is committed.
MarkFailed(w, prev, row) ==
  LET held == {l \in runLocks : l.run = run[w] /\ l.token \in lockToken[w]}
  IN  /\ tx' = [tx EXCEPT ![w] = Failed(@, row, prev, held)]
      /\ pc' = [pc EXCEPT ![w] = "failCommit"]

\* transition_run_to_failed: SELECT status FOR UPDATE.  The previous status is
\* recorded in the event and not looked at otherwise.
SelectForFailed(w) ==
  LET prev == status[run[w]]
  IN  /\ pc[w] = "failSelect"
      /\ RowFree(w)
      /\ IF prev = "none"
         THEN /\ pc' = [pc EXCEPT ![w] = "failInsert"]
              /\ tx' = tx
         ELSE MarkFailed(w, prev, "row")
      /\ UNCHANGED <<db, base, run, lockToken, attempts>>

\* Wrong variant: the unique violation is not handled.
InsertFailedUnhandled(w) ==
  /\ pc[w] = "failInsert"
  /\ InsertFree(w)
  /\ status[run[w]] = "none"
  /\ MarkFailed(w, "none", "insert")
  /\ UNCHANGED <<db, base, run, lockToken, attempts>>

\* INSERT of a failed run; a unique violation is only logged ("Failed to
\* persist failed run state") and the status of the other stands.
InsertFailed(w) ==
  /\ pc[w] = "failInsert"
  /\ InsertFree(w)
  /\ IF status[run[w]] = "none"
     THEN /\ MarkFailed(w, "none", "insert")
          /\ UNCHANGED <<db, base, run, lockToken, attempts>>
     ELSE /\ EndIngest(w, "exited")
          /\ UNCHANGED db

CommitFailed(w) ==
  /\ pc[w] = "failCommit"
  /\ Publish(w)
  /\ EndIngest(w, "exited")

\* The process is killed or its connection lost: the server rolls back.
CrashIngest(w) ==
  /\ pc[w] \in Steps \cup FailSteps
  /\ EndIngest(w, "exited")
  /\ UNCHANGED db

\* Time passes the expires_at of a lock row, be it committed or not.
Expired(locks, r) == {[l EXCEPT !.live = (@ /\ l.run # r)] : l \in locks}

LockExpires(r) ==
  /\ \E l \in runLocks \cup UNION {tx[w].lock : w \in Workers} : l.run = r /\ l.live
  /\ runLocks' = Expired(runLocks, r)
  /\ tx' = [w \in Workers |-> [tx[w] EXCEPT !.lock = Expired(@, r)]]
  /\ UNCHANGED <<status, presence, latest, journal, lockLog, base, pc, run,
                 lockToken, attempts>>

-----------------------------------------------------------------------------
(* One committed recovery sweep (run_recovery): expired locks are deleted,   *)
(* then running runs without a live lock become failed, rows locked by an     *)
(* open transaction skipped, at most RecoverLimit of each, the oldest runs    *)
(* first.  How long ago a lock expired is not modelled: any of them come first. *)
Sweep(S, candidates) ==
  /\ S \subseteq candidates
  /\ Cardinality(S) <= RecoverLimit
  /\ Cardinality(S) < RecoverLimit => S = candidates

Reapable ==
  {l \in runLocks : ~l.live /\ \A w \in Workers : ~(run[w] = l.run /\ tx[w].key)}
\* Wrong variants: rows locked by others are not skipped; only runs whose lock row
\* has expired are looked at.
StaleRunsNotSkipped ==
  {r \in Runs : status[r] = "running" /\ ~\E l \in runLocks : l.run = r /\ l.live}
StaleRunsWithLock ==
  {r \in Runs : status[r] = "running" /\ \E l \in runLocks : l.run = r /\ ~l.live}

StaleRuns ==
  {r \in Runs : /\ status[r] = "running"
                /\ ~\E l \in runLocks : l.run = r /\ l.live
                /\ \A w \in Workers : run[w] = r => tx[w].row # "row"}

RecoverStaleRuns ==
  \E reaped \in SUBSET Reapable, failed \in SUBSET StaleRuns :
    /\ reaped \cup failed # {}
    /\ Sweep(reaped, Reapable)
    /\ Sweep(failed, StaleRuns)
    /\ \A r \in failed, q \in StaleRuns \ failed : RunTs[r] <= RunTs[q]
    /\ runLocks' = runLocks \ reaped
    /\ lockLog' = [r \in Runs |-> [lockLog[r] EXCEPT
                     !.expired = IF \E l \in reaped : l.run = r THEN @ + 1 ELSE @]]
    /\ status' = [r \in Runs |-> IF r \in failed THEN "failed" ELSE status[r]]
    /\ journal' = [r \in Runs |-> IF r \in failed
                     THEN Append(journal[r], [from |-> "running", to |-> "failed"])
                     ELSE journal[r]]
    /\ UNCHANGED <<presence, latest, base, pc, run, lockToken, tx, attempts>>

-----------------------------------------------------------------------------
\* What one connected ingester does next unless an error stops it.
Advance(w) ==
  \/ AcquireRunLock(w)
  \/ BeginRunRunning(w)
  \/ InsertRunning(w)
  \/ LoadPresence(w)
  \/ UpsertLatest(w)
  \/ TransitionRunToReady(w)
  \/ CommitIngest(w)
  \/ SelectForFailed(w)
  \/ InsertFailed(w)
  \/ CommitFailed(w)

\* Statements that can only raise: the unique violation of InsertRunning, and
\* the wait for a finding_latest row in a cycle of such waits, which the deadlock
\* detector of the server ends.
WaitsFor(w) ==
  {v \in Workers \ {w} :
     /\ pc[w] = "upsert"
     /\ tx[w].upserted < Len(FileRows[run[w]])
     /\ FileRows[run[w]][tx[w].upserted + 1] \in Upserted(v)}

Deadlocked(w) ==
  \E S \in SUBSET Workers :
    /\ w \in S
    /\ \A v \in S : /\ WaitsFor(v) \cap S # {}
                   /\ \E u \in S : v \in WaitsFor(u)

MustRaise(w) ==
  \/ pc[w] = "insert" /\ InsertFree(w) /\ status[run[w]] # "none"
  \/ Deadlocked(w)

Next ==
  \/ \E w \in Workers :
       \/ \E r \in Runs : StartIngest(w, r)
       \/ Advance(w)
       \/ FailIngest(w)
       \/ CrashIngest(w)
  \/ \E r \in Runs : LockExpires(r)
  \/ RecoverStaleRuns

Spec == Init /\ [][Next]_vars

(* The worker runs its statements, the server ends every deadlock, and the   *)
(* operator runs the recovery sweep again and again; errors, crashes and new *)
(* ingests are never required.                                               *)
Fairness ==
  /\ \A w \in Workers : WF_vars(Advance(w)) /\ WF_vars(MustRaise(w) /\ FailIngest(w))
  /\ WF_vars(RecoverStaleRuns)

FairSpec == Spec /\ Fairness

-----------------------------------------------------------------------------
TypeOK ==
  /\ status \in [Runs -> Statuses]
  /\ base \in [Runs -> Statuses]
  /\ presence \in [Runs -> SUBSET Fingerprints]
  /\ latest \in [Fingerprints -> Runs \cup {NoRun}]
  /\ runLocks \in SUBSET LockRow
  /\ journal \in [Runs -> Seq(Hop)]
  /\ lockLog \in [Runs -> [acquired : Nat, released : Nat, expired : Nat]]
  /\ pc \in [Workers -> Steps \cup FailSteps \cup Ended]
  /\ run \in [Workers -> Runs \cup {NoRun}]
  /\ lockToken \in [Workers -> SUBSET Token]
  /\ tx \in [Workers -> Transaction]
  /\ attempts \in [Workers -> Nat]
  /\ \A w \in Workers : pc[w] \notin Ended => run[w] \in Runs

\* One ingest of a run at a time: while a transaction holds the run_locks key of
\* a run, or has written its runs row, no other transaction has either.
OneIngesterPerRun ==
  \A v, w \in Workers :
    v # w /\ run[v] = run[w] /\ run[w] # NoRun =>
      /\ ~(tx[v].key /\ tx[w].key)
      /\ ~(tx[v].state # "none" /\ tx[w].state # "none")

\* The events of a run tell its whole story: they start at the status the run
\* had, each begins where the one before ended, and the last one ends at the
\* status the run has, whatever ingesters, failures and sweeps interleave.
Chained(from, events, to) ==
  IF events = <<>> THEN from = to
  ELSE /\ events[1].from = from
       /\ events[Len(events)].to = to
       /\ \A i \in 1 .. Len(events) - 1 : events[i + 1].from = events[i].to

JournalChain == \A r \in Runs : Chained(base[r], journal[r], status[r])

\* A ready run is completely ingested: every finding of its files is in
\* finding_presence, and has a row in finding_latest.
ReadyIsComplete ==
  \A r \in Runs : status[r] = "ready" =>
    /\ presence[r] = RowsOf(r)
    /\ \A f \in RowsOf(r) : latest[f] # NoRun

\* The snapshots whose run has not the finding: an ingest without COPY that deleted
\* the finding_presence rows of the run and died.
Orphans == {f \in Fingerprints : latest[f] # NoRun /\ f \notin presence[latest[f]]}

\* The lock row of an ingester never outlives its transaction: run_locks is empty
\* for every other session, acquired and released events come in pairs, and the
\* sweep never meets an expired lock.
LocksStayPrivate ==
  /\ runLocks = {}
  /\ \A r \in Runs : lockLog[r].acquired = lockLog[r].released /\ lockLog[r].expired = 0

\* The discipline of the transactions, from which the properties follow.
\* Balanced: which events and which lock row a transaction holds at each step.
\* Chaining: what it has written to the runs row, always from the status that is
\* committed.  Exclusive: one transaction per run holds the key, and one the row.
\* Complete: how far the rows of the findings are.
Unstarted == {"acquire", "failSelect", "failInsert"}

Balanced(w) ==
  LET t == tx[w]
  IN  /\ pc[w] \in Ended \cup Unstarted => t = NoTx
      /\ pc[w] \in {"begin", "insert", "load", "upsert"} =>
           t.key /\ t.acquired = 1 /\ t.released = 0
      /\ pc[w] = "commit" =>
           t.key /\ t.lock = {} /\ t.acquired = 1 /\ t.released = 1
      /\ pc[w] = "failCommit" =>
           ~t.key /\ t.lock = {} /\ t.acquired = 0 /\ t.released = 0

Chaining(w) ==
  LET t == tx[w]
      start == [from |-> status[run[w]], to |-> "running"]
  IN  /\ pc[w] \in {"begin", "insert"} =>
           t.row = "free" /\ t.state = "none" /\ t.events = <<>>
      /\ pc[w] \in {"load", "upsert"} =>
           /\ t.row # "free" /\ t.state = "running" /\ t.events = <<start>>
           /\ status[run[w]] # "ready"
      /\ pc[w] = "commit" =>
           /\ t.row # "free"
           /\ \/ t.state = "none" /\ t.events = <<>>
              \/ /\ t.state = "ready" /\ status[run[w]] # "ready"
                 /\ t.events = <<start, [from |-> "running", to |-> "ready"]>>
      /\ pc[w] = "failCommit" =>
           /\ t.row # "free" /\ t.state = "failed"
           /\ t.events = <<[from |-> status[run[w]], to |-> "failed"]>>
      /\ t.row = "row" => status[run[w]] # "none"
      /\ t.row = "insert" => status[run[w]] = "none"

Exclusive(v, w) ==
  run[v] = run[w] => /\ ~(tx[v].key /\ tx[w].key)
                     /\ ~(tx[v].row # "free" /\ tx[w].row # "free")

Complete(w) ==
  LET t == tx[w]
  IN  /\ pc[w] \in {"begin", "insert", "load", "failCommit"} =>
           ~t.loaded /\ t.upserted = 0
      /\ pc[w] = "upsert" => t.loaded /\ t.upserted <= Len(FileRows[run[w]])
      /\ pc[w] = "commit" =>
           \/ t.state = "none" /\ ~t.loaded /\ t.upserted = 0
           \/ t.state = "ready" /\ t.loaded /\ t.upserted = Len(FileRows[run[w]])

LockInv == LocksStayPrivate /\ \A w \in Workers : Balanced(w)
RowInv == /\ \A w \in Workers : Chaining(w)
          /\ \A v, w \in Workers : v # w => Exclusive(v, w)
DataInv == /\ ReadyIsComplete
           /\ \A r \in Runs : presence[r] \subseteq RowsOf(r)
           /\ \A w \in Workers : Complete(w)
TransactionDiscipline == LockInv /\ RowInv /\ JournalChain /\ DataInv

\* A run becomes ready together with all its findings: the step that shows the
\* status shows its membership and the snapshots it made, never one without the
\* other.
ReadyIsAtomic ==
  [][\A r \in Runs : status[r] # "ready" /\ status'[r] = "ready" =>
       /\ presence'[r] = RowsOf(r)
       /\ \A f \in RowsOf(r) : latest'[f] = r]_vars

\* An ingest that raises, is refused or dies leaves no finding row behind.
FailureLeavesFindings ==
  [][\A w \in Workers : pc[w] \in Steps \cup FailSteps /\ pc'[w] = "exited" =>
       UNCHANGED <<presence, latest>>]_vars

\* An ingest with COPY repairs orphan snapshots and never makes one: no step shows a
\* snapshot of a run without its membership, or takes the membership from under a
\* snapshot.
OrphansDoNotSpread == [][Orphans' \subseteq Orphans]_vars

\* The detailed machine implements the abstract journal: no interleaving of
\* ingesters, failures and sweeps shows a reader any other status change or event.
Abstract == INSTANCE RunJournal
ImplementsJournal == Abstract!Spec

\* A ready run stays ready: begin_run_running keeps it, and an ingest of it is
\* skipped.
ReadyIsKept == [][\A r \in Runs : status[r] = "ready" => status'[r] = "ready"]_vars

\* finding_latest holds the latest snapshot: that of a run is never replaced by that
\* of an older run.
LatestNeverGoesBack ==
  [][\A f \in Fingerprints : latest[f] # NoRun =>
       latest'[f] # NoRun /\ RunTs[latest[f]] <= RunTs[latest'[f]]]_vars

\* Every ingest that starts comes to an end, waits and deadlocks included.
IngestEnds == \A w \in Workers : pc[w] \notin Ended ~> pc[w] \in Ended

\* A run that an ingest without COPY left running does not stay so.
StaleRunsLeave == \A r \in Runs : status[r] = "running" ~> status[r] # "running"
=============================================================================
