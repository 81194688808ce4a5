------------------------- MODULE RemediationImpact -------------------------
(***************************************************************************)
(* What a remediation has saved: services/remediation/impact.py.           *)
(*                                                                         *)
(* The row of remediation_impact is first written by the remediation       *)
(* worker, in the transaction that records the outcome of its action, and  *)
(* computed again for the newest outcomes by every refresh: after each      *)
(* ingest and on GET /api/remediations/impact?refresh=true.  A computation  *)
(* reads the latest ready run, then the savings before the outcome and in   *)
(* that run, then upserts; at READ COMMITTED runs become ready in between.  *)
(***************************************************************************)
EXTENDS Integers, FiniteSets

CONSTANTS
  Actions,      \* actions the worker has claimed
  NoAction,
  FindingOf,    \* the fingerprint each action is about
  Outcomes,     \* the outcomes each action can have
  DryRuns,      \* the actions executed with dry_run
  Runs,         \* scans
  NoRun,
  Fingerprints,
  Savings,      \* estimated_monthly_savings a scan can report
  Rank,         \* order of action ids and of run ids, for ties
  Clients,      \* connections: workers that record, ingests and calls that refresh
  Limit,        \* how many actions a refresh takes
  MaxTime,      \* bound: last instant
  MaxAborts     \* bound: transactions that fail

Absent == -1
Final == {"completed", "failed"}

ASSUME ImpactAssumption ==
  /\ NoAction \notin Actions /\ NoRun \notin Runs
  /\ FindingOf \in [Actions -> Fingerprints]
  /\ Outcomes \in [Actions -> SUBSET Final]
  /\ DryRuns \subseteq Actions
  /\ Savings \subseteq Nat
  /\ Rank \in [Actions \cup Runs -> Nat]
  /\ Limit \in Nat \ {0}
  /\ MaxTime \in Nat \ {0}
  /\ MaxAborts \in Nat

VARIABLES
  now,
  scan,      \* of each run: when it was made and the savings it found
  ready,     \* the runs whose status is ready
  action,    \* remediation_actions: status and updated_at
  impact,    \* remediation_impact
  claimed,   \* actions whose worker has yet to record the outcome
  pc, tx,    \* each connection's next statement and transaction
  aborts

tables == <<scan, ready, action, impact>>
vars == <<now, tables, claimed, pc, tx, aborts>>

Verified == {"verified_resolved", "verified_persistent"}

NoScan == [ts |-> 0, savings |-> [f \in Fingerprints |-> Absent]]

\* status is action_status, at is finalized_at; status "none" when there is no row.
NoImpact ==
  [status |-> "none", at |-> 0, verification |-> "pending_post_run", run |-> NoRun,
   baseline |-> 0, realized |-> 0]

NoTx ==
  [own |-> NoAction, status |-> "none", ts |-> 0, todo |-> {}, current |-> NoAction,
   latest |-> NoRun, row |-> NoImpact, rows |-> [a \in Actions |-> NoImpact]]

Init ==
  /\ now = 1
  /\ scan = [r \in Runs |-> NoScan]
  /\ ready = {}
  /\ action = [a \in Actions |-> [status |-> "running", at |-> 0]]
  /\ impact = [a \in Actions |-> NoImpact]
  /\ claimed = Actions
  /\ pc = [c \in Clients |-> "idle"]
  /\ tx = [c \in Clients |-> NoTx]
  /\ aborts = 0

-----------------------------------------------------------------------------
(* The derivation of one row.                                               *)

\* ORDER BY run_ts DESC, run_id DESC LIMIT 1.
IsNewest(r, S) ==
  /\ r \in S
  /\ \A s \in S \ {r} :
       \/ scan[s].ts < scan[r].ts
       \/ scan[s].ts = scan[r].ts /\ Rank[s] < Rank[r]

Newest(S) ==
  IF \E r \in Runs : IsNewest(r, S) THEN CHOOSE r \in Runs : IsNewest(r, S) ELSE NoRun

\* _latest_ready_run.
LatestReady == Newest(ready)

\* _baseline_estimated_before_finalized: the last ready run up to the outcome that
\* lists the finding, or else the last one that does.
Baseline(f, at) ==
  LET listing == {r \in ready : scan[r].savings[f] # Absent}
      before == {r \in listing : scan[r].ts <= at}
      source == Newest(IF before # {} THEN before ELSE listing)
  IN  IF source = NoRun THEN 0 ELSE scan[source].savings[f]

\* Wrong variant: a scan made at the moment of the outcome counts.
EvidenceTooEarly(run, at) == run # NoRun /\ scan[run].ts >= at

\* Only a scan made after the outcome tells anything about it.
Evidence(run, at) == run # NoRun /\ scan[run].ts > at

\* Wrong variant: an increase counts as a loss.
SavedSigned(baseline, current) == baseline - current

Saved(baseline, current) == IF baseline > current THEN baseline - current ELSE 0

\* _derive_metrics.
Metrics(status, at, run, baseline, current) ==
  LET row == [NoImpact EXCEPT !.status = status, !.at = at, !.run = run,
                              !.baseline = baseline]
  IN  IF status = "failed"
      THEN [row EXCEPT !.verification = "execution_failed"]
      ELSE IF ~Evidence(run, at)
      THEN row
      ELSE IF current = Absent
      THEN [row EXCEPT !.verification = "verified_resolved", !.realized = baseline]
      ELSE [row EXCEPT !.verification = "verified_persistent",
                       !.realized = Saved(baseline, current)]

\* _build_impact_payload, given the latest run.
Derived(a, status, at, run) ==
  LET f == FindingOf[a]
      current == IF run = NoRun THEN Absent ELSE scan[run].savings[f]
  IN  Metrics(status, at, run, Baseline(f, at), current)

-----------------------------------------------------------------------------
(* The world around: time passes, scans are made, ingested in any order.     *)

Tick ==
  /\ now < MaxTime
  /\ now' = now + 1
  /\ UNCHANGED <<tables, claimed, pc, tx, aborts>>

\* A run made at ts becomes ready with its finding_presence rows, however long after;
\* here it stays ready.
IngestRun(r, ts, found) ==
  /\ r \notin ready
  /\ ts <= now
  /\ scan' = [scan EXCEPT ![r] = [ts |-> ts, savings |-> found]]
  /\ ready' = ready \cup {r}
  /\ UNCHANGED <<now, action, impact, claimed, pc, tx, aborts>>

-----------------------------------------------------------------------------
(* One transaction that computes impact rows.                               *)

\* The worker updates its action, which is running, and goes on to the row; it does so
\* once: should it fail, nobody comes back to the action.
BeginRecord(c, a, status) ==
  /\ pc[c] = "idle"
  /\ a \in claimed
  /\ claimed' = claimed \ {a}
  /\ tx' = [tx EXCEPT ![c] = [NoTx EXCEPT !.own = a, !.status = status, !.ts = now,
                                          !.todo = {a}]]
  /\ pc' = [pc EXCEPT ![c] = "look"]
  /\ UNCHANGED <<now, tables, aborts>>

Later(a, b) ==
  \/ action[a].at > action[b].at
  \/ action[a].at = action[b].at /\ Rank[a] < Rank[b]

\* ORDER BY updated_at DESC, action_id LIMIT: those with fewer than Limit ahead.
Recent ==
  LET final == {a \in Actions : action[a].status \in Final}
  IN  {a \in final : Cardinality({b \in final : Later(b, a)}) < Limit}

BeginRefresh(c) ==
  /\ pc[c] = "idle"
  /\ Recent # {}
  /\ tx' = [tx EXCEPT ![c] = [NoTx EXCEPT !.todo = Recent]]
  /\ pc' = [pc EXCEPT ![c] = "look"]
  /\ UNCHANGED <<now, tables, claimed, aborts>>

\* Wrong variant: the rows of a refresh come in no particular order.
Unordered(todo, a) == a \in todo

\* The rows of a refresh come newest first.
Ordered(todo, a) == a \in todo /\ \A b \in todo \ {a} : Later(a, b)

\* The transaction once it has read the latest run for a, derived the row of its
\* current action, and written that row.
Looked(t, a) ==
  [t EXCEPT !.current = a, !.latest = LatestReady, !.todo = t.todo \ {a}]

\* The recording transaction sees its own outcome.
Seen(t) ==
  IF t.own = t.current THEN [status |-> t.status, at |-> t.ts] ELSE action[t.current]

WithRow(t) ==
  [t EXCEPT !.row = Derived(t.current, Seen(t).status, Seen(t).at, t.latest)]

Upserted(t) ==
  [t EXCEPT !.rows = [t.rows EXCEPT ![t.current] = t.row],
            !.row = NoImpact, !.latest = NoRun, !.current = NoAction]

Look(c) ==
  /\ pc[c] = "look"
  /\ \E a \in Actions :
       /\ Ordered(tx[c].todo, a)
       /\ tx' = [tx EXCEPT ![c] = Looked(tx[c], a)]
  /\ pc' = [pc EXCEPT ![c] = "derive"]
  /\ UNCHANGED <<now, tables, claimed, aborts>>

Derive(c) ==
  /\ pc[c] = "derive"
  /\ tx' = [tx EXCEPT ![c] = WithRow(tx[c])]
  /\ pc' = [pc EXCEPT ![c] = "upsert"]
  /\ UNCHANGED <<now, tables, claimed, aborts>>

Holds(c, a) == tx[c].rows[a] # NoImpact

\* The upsert waits for another transaction that has written the row.
Upsert(c) ==
  /\ pc[c] = "upsert"
  /\ \A o \in Clients \ {c} : ~Holds(o, tx[c].current)
  /\ tx' = [tx EXCEPT ![c] = Upserted(tx[c])]
  /\ pc' = [pc EXCEPT ![c] = IF tx[c].todo = {} THEN "commit" ELSE "look"]
  /\ UNCHANGED <<now, tables, claimed, aborts>>

EndTx(c) ==
  /\ pc' = [pc EXCEPT ![c] = "idle"]
  /\ tx' = [tx EXCEPT ![c] = NoTx]

\* The outcome the transaction of c has recorded is that of its action.
Recorded(c, a) ==
  IF a = tx[c].own THEN [status |-> tx[c].status, at |-> tx[c].ts] ELSE action[a]

\* Wrong variant: the outcome is committed without its impact row.
CommitOutcomeOnly(c) ==
  /\ pc[c] = "commit"
  /\ action' = [a \in Actions |-> Recorded(c, a)]
  /\ EndTx(c)
  /\ UNCHANGED <<now, scan, ready, impact, claimed, aborts>>

Commit(c) ==
  /\ pc[c] = "commit"
  /\ action' = [a \in Actions |-> Recorded(c, a)]
  /\ impact' = [a \in Actions |-> IF Holds(c, a) THEN tx[c].rows[a] ELSE impact[a]]
  /\ EndTx(c)
  /\ UNCHANGED <<now, scan, ready, claimed, aborts>>

\* An error: the refresh after an ingest logs and gives up, a worker dies.
Abort(c) ==
  /\ pc[c] # "idle"
  /\ aborts < MaxAborts
  /\ aborts' = aborts + 1
  /\ EndTx(c)
  /\ UNCHANGED <<now, tables, claimed>>

-----------------------------------------------------------------------------
Compute(c) == Look(c) \/ Derive(c) \/ Upsert(c) \/ Commit(c)

Next ==
  \/ Tick
  \/ \E r \in Runs, ts \in 1..MaxTime, found \in [Fingerprints -> Savings \cup {Absent}] :
       IngestRun(r, ts, found)
  \/ \E c \in Clients :
       \/ \E a \in Actions : \E status \in Outcomes[a] : BeginRecord(c, a, status)
       \/ BeginRefresh(c)
       \/ Compute(c)
       \/ Abort(c)

Spec == Init /\ [][Next]_vars

-----------------------------------------------------------------------------
(* Properties.                                                              *)

Impacts ==
  [status : {"none"} \cup Final, at : Nat,
   verification : Verified \cup {"pending_post_run", "execution_failed"},
   run : Runs \cup {NoRun}, baseline : Nat, realized : Nat]

Transactions ==
  [own : Actions \cup {NoAction}, status : {"none"} \cup Final, ts : Nat,
   todo : SUBSET Actions, current : Actions \cup {NoAction}, latest : Runs \cup {NoRun},
   row : Impacts, rows : [Actions -> Impacts]]

\* Every table and every transaction is well typed; no amount is negative.
TypeOK ==
  /\ now \in Nat
  /\ scan \in [Runs -> [ts : Nat, savings : [Fingerprints -> Nat \cup {Absent}]]]
  /\ ready \subseteq Runs
  /\ action \in [Actions -> [status : {"running"} \cup Final, at : Nat]]
  /\ impact \in [Actions -> Impacts]
  /\ claimed \subseteq Actions
  /\ pc \in [Clients -> {"idle", "look", "derive", "upsert", "commit"}]
  /\ tx \in [Clients -> Transactions]
  /\ aborts \in Nat

\* An action has an outcome exactly when it has an impact row, and the row names
\* that outcome and its time: no refresh writes one of an older state.
OutcomeHasImpact ==
  \A a \in Actions :
    IF action[a].status \in Final
    THEN impact[a].status = action[a].status /\ impact[a].at = action[a].at
    ELSE impact[a] = NoImpact

\* What an impact row of an action must show for the savings it claims.
Evidenced(a, i) ==
  LET seen == scan[i.run].savings[FindingOf[a]]
      left == IF seen = Absent THEN 0 ELSE seen
  IN  i.realized > 0 \/ i.verification \in Verified =>
        /\ i.status = "completed"
        /\ i.run # NoRun
        /\ scan[i.run].ts > i.at
        /\ i.realized <= i.baseline
        /\ i.realized > 0 => i.realized + left = i.baseline

\* Savings are claimed only on evidence: of a completed action, by a run made after
\* its outcome in which the finding is gone or cheaper, and never more than the finding
\* was worth, although the run, the finding and the action are read at three moments
\* and runs become ready in between.
ClaimsHaveEvidence == \A a \in Actions : Evidenced(a, impact[a])

\* Transactions that write several rows never wait for each other in a circle.
NoCircularWait ==
  ~ \E S \in SUBSET Clients :
      /\ S # {}
      /\ \A c \in S : pc[c] = "upsert" /\ \E o \in S \ {c} : Holds(o, tx[c].current)

\* No savings are realized by an action that was only a dry run.
RealizedIsReal == \A a \in DryRuns : impact[a].realized = 0
=============================================================================
