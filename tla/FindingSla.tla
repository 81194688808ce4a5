----------------------------- MODULE FindingSla -----------------------------
(***************************************************************************)
(* The lifecycle decisions of findings and the SLA clock that follows them. *)
(*                                                                         *)
(* A decision (ignored, resolved, snoozed until some time) on one finding  *)
(* or on a whole group is one row of finding_state_current or               *)
(* finding_group_state_current.  Triggers on both tables call               *)
(* governance_sync_finding_sla for every finding concerned, inside the     *)
(* transaction of the request: it reads the effective state of the finding  *)
(* from the view finding_current, then locks the governance row and moves   *)
(* its clock.  The database runs at READ COMMITTED, so between these two    *)
(* statements other requests may commit.                                    *)
(*                                                                         *)
(* Time is counted in days; 0 stands for SQL NULL.  The findings followed   *)
(* here share one check and one category, hence one policy per level.       *)
(***************************************************************************)
EXTENDS Integers, FiniteSets

CONSTANTS
  Findings,     \* fingerprints
  Groups,       \* group keys
  GroupOf,      \* the group key of each finding
  NoSubject,    \* neither a finding nor a group
  Clients,      \* API requests that can be served at a time
  PolicyDays,   \* sla_days an administrator may enter
  DefaultDays,  \* sla_days of the category in the default scope, or 0
  Snoozes,      \* snooze_until values clients send
  MaxTime,      \* bound: last day
  MaxRequests   \* bound: requests served

ASSUME ClockAssumption ==
  /\ GroupOf \in [Findings -> Groups]
  /\ Findings \cap Groups = {}
  /\ NoSubject \notin Findings \cup Groups
  /\ PolicyDays \subseteq Nat \ {0}
  /\ DefaultDays \in Nat
  /\ Snoozes \subseteq Nat
  /\ MaxTime \in Nat \ {0}
  /\ MaxRequests \in Nat

VARIABLES
  now,       \* the clock of the database server
  listed,    \* findings with a row in finding_latest
  decision,  \* committed finding_state_current and finding_group_state_current
  policy,    \* sla_days of the scope: check override and category (0: no row)
  gov,       \* committed finding_governance rows
  granted,   \* days of extension the API has confirmed, per finding (history)
  pc,        \* next statement of each client's transaction
  tx,        \* what each client's transaction has read and written
  requests,  \* requests served so far
  overlapped \* "yes" once two lifecycle requests have been under way (history)

db == <<listed, decision, policy, gov>>
vars == <<now, db, granted, pc, tx, requests, overlapped>>

Subjects == Findings \cup Groups
States == {"none", "ignored", "resolved", "snoozed"}
Effective == {"open", "ignored", "resolved", "snoozed"}

NoDecision == [state |-> "none", until |-> 0]

\* What the six lifecycle endpoints write.
Requests ==
  {[state |-> s, until |-> 0] : s \in {"ignored", "resolved"}}
    \cup {[state |-> "snoozed", until |-> u] : u \in Snoozes}

\* A finding_governance row; created = 0 when there is none.
NoRow ==
  [created |-> 0, opened |-> 0, pausedAt |-> 0, paused |-> 0, extension |-> 0,
   deadline |-> 0, breachedAt |-> 0]

NoTx ==
  [subject |-> NoSubject, decision |-> NoDecision, ts |-> 0, todo |-> {},
   finding |-> NoSubject, state |-> "open", days |-> 0,
   rows |-> [f \in Findings |-> NoRow]]

-----------------------------------------------------------------------------
(* The read model and the policy lookup.                                    *)

\* A decision still in force at time t.
InForce(d, t) ==
  \/ d.state \in {"resolved", "ignored"}
  \/ d.state = "snoozed" /\ d.until > t

\* finding_current.effective_state: the group decides first.
EffectiveState(group, own, t) ==
  IF InForce(group, t) THEN group.state
  ELSE IF InForce(own, t) THEN own.state
  ELSE "open"

\* governance_resolve_sla_days.
SlaDays(p) ==
  IF p.check # 0 THEN p.check
  ELSE IF p.category # 0 THEN p.category
  ELSE DefaultDays

-----------------------------------------------------------------------------
(* governance_sync_finding_sla, once the effective state, the policy and     *)
(* the governance row r have been read.                                     *)

DeadlineFrom(opened, days, paused, extension) ==
  IF opened # 0 /\ days # 0 THEN opened + days + paused + extension ELSE 0

\* INSERT ... ON CONFLICT DO NOTHING.
Inserted(r, state, days, ts) ==
  LET opened == IF state = "open" THEN ts ELSE 0
  IN  IF r.created # 0 THEN r
      ELSE [NoRow EXCEPT !.created = ts,
                         !.opened = opened,
                         !.deadline = DeadlineFrom(opened, days, 0, 0)]

\* Wrong variant: opened anew whenever the finding is seen open.
ReopenedAt(r, state, ts) == IF state = "open" THEN ts ELSE r.opened

Opened(r, state, ts) == IF state = "open" /\ r.opened = 0 THEN ts ELSE r.opened

Resumes(r, state) == r.pausedAt # 0 /\ state # "snoozed"

\* Wrong variant: the difference as it is.
ElapsedSigned(from, to) == to - from

\* GREATEST(0, event_ts - sla_paused_at).
Elapsed(from, to) == IF to > from THEN to - from ELSE 0

Paused(r, state, ts) ==
  r.paused + (IF Resumes(r, state) THEN Elapsed(r.pausedAt, ts) ELSE 0)

\* Wrong variant: a pause that has been credited is not closed.
PausedAtKept(r, state, ts) ==
  IF state = "snoozed" /\ r.pausedAt = 0 THEN ts ELSE r.pausedAt

PausedAt(r, state, ts) ==
  IF Resumes(r, state) THEN 0
  ELSE IF state = "snoozed" /\ r.pausedAt = 0 THEN ts
  ELSE r.pausedAt

\* Wrong variant: the breach is computed afresh.
BreachedNow(r, deadline, ts) == IF deadline # 0 /\ deadline < ts THEN ts ELSE 0

BreachedAt(r, deadline, ts) ==
  IF deadline = 0 THEN 0
  ELSE IF r.breachedAt = 0 /\ deadline < ts THEN ts
  ELSE r.breachedAt

Moved(r, state, days, ts) ==
  LET opened == Opened(r, state, ts)
      paused == Paused(r, state, ts)
      deadline == DeadlineFrom(opened, days, paused, r.extension)
  IN  [created |-> r.created,
       opened |-> opened,
       pausedAt |-> PausedAt(r, state, ts),
       paused |-> paused,
       extension |-> r.extension,
       deadline |-> deadline,
       breachedAt |-> BreachedAt(r, deadline, ts)]

Synced(r, state, days, ts) == Moved(Inserted(r, state, days, ts), state, days, ts)

-----------------------------------------------------------------------------
NoPolicy == [check |-> 0, category |-> 0]

\* Migration 014 has synchronised every finding visible on its day, before any
\* decision and with the default policies of migration 012.
Init ==
  /\ now = 1
  /\ listed \in SUBSET Findings
  /\ decision = [s \in Subjects |-> NoDecision]
  /\ policy = NoPolicy
  /\ gov = [f \in Findings |-> IF f \in listed
                               THEN Synced(NoRow, "open", DefaultDays, 1)
                               ELSE NoRow]
  /\ granted = [f \in Findings |-> 0]
  /\ pc = [c \in Clients |-> "idle"]
  /\ tx = [c \in Clients |-> NoTx]
  /\ requests = 0
  /\ overlapped = "no"

Tick ==
  /\ now < MaxTime
  /\ now' = now + 1
  /\ UNCHANGED <<db, granted, pc, tx, requests, overlapped>>

\* An ingest adds a finding to finding_latest; nothing synchronises it.
Ingest(f) ==
  /\ f \notin listed
  /\ listed' = listed \cup {f}
  /\ UNCHANGED <<now, decision, policy, gov, granted, pc, tx, requests, overlapped>>

\* POST sla/policies and sla/policies/overrides (409 if there is one already).
CreatePolicy(level, days) ==
  /\ requests < MaxRequests
  /\ policy[level] = 0
  /\ policy' = [policy EXCEPT ![level] = days]
  /\ requests' = requests + 1
  /\ UNCHANGED <<now, listed, decision, gov, granted, pc, tx, overlapped>>

\* PUT sla/policies/<category> (404 if there is none).  No clock is moved.
UpdateCategory(days) ==
  /\ requests < MaxRequests
  /\ policy.category # 0
  /\ policy' = [policy EXCEPT !.category = days]
  /\ requests' = requests + 1
  /\ UNCHANGED <<now, listed, decision, gov, granted, pc, tx, overlapped>>

-----------------------------------------------------------------------------
(* One lifecycle request.                                                    *)

\* Wrong variant: no trigger on finding_group_state_current.
CoveredSingly(s) == {s} \cap Findings

Covered(s) == IF s \in Findings THEN {s} ELSE {f \in Findings : GroupOf[f] = s}

Started(s, d) == [NoTx EXCEPT !.subject = s, !.decision = d, !.ts = now]

\* The transaction starts: its now() is the event time.  A finding must exist
\* (404); a group key is not looked up.
BeginDecision(c, s, d) ==
  /\ pc[c] = "idle"
  /\ requests < MaxRequests
  /\ s \in Findings => s \in listed
  /\ pc' = [pc EXCEPT ![c] = "write"]
  /\ tx' = [tx EXCEPT ![c] = Started(s, d)]
  /\ requests' = requests + 1
  /\ overlapped' = IF \A o \in Clients : pc[o] = "idle" THEN overlapped ELSE "yes"
  /\ UNCHANGED <<now, db, granted>>

Wrote(c) == pc[c] \in {"look", "sync", "commit"}
Rewrote(c, f) == tx[c].rows[f].created # 0

\* Wrong variant: the decision is committed before the clock is moved.
WriteAtOnce(c) ==
  /\ pc[c] = "write"
  /\ decision' = [decision EXCEPT ![tx[c].subject] = tx[c].decision]
  /\ tx' = [tx EXCEPT ![c].todo = Covered(tx[c].subject) \cap listed]
  /\ pc' = [pc EXCEPT ![c] = IF tx'[c].todo = {} THEN "commit" ELSE "look"]
  /\ UNCHANGED <<now, listed, policy, gov, granted, requests, overlapped>>

\* _upsert_state, _upsert_group_state: waits for another writer of the row.  The
\* trigger loops over the findings concerned.
WriteDecision(c) ==
  LET todo == Covered(tx[c].subject) \cap listed
  IN  /\ pc[c] = "write"
      /\ \A o \in Clients \ {c} : Wrote(o) => tx[o].subject # tx[c].subject
      /\ tx' = [tx EXCEPT ![c].todo = todo]
      /\ pc' = [pc EXCEPT ![c] = IF todo = {} THEN "commit" ELSE "look"]
      /\ UNCHANGED <<now, db, granted, requests, overlapped>>

\* The transaction sees its own decision and the committed ones of others.
Sees(c, s) == IF s = tx[c].subject THEN tx[c].decision ELSE decision[s]

LookedUp(t, f, state, days) ==
  [t EXCEPT !.todo = t.todo \ {f}, !.finding = f, !.state = state, !.days = days]

LookUp(c) ==
  /\ pc[c] = "look"
  /\ \E f \in tx[c].todo :
       tx' = [tx EXCEPT ![c] = LookedUp(@, f,
                EffectiveState(Sees(c, GroupOf[f]), Sees(c, f), @.ts), SlaDays(policy))]
  /\ pc' = [pc EXCEPT ![c] = "sync"]
  /\ UNCHANGED <<now, db, granted, requests, overlapped>>

WithRow(t, f, row) ==
  [t EXCEPT !.finding = NoSubject, !.rows = [t.rows EXCEPT ![f] = row]]

\* INSERT or SELECT ... FOR UPDATE of the governance row, which waits for another
\* transaction that has written it, then the UPDATE.
SyncClock(c) ==
  LET f == tx[c].finding
  IN  /\ pc[c] = "sync"
      /\ \A o \in Clients \ {c} : ~Rewrote(o, f)
      /\ tx' = [tx EXCEPT ![c] =
                  WithRow(@, f, Synced(gov[f], @.state, @.days, @.ts))]
      /\ pc' = [pc EXCEPT ![c] = IF tx[c].todo = {} THEN "commit" ELSE "look"]
      /\ UNCHANGED <<now, db, granted, requests, overlapped>>

EndDecision(c) ==
  /\ pc' = [pc EXCEPT ![c] = "idle"]
  /\ tx' = [tx EXCEPT ![c] = NoTx]

CommitDecision(c) ==
  /\ pc[c] = "commit"
  /\ decision' = [decision EXCEPT ![tx[c].subject] = tx[c].decision]
  /\ gov' = [f \in Findings |-> IF Rewrote(c, f) THEN tx[c].rows[f] ELSE gov[f]]
  /\ EndDecision(c)
  /\ UNCHANGED <<now, listed, policy, granted, requests, overlapped>>

\* An error, a statement timeout or a lost connection: db_conn rolls back.
AbortDecision(c) ==
  /\ pc[c] # "idle"
  /\ EndDecision(c)
  /\ UNCHANGED <<now, db, granted, requests, overlapped>>

-----------------------------------------------------------------------------
\* _ensure_finding_governance_row looks at the policies of the scope only.
Ensured(f, state) ==
  LET days == IF policy.check # 0 THEN policy.check ELSE policy.category
  IN  Inserted(gov[f], state, days, now)

\* POST findings/<fingerprint>/sla/extend.  The new deadline is computed and
\* answered, but the handler never commits: db_conn rolls the row back.
ExtendSla(f, days) ==
  LET state == EffectiveState(decision[GroupOf[f]], decision[f], now)
  IN  /\ requests < MaxRequests
      /\ f \in listed
      /\ state \notin {"resolved", "ignored"}
      /\ \A c \in Clients : ~Rewrote(c, f)
      /\ Ensured(f, state).deadline # 0
      /\ granted' = [granted EXCEPT ![f] = @ + days]
      /\ requests' = requests + 1
      /\ UNCHANGED <<now, db, pc, tx, overlapped>>

-----------------------------------------------------------------------------
Next ==
  \/ Tick
  \/ \E f \in Findings : Ingest(f)
  \/ \E level \in {"check", "category"}, days \in PolicyDays : CreatePolicy(level, days)
  \/ \E days \in PolicyDays : UpdateCategory(days)
  \/ \E f \in Findings, days \in PolicyDays : ExtendSla(f, days)
  \/ \E c \in Clients :
       \/ \E s \in Subjects, d \in Requests : BeginDecision(c, s, d)
       \/ WriteDecision(c)
       \/ LookUp(c)
       \/ SyncClock(c)
       \/ CommitDecision(c)
       \/ AbortDecision(c)

Spec == Init /\ [][Next]_vars

-----------------------------------------------------------------------------
(* Properties.                                                              *)

Rows ==
  [created : Nat, opened : Nat, pausedAt : Nat, paused : Nat, extension : Nat,
   deadline : Nat, breachedAt : Nat]

Transactions ==
  [subject : Subjects \cup {NoSubject}, decision : [state : States, until : Nat],
   ts : Nat, todo : SUBSET Findings, finding : Findings \cup {NoSubject},
   state : Effective, days : Nat, rows : [Findings -> Rows]]

\* Every table and every transaction is well typed; in particular no interval is
\* negative, however the event times of requests are ordered.
TypeOK ==
  /\ now \in Nat \ {0}
  /\ listed \subseteq Findings
  /\ decision \in [Subjects -> [state : States, until : Nat]]
  /\ policy \in [check : Nat, category : Nat]
  /\ gov \in [Findings -> Rows]
  /\ granted \in [Findings -> Nat]
  /\ pc \in [Clients -> {"idle", "write", "look", "sync", "commit"}]
  /\ tx \in [Clients -> Transactions]
  /\ requests \in Nat
  /\ overlapped \in {"no", "yes"}

\* Whatever requests overlap, a clock is started once and credited time is never
\* taken back: first_opened_at is never changed, sla_total_paused_seconds and
\* sla_extension_seconds never shrink, and a governance row is never lost.
ClockOnlyExtends ==
  [][\A f \in Findings : gov[f].created # 0 =>
        /\ gov'[f].created = gov[f].created
        /\ gov[f].opened # 0 => gov'[f].opened = gov[f].opened
        /\ gov'[f].paused >= gov[f].paused
        /\ gov'[f].extension >= gov[f].extension]_vars

\* A breach on record keeps its time as long as a deadline applies: neither a
\* snooze, a longer policy nor a request that overlaps hides or moves it.
RecordedBreachStays ==
  [][\A f \in Findings :
        gov[f].breachedAt # 0 /\ gov'[f].deadline # 0
          => gov'[f].breachedAt = gov[f].breachedAt]_vars

\* A finding somebody has decided about has a governance row, so that its clock
\* is kept, also when the requests that made it met or failed halfway.
OwnDecisionIsTracked ==
  \A f \in Findings : decision[f].state # "none" => gov[f].created # 0

\* As long as requests have been served one at a time, the time credited to a
\* clock never exceeds the time that has passed since its row was made: no day is
\* counted in two pauses.
NoPauseCountedTwice ==
  overlapped = "no" =>
    \A f \in Findings :
      LET running == IF gov[f].pausedAt = 0 THEN 0 ELSE now - gov[f].pausedAt
      IN  gov[f].created # 0 => gov[f].paused + running <= now - gov[f].created

\* The clock of a finding with a governance row stands still as its decisions
\* say: a pause runs while a snooze is in force, and none runs after both
\* decisions have left snoozed.
PauseFollowsDecisions ==
  \A f \in Findings :
    LET own == decision[f]
        group == decision[GroupOf[f]]
    IN  gov[f].created # 0 =>
          /\ EffectiveState(group, own, now) = "snoozed" => gov[f].pausedAt # 0
          /\ gov[f].pausedAt # 0 => "snoozed" \in {own.state, group.state}

\* PauseFollowsDecisions holds as long as requests have been served one at a
\* time: expiry, group and single decisions, failures and ingests included.
SerialPauseFollows == overlapped = "no" => PauseFollowsDecisions

\* An extension the API has confirmed is in the governance row.
ExtensionKept ==
  \A f \in Findings : granted[f] # 0 => gov[f].extension = granted[f]
=============================================================================
