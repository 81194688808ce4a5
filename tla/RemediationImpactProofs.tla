---------------------- MODULE RemediationImpactProofs ----------------------
(* What the impact table guarantees for any number of actions, runs,          *)
(* recording workers and refreshes that overlap.                              *)
EXTENDS RemediationImpact, FiniteSetTheorems, TLAPS

-----------------------------------------------------------------------------
(* The inductive invariant.                                                  *)

Phases == {"idle", "look", "derive", "upsert", "commit"}

USE DEF Phases

Known == ready \cup {NoRun}

\* Row i describes the outcome of action a as transaction t sees it.
Tells(t, a, i) ==
  /\ i.status \in Final
  /\ i.status = IF a = t.own THEN t.status ELSE action[a].status
  /\ i.at = IF a = t.own THEN t.ts ELSE action[a].at
  /\ i.run \in Known
  /\ Evidenced(a, i)

Touches(t, a) == a \in t.todo \/ a = t.current \/ t.rows[a] # NoImpact

\* A transaction works on final outcomes and on the one it records, for which it
\* is going to have a row; what it has derived and written tells these outcomes.
Sound(t) ==
  /\ t.latest \in Known
  /\ t.own # NoAction =>
       /\ t.own \notin claimed
       /\ action[t.own].status = "running"
       /\ t.status \in Final
       /\ Touches(t, t.own)
  /\ \A a \in Actions : Touches(t, a) => a = t.own \/ action[a].status \in Final
  /\ \A a \in Actions : t.rows[a] # NoImpact => Tells(t, a, t.rows[a])

\* Where the transaction stands.
Stands(p, t) ==
  /\ p = "idle" => t = NoTx
  /\ p \in {"look", "commit"} => t.current = NoAction
  /\ p \in {"derive", "upsert"} => t.current \in Actions
  /\ p = "upsert" => Tells(t, t.current, t.row)
  /\ p = "commit" => t.todo = {}

Alone == \A c, d \in Clients : c # d /\ tx[c].own # NoAction => tx[d].own # tx[c].own

Waiting == \A a \in claimed : action[a].status = "running"

Committed ==
  \A a \in Actions : impact[a].run \in Known

ImpactInv ==
  /\ TypeOK
  /\ OutcomeHasImpact /\ ClaimsHaveEvidence /\ Committed
  /\ Waiting /\ Alone
  /\ \A c \in Clients : Sound(tx[c]) /\ Stands(pc[c], tx[c])

-----------------------------------------------------------------------------
(* The derivation of a row.                                                  *)

Scans == [Runs -> [ts : Nat, savings : [Fingerprints -> Nat \cup {Absent}]]]

LEMMA NoImpactType == NoImpact \in Impacts /\ NoImpact.status \notin Final
  BY DEF NoImpact, Impacts, Final, Verified

LEMMA NoTxType == NoTx \in Transactions
  <1>1. [a \in Actions |-> NoImpact] \in [Actions -> Impacts]
    BY NoImpactType
  <1> HIDE DEF NoImpact
  <1> QED BY <1>1, NoImpactType DEF NoTx, Transactions

LEMMA NewestIn ==
  ASSUME NEW S
  PROVE  Newest(S) = NoRun \/ Newest(S) \in S \cap Runs
  <1>1. CASE \E r \in Runs : IsNewest(r, S)
    <2> DEFINE n == CHOOSE r \in Runs : IsNewest(r, S)
    <2>1. n \in Runs /\ IsNewest(n, S)
      BY <1>1
    <2> QED BY <1>1, <2>1 DEF Newest, IsNewest
  <1>2. CASE ~ \E r \in Runs : IsNewest(r, S)
    BY <1>2 DEF Newest
  <1> QED BY <1>1, <1>2

LEMMA LatestKnown ==
  LatestReady \in Known /\ (ready \subseteq Runs => LatestReady \in Runs \cup {NoRun})
  BY NewestIn DEF LatestReady, Known

LEMMA BaselineType ==
  ASSUME NEW f \in Fingerprints, NEW at, scan \in Scans, ready \subseteq Runs
  PROVE  Baseline(f, at) \in Nat
  <1> DEFINE listing == {r \in ready : scan[r].savings[f] # Absent}
             before == {r \in listing : scan[r].ts <= at}
             source == Newest(IF before # {} THEN before ELSE listing)
  <1>1. source = NoRun \/ source \in listing
    BY NewestIn
  <1>2. source \in listing => scan[source].savings[f] \in Nat
    BY DEF Scans
  <1> QED BY <1>1, <1>2 DEF Baseline

LEMMA MetricsFacts ==
  ASSUME NEW status \in Final, NEW at \in Nat, NEW run \in Runs \cup {NoRun},
         NEW baseline \in Nat, NEW current \in Nat \cup {Absent}
  PROVE  LET i == Metrics(status, at, run, baseline, current)
             left == IF current = Absent THEN 0 ELSE current
         IN  /\ i \in Impacts
             /\ i.status = status /\ i.at = at /\ i.run = run
             /\ i.realized > 0 \/ i.verification \in Verified =>
                  /\ status = "completed"
                  /\ Evidence(run, at)
                  /\ i.realized <= i.baseline
                  /\ i.realized > 0 => i.realized + left = i.baseline
  <1> DEFINE row(verification, realized) ==
               [status |-> status, at |-> at, verification |-> verification, run |-> run,
                baseline |-> baseline, realized |-> realized]
  <1>1. \A v \in Verified \cup {"pending_post_run", "execution_failed"}, n \in Nat :
          row(v, n) \in Impacts
    BY DEF Impacts
  <1>2. current \in Nat => Saved(baseline, current) \in 0 .. baseline
    BY DEF Saved, Absent
  <1>3. CASE status = "failed"
    <2>1. Metrics(status, at, run, baseline, current) = row("execution_failed", 0)
      BY <1>3 DEF Metrics, NoImpact
    <2> QED BY <2>1, <1>1 DEF Verified
  <1>4. CASE status # "failed" /\ ~Evidence(run, at)
    <2>1. Metrics(status, at, run, baseline, current) = row("pending_post_run", 0)
      BY <1>4 DEF Metrics, NoImpact
    <2> QED BY <2>1, <1>1 DEF Verified
  <1>5. CASE status # "failed" /\ Evidence(run, at) /\ current = Absent
    <2>1. Metrics(status, at, run, baseline, current) = row("verified_resolved", baseline)
      BY <1>5 DEF Metrics, NoImpact
    <2> QED BY <2>1, <1>1, <1>5 DEF Verified, Final
  <1>6. CASE status # "failed" /\ Evidence(run, at) /\ current # Absent
    <2>1. Metrics(status, at, run, baseline, current) =
            row("verified_persistent", Saved(baseline, current))
      BY <1>6 DEF Metrics, NoImpact
    <2>2. Saved(baseline, current) > 0 => Saved(baseline, current) + current = baseline
      BY <1>6 DEF Saved
    <2> QED BY <2>1, <2>2, <1>1, <1>2, <1>6 DEF Verified, Final
  <1> QED BY <1>3, <1>4, <1>5, <1>6

\* A derived row tells the outcome it was derived from, with evidence.
LEMMA DerivedFacts ==
  ASSUME NEW a \in Actions, NEW status \in Final, NEW at \in Nat,
         NEW run \in Runs \cup {NoRun}, scan \in Scans, ready \subseteq Runs
  PROVE  LET i == Derived(a, status, at, run)
         IN  /\ i \in Impacts
             /\ i.status = status /\ i.at = at /\ i.run = run
             /\ Evidenced(a, i)
  <1> DEFINE f == FindingOf[a]
             current == IF run = NoRun THEN Absent ELSE scan[run].savings[f]
             i == Metrics(status, at, run, Baseline(f, at), current)
  <1>1. f \in Fingerprints
    BY ImpactAssumption
  <1>2. Baseline(f, at) \in Nat
    BY <1>1, BaselineType
  <1>3. current \in Nat \cup {Absent}
    BY <1>1 DEF Scans
  <1>4. /\ i \in Impacts
        /\ i.status = status /\ i.at = at /\ i.run = run
        /\ i.realized > 0 \/ i.verification \in Verified =>
             /\ status = "completed"
             /\ Evidence(run, at)
             /\ i.realized <= i.baseline
             /\ i.realized > 0 => i.realized + (IF current = Absent THEN 0 ELSE current) = i.baseline
    <2>1. PICK b \in Nat : b = Baseline(f, at)
      BY <1>2
    <2>2. PICK k \in Nat \cup {Absent} : k = current
      BY <1>3
    <2> DEFINE m == Metrics(status, at, run, b, k)
    <2>3. /\ m \in Impacts
          /\ m.status = status /\ m.at = at /\ m.run = run
          /\ m.realized > 0 \/ m.verification \in Verified =>
               /\ status = "completed"
               /\ Evidence(run, at)
               /\ m.realized <= m.baseline
               /\ m.realized > 0 => m.realized + (IF k = Absent THEN 0 ELSE k) = m.baseline
      BY MetricsFacts
    <2>4. m = i
      BY <2>1, <2>2
    <2> HIDE DEF i, m, current
    <2> QED BY <2>2, <2>3, <2>4
  <1>5. Derived(a, status, at, run) = i
    BY DEF Derived
  <1>6. Evidenced(a, i)
    <2> SUFFICES ASSUME i.realized > 0 \/ i.verification \in Verified
                 PROVE  Evidenced(a, i)
      BY DEF Evidenced
    <2>1. run # NoRun /\ scan[run].ts > at
      BY <1>4 DEF Evidence
    <2>2. current = scan[i.run].savings[FindingOf[a]]
      BY <1>4, <2>1
    <2> HIDE DEF i, current
    <2> QED BY <1>4, <2>1, <2>2 DEF Evidenced
  <1> HIDE DEF i
  <1> QED BY <1>4, <1>5, <1>6

-----------------------------------------------------------------------------
(* What the statements make of their transaction.                            *)

LEMMA SoundNoTx == Sound(NoTx) /\ Stands("idle", NoTx)
  <1>1. \A a \in Actions : ~Touches(NoTx, a)
    BY ImpactAssumption DEF NoTx, Touches
  <1>2. NoTx.latest \in Known /\ NoTx.own = NoAction /\ \A a \in Actions : NoTx.rows[a] = NoImpact
    BY DEF NoTx, Known
  <1> QED BY <1>1, <1>2 DEF Sound, Stands

LEMMA LookedSound ==
  ASSUME ready \subseteq Runs, NEW t \in Transactions, NEW a \in t.todo, Sound(t),
         t.current = NoAction
  PROVE  LET u == Looked(t, a)
         IN  u \in Transactions /\ u.own = t.own /\ Sound(u) /\ Stands("derive", u)
  <1> DEFINE u == Looked(t, a)
  <1>1. a \in Actions
    BY DEF Transactions
  <1>2. /\ u.own = t.own /\ u.status = t.status /\ u.ts = t.ts /\ u.rows = t.rows
        /\ u.latest = LatestReady /\ u.current = a /\ u.todo = t.todo \ {a}
        /\ u \in Transactions
    BY <1>1, LatestKnown DEF Looked, Transactions
  <1> HIDE DEF u
  <1>3. \A b \in Actions : Touches(u, b) <=> Touches(t, b)
    BY <1>2, ImpactAssumption DEF Touches
  <1>4. t.own # NoAction => t.own \in Actions
    BY DEF Transactions
  <1>5. \A b \in Actions : u.rows[b] # NoImpact => Tells(u, b, u.rows[b])
    BY <1>2 DEF Sound, Tells
  <1>6. Sound(u)
    BY <1>2, <1>3, <1>4, <1>5, LatestKnown DEF Sound
  <1>7. Stands("derive", u)
    BY <1>1, <1>2 DEF Stands
  <1> QED BY <1>2, <1>6, <1>7 DEF u

LEMMA WithRowSound ==
  ASSUME TypeOK, NEW t \in Transactions, Sound(t), t.current \in Actions
  PROVE  LET u == WithRow(t)
         IN  u \in Transactions /\ u.own = t.own /\ Sound(u) /\ Stands("upsert", u)
  <1> DEFINE u == WithRow(t)
             i == Derived(t.current, Seen(t).status, Seen(t).at, t.latest)
  <1>1. /\ Seen(t).status = IF t.current = t.own THEN t.status ELSE action[t.current].status
        /\ Seen(t).at = IF t.current = t.own THEN t.ts ELSE action[t.current].at
    BY DEF Seen
  <1>2. t.current = t.own \/ action[t.current].status \in Final
    BY DEF Sound, Touches
  <1>3. Seen(t).status \in Final
    BY <1>1, <1>2, ImpactAssumption DEF Sound
  <1>4. Seen(t).at \in Nat
    BY <1>1 DEF TypeOK, Transactions
  <1>5. t.latest \in Known /\ t.latest \in Runs \cup {NoRun}
    BY DEF Sound, Transactions
  <1>6. /\ i \in Impacts
        /\ i.status = Seen(t).status /\ i.at = Seen(t).at /\ i.run = t.latest
        /\ Evidenced(t.current, i)
    BY <1>3, <1>4, <1>5, DerivedFacts DEF TypeOK, Scans
  <1>7. /\ u.own = t.own /\ u.status = t.status /\ u.ts = t.ts /\ u.rows = t.rows
        /\ u.latest = t.latest /\ u.current = t.current /\ u.todo = t.todo
        /\ u.row = i /\ u \in Transactions
    BY <1>6 DEF WithRow, Transactions
  <1> HIDE DEF u, i
  <1>8. Tells(u, u.current, u.row)
    BY <1>1, <1>3, <1>5, <1>6, <1>7 DEF Tells
  <1>9. \A b \in Actions : Touches(u, b) <=> Touches(t, b)
    BY <1>7 DEF Touches
  <1>10. t.own # NoAction => t.own \in Actions
    BY DEF Transactions
  <1>11. \A b \in Actions : u.rows[b] # NoImpact => Tells(u, b, u.rows[b])
    BY <1>7 DEF Sound, Tells
  <1>12. Sound(u)
    BY <1>7, <1>9, <1>10, <1>11 DEF Sound
  <1>13. Stands("upsert", u)
    BY <1>7, <1>8 DEF Stands
  <1> QED BY <1>7, <1>12, <1>13 DEF u

LEMMA UpsertedSound ==
  ASSUME NEW t \in Transactions, Sound(t), Stands("upsert", t)
  PROVE  LET u == Upserted(t)
         IN  /\ u \in Transactions /\ u.own = t.own /\ Sound(u)
             /\ Stands("look", u)
             /\ t.todo = {} => Stands("commit", u)
  <1> DEFINE u == Upserted(t)
  <1>1. t.current \in Actions /\ Tells(t, t.current, t.row)
    BY DEF Stands
  <1>2. t.row # NoImpact
    BY <1>1, NoImpactType DEF Tells
  <1>3. t.rows \in [Actions -> Impacts] /\ t.row \in Impacts
    BY DEF Transactions
  <1>4. [t.rows EXCEPT ![t.current] = t.row] \in [Actions -> Impacts]
    BY <1>3
  <1>5. /\ u.own = t.own /\ u.status = t.status /\ u.ts = t.ts
        /\ u.rows = [t.rows EXCEPT ![t.current] = t.row]
        /\ u.latest = NoRun /\ u.current = NoAction /\ u.todo = t.todo
        /\ u \in Transactions
    BY <1>4, NoImpactType DEF Upserted, Transactions
  <1> HIDE DEF u
  <1>6. \A b \in Actions : u.rows[b] = IF b = t.current THEN t.row ELSE t.rows[b]
    BY <1>3, <1>5
  <1>7. \A b \in Actions : Touches(u, b) <=> Touches(t, b)
    BY <1>1, <1>2, <1>5, <1>6, ImpactAssumption DEF Touches
  <1>8. t.own # NoAction => t.own \in Actions
    BY DEF Transactions
  <1>9. \A b \in Actions : u.rows[b] # NoImpact => Tells(u, b, u.rows[b])
    BY <1>1, <1>5, <1>6 DEF Sound, Tells
  <1>10. Sound(u)
    BY <1>5, <1>7, <1>8, <1>9 DEF Sound, Known
  <1>11. Stands("look", u) /\ (t.todo = {} => Stands("commit", u))
    BY <1>5 DEF Stands
  <1> QED BY <1>5, <1>10, <1>11 DEF u

-----------------------------------------------------------------------------
(* What the others do leaves a transaction sound.                            *)

LEMMA EvidenceKept ==
  ASSUME NEW a, NEW i, i.run \in Known,
         \A r \in ready : scan'[r] = scan[r],
         Evidenced(a, i)
  PROVE  Evidenced(a, i)'
  <1>1. CASE i.run = NoRun
    BY <1>1 DEF Evidenced
  <1>2. CASE i.run \in ready
    BY <1>2 DEF Evidenced
  <1> QED BY <1>1, <1>2 DEF Known

LEMMA SoundKept ==
  ASSUME NEW t \in Transactions, NEW p, Sound(t), Stands(p, t),
         ready \subseteq ready', \A r \in ready : scan'[r] = scan[r],
         claimed' \subseteq claimed,
         \A a \in Actions : a = t.own \/ action[a].status \in Final => action'[a] = action[a]
  PROVE  Sound(t)' /\ Stands(p, t)'
  <1>1. \A i : i.run \in Known => i.run \in Known'
    BY DEF Known
  <1>2. \A a \in Actions : Touches(t, a)' <=> Touches(t, a)
    BY DEF Touches
  <1>3. \A a \in Actions : \A i : Touches(t, a) /\ Tells(t, a, i) => Tells(t, a, i)'
    <2> SUFFICES ASSUME NEW a \in Actions, NEW i, Touches(t, a), Tells(t, a, i)
                 PROVE  Tells(t, a, i)'
      OBVIOUS
    <2>1. action'[a] = action[a]
      BY DEF Sound
    <2>2. Evidenced(a, i)'
      BY EvidenceKept DEF Tells
    <2> QED BY <2>1, <2>2, <1>1 DEF Tells
  <1>4. t.own # NoAction => t.own \in Actions
    BY DEF Transactions
  <1>5. Sound(t)'
    <2>1. t.latest \in Known'
      BY DEF Sound, Known
    <2>2. \A a \in Actions : t.rows[a] # NoImpact => Tells(t, a, t.rows[a])'
      BY <1>3 DEF Sound, Touches
    <2>3. \A a \in Actions : Touches(t, a)' => a = t.own \/ action'[a].status \in Final
      BY <1>2 DEF Sound
    <2>4. t.own # NoAction => /\ t.own \notin claimed' /\ action'[t.own].status = "running"
                              /\ t.status \in Final /\ Touches(t, t.own)'
      BY <1>2, <1>4 DEF Sound
    <2> QED BY <2>1, <2>2, <2>3, <2>4 DEF Sound
  <1>6. Stands(p, t)'
    BY <1>3 DEF Stands, Touches
  <1> QED BY <1>5, <1>6

-----------------------------------------------------------------------------
(* The invariant is inductive.                                               *)

LEMMA InitInv == Init => ImpactInv
  <1> SUFFICES ASSUME Init PROVE ImpactInv
    OBVIOUS
  <1>1. TypeOK
    <2>1. NoScan \in [ts : Nat, savings : [Fingerprints -> Nat \cup {Absent}]]
      BY DEF NoScan
    <2> QED BY <2>1, NoImpactType, NoTxType DEF Init, TypeOK
  <1>2. \A a \in Actions : impact[a] = NoImpact /\ action[a].status = "running"
    BY DEF Init
  <1>3. \A a \in Actions : Evidenced(a, NoImpact)
    BY DEF Evidenced, NoImpact, Verified
  <1>4. OutcomeHasImpact /\ ClaimsHaveEvidence /\ Committed
    BY <1>2, <1>3 DEF OutcomeHasImpact, ClaimsHaveEvidence, Committed, Known, NoImpact, Final
  <1>5. Waiting /\ Alone
    BY <1>2 DEF Init, Waiting, Alone, NoTx
  <1>6. \A c \in Clients : Sound(tx[c]) /\ Stands(pc[c], tx[c])
    BY SoundNoTx DEF Init
  <1> QED BY <1>1, <1>4, <1>5, <1>6 DEF ImpactInv

\* Time and ingests change no row and no transaction.
LEMMA OutsideStep ==
  ASSUME ImpactInv, TypeOK', UNCHANGED <<action, impact, claimed, pc, tx>>,
         ready \subseteq ready', \A r \in ready : scan'[r] = scan[r]
  PROVE  ImpactInv'
  <1>1. \A a \in Actions : Evidenced(a, impact[a])'
    <2> SUFFICES ASSUME NEW a \in Actions PROVE Evidenced(a, impact[a])'
      OBVIOUS
    <2>1. PICK i : i = impact[a]
      OBVIOUS
    <2>2. Evidenced(a, i)'
      BY <2>1, EvidenceKept DEF ImpactInv, ClaimsHaveEvidence, Committed
    <2>3. i = impact'[a]
      BY <2>1
    <2> QED BY <2>2, <2>3 DEF Evidenced
  <1>2. OutcomeHasImpact' /\ ClaimsHaveEvidence' /\ Committed'
    BY <1>1 DEF ImpactInv, OutcomeHasImpact, ClaimsHaveEvidence, Committed, Known
  <1>3. Waiting' /\ Alone'
    BY DEF ImpactInv, Waiting, Alone
  <1>4. \A c \in Clients : Sound(tx[c])' /\ Stands(pc[c], tx[c])'
    <2> SUFFICES ASSUME NEW c \in Clients PROVE Sound(tx[c])' /\ Stands(pc[c], tx[c])'
      OBVIOUS
    <2>1. PICK t \in Transactions, p \in Phases : t = tx[c] /\ p = pc[c]
      BY DEF ImpactInv, TypeOK
    <2>2. Sound(t)' /\ Stands(p, t)'
      BY <2>1, SoundKept DEF ImpactInv
    <2>3. t = tx'[c] /\ p = pc'[c]
      BY <2>1
    <2> QED BY <2>2, <2>3 DEF Sound, Stands, Tells, Touches
  <1> QED BY <1>2, <1>3, <1>4 DEF ImpactInv

\* A step inside one transaction, which stays sound, changes no table.
LEMMA QuietStep ==
  ASSUME ImpactInv, NEW c \in Clients, NEW t \in Transactions,
         NEW p \in Phases,
         UNCHANGED <<now, tables>>, aborts' \in Nat,
         claimed' \subseteq claimed,
         tx' = [tx EXCEPT ![c] = t], pc' = [pc EXCEPT ![c] = p],
         t.own \in {tx[c].own, NoAction} \cup claimed,
         Sound(t)', Stands(p, t)'
  PROVE  ImpactInv'
  <1> USE DEF tables
  <1>1. TypeOK'
    BY DEF ImpactInv, TypeOK
  <1>2. OutcomeHasImpact' /\ ClaimsHaveEvidence' /\ Committed'
    BY DEF ImpactInv, OutcomeHasImpact, ClaimsHaveEvidence, Committed, Known, Evidenced
  <1>3. \A d \in Clients : /\ tx'[d] = IF d = c THEN t ELSE tx[d]
                           /\ pc'[d] = IF d = c THEN p ELSE pc[d]
    BY DEF ImpactInv, TypeOK
  <1>4. Waiting'
    BY DEF ImpactInv, Waiting
  <1>5. \A d \in Clients : tx[d].own # NoAction => tx[d].own \notin claimed
    BY DEF ImpactInv, Sound
  <1>6. NoAction \notin claimed
    BY ImpactAssumption DEF ImpactInv, TypeOK
  <1>7. Alone'
    BY <1>3, <1>5, <1>6 DEF ImpactInv, Alone
  <1>8. \A d \in Clients : Sound(tx[d])' /\ Stands(pc[d], tx[d])'
    <2> SUFFICES ASSUME NEW d \in Clients PROVE Sound(tx[d])' /\ Stands(pc[d], tx[d])'
      OBVIOUS
    <2>1. CASE d = c
      <3>1. t = tx'[d] /\ p = pc'[d]
        BY <1>3, <2>1
      <3> QED BY <3>1 DEF Sound, Stands, Tells, Touches
    <2>2. CASE d # c
      <3>1. PICK u \in Transactions, q \in Phases : u = tx[d] /\ q = pc[d]
        BY DEF ImpactInv, TypeOK
      <3>2. Sound(u)' /\ Stands(q, u)'
        BY <3>1, SoundKept DEF ImpactInv
      <3>3. u = tx'[d] /\ q = pc'[d]
        BY <1>3, <2>2, <3>1
      <3> QED BY <3>2, <3>3 DEF Sound, Stands, Tells, Touches
    <2> QED BY <2>1, <2>2
  <1> QED BY <1>1, <1>2, <1>4, <1>7, <1>8 DEF ImpactInv

\* As QuietStep, when the step leaves claimed alone.
LEMMA PlainStep ==
  ASSUME ImpactInv, NEW c \in Clients, NEW t \in Transactions,
         NEW p \in Phases,
         UNCHANGED <<now, tables, claimed>>, aborts' \in Nat,
         tx' = [tx EXCEPT ![c] = t], pc' = [pc EXCEPT ![c] = p],
         t.own \in {tx[c].own, NoAction},
         Sound(t), Stands(p, t)
  PROVE  ImpactInv'
  <1>1. Sound(t)' /\ Stands(p, t)'
    BY SoundKept DEF tables
  <1> QED BY <1>1, QuietStep

LEMMA BeginRecordStep ==
  ASSUME ImpactInv, NEW c \in Clients, NEW a \in Actions, NEW status \in Outcomes[a],
         BeginRecord(c, a, status)
  PROVE  ImpactInv'
  <1>1. PICK t : t = [NoTx EXCEPT !.own = a, !.status = status, !.ts = now, !.todo = {a}]
    OBVIOUS
  <1>2. status \in Final
    BY ImpactAssumption
  <1>3. /\ t.own = a /\ t.status = status /\ t.ts = now /\ t.todo = {a}
        /\ t.current = NoAction /\ t.latest = NoRun
        /\ \A b \in Actions : t.rows[b] = NoImpact
        /\ t \in Transactions
    <2> HIDE DEF NoImpact
    <2>1. now \in Nat
      BY DEF ImpactInv, TypeOK
    <2> QED BY <1>1, <1>2, <2>1, NoTxType DEF NoTx, Transactions
  <1>4. \A b \in Actions : Touches(t, b) <=> b = a
    BY <1>3, ImpactAssumption DEF Touches
  <1>5. action[a].status = "running"
    BY DEF ImpactInv, Waiting, BeginRecord
  <1>6. Sound(t)'
    BY <1>2, <1>3, <1>4, <1>5 DEF BeginRecord, tables, Sound, Known, Touches
  <1>7. Stands("look", t)'
    BY <1>3 DEF Stands
  <1>8. /\ tx' = [tx EXCEPT ![c] = t] /\ pc' = [pc EXCEPT ![c] = "look"]
        /\ claimed' \subseteq claimed /\ aborts' \in Nat
        /\ UNCHANGED <<now, tables>> /\ t.own \in claimed
    BY <1>1, <1>3 DEF BeginRecord, ImpactInv, TypeOK
  <1> QED BY <1>3, <1>6, <1>7, <1>8, QuietStep

LEMMA BeginRefreshStep ==
  ASSUME ImpactInv, NEW c \in Clients, BeginRefresh(c)
  PROVE  ImpactInv'
  <1>1. PICK t : t = [NoTx EXCEPT !.todo = Recent]
    OBVIOUS
  <1>2. \A a \in Recent : a \in Actions /\ action[a].status \in Final
    BY DEF Recent
  <1>3. /\ t.own = NoAction /\ t.todo = Recent
        /\ t.current = NoAction /\ t.latest = NoRun
        /\ \A b \in Actions : t.rows[b] = NoImpact
        /\ t \in Transactions
    <2> HIDE DEF NoImpact
    <2> QED BY <1>1, <1>2, NoTxType DEF NoTx, Transactions
  <1>4. \A b \in Actions : Touches(t, b) <=> b \in Recent
    BY <1>3, ImpactAssumption DEF Touches
  <1>5. Sound(t) /\ Stands("look", t)
    BY <1>2, <1>3, <1>4 DEF Sound, Stands, Known
  <1>6. /\ tx' = [tx EXCEPT ![c] = t] /\ pc' = [pc EXCEPT ![c] = "look"]
        /\ aborts' \in Nat /\ UNCHANGED <<now, tables, claimed>>
    BY <1>1 DEF BeginRefresh, ImpactInv, TypeOK
  <1> QED BY <1>3, <1>5, <1>6, PlainStep

LEMMA LookStep ==
  ASSUME ImpactInv, NEW c \in Clients, Look(c)
  PROVE  ImpactInv'
  <1>1. PICK a \in tx[c].todo : tx' = [tx EXCEPT ![c] = Looked(tx[c], a)]
    BY DEF Look, Ordered
  <1>2. PICK s \in Transactions : s = tx[c]
    BY DEF ImpactInv, TypeOK
  <1>3. PICK t : t = Looked(s, a)
    OBVIOUS
  <1>4. s.current = NoAction /\ Sound(s) /\ ready \subseteq Runs
    BY <1>2 DEF ImpactInv, Stands, Look, TypeOK
  <1>5. t \in Transactions /\ t.own = s.own /\ Sound(t) /\ Stands("derive", t)
    BY <1>1, <1>2, <1>3, <1>4, LookedSound
  <1>6. /\ tx' = [tx EXCEPT ![c] = t] /\ pc' = [pc EXCEPT ![c] = "derive"]
        /\ aborts' \in Nat /\ UNCHANGED <<now, tables, claimed>>
    BY <1>1, <1>2, <1>3 DEF Look, ImpactInv, TypeOK
  <1> QED BY <1>2, <1>5, <1>6, PlainStep

LEMMA DeriveStep ==
  ASSUME ImpactInv, NEW c \in Clients, Derive(c)
  PROVE  ImpactInv'
  <1>1. PICK s \in Transactions : s = tx[c]
    BY DEF ImpactInv, TypeOK
  <1>2. PICK t : t = WithRow(s)
    OBVIOUS
  <1>3. s.current \in Actions /\ Sound(s) /\ TypeOK
    BY <1>1 DEF ImpactInv, Stands, Derive
  <1>4. t \in Transactions /\ t.own = s.own /\ Sound(t) /\ Stands("upsert", t)
    BY <1>2, <1>3, WithRowSound
  <1>5. /\ tx' = [tx EXCEPT ![c] = t] /\ pc' = [pc EXCEPT ![c] = "upsert"]
        /\ aborts' \in Nat /\ UNCHANGED <<now, tables, claimed>>
    BY <1>1, <1>2 DEF Derive, ImpactInv, TypeOK
  <1> QED BY <1>1, <1>4, <1>5, PlainStep

LEMMA UpsertStep ==
  ASSUME ImpactInv, NEW c \in Clients, Upsert(c)
  PROVE  ImpactInv'
  <1>1. PICK s \in Transactions : s = tx[c]
    BY DEF ImpactInv, TypeOK
  <1>2. PICK t : t = Upserted(s)
    OBVIOUS
  <1>3. PICK p \in {"look", "commit"} : p = IF s.todo = {} THEN "commit" ELSE "look"
    OBVIOUS
  <1>4. Sound(s) /\ Stands("upsert", s)
    BY <1>1 DEF ImpactInv, Upsert
  <1>5. t \in Transactions /\ t.own = s.own /\ Sound(t) /\ Stands(p, t)
    BY <1>2, <1>3, <1>4, UpsertedSound
  <1>6. /\ tx' = [tx EXCEPT ![c] = t] /\ pc' = [pc EXCEPT ![c] = p]
        /\ aborts' \in Nat /\ UNCHANGED <<now, tables, claimed>>
    BY <1>1, <1>2, <1>3 DEF Upsert, ImpactInv, TypeOK
  <1> QED BY <1>1, <1>3, <1>5, <1>6, PlainStep

LEMMA AbortStep ==
  ASSUME ImpactInv, NEW c \in Clients, Abort(c)
  PROVE  ImpactInv'
  <1>1. PICK t \in Transactions : t = NoTx
    BY NoTxType
  <1>2. t.own = NoAction
    BY <1>1 DEF NoTx
  <1>3. Sound(t) /\ Stands("idle", t)
    BY <1>1, SoundNoTx
  <1>4. /\ tx' = [tx EXCEPT ![c] = t] /\ pc' = [pc EXCEPT ![c] = "idle"]
        /\ aborts' \in Nat /\ UNCHANGED <<now, tables, claimed>>
    BY <1>1 DEF Abort, EndTx, ImpactInv, TypeOK
  <1> QED BY <1>2, <1>3, <1>4, PlainStep

\* The commit settles the recorded action and every row of the transaction; no other
\* transaction works on that action.
LEMMA CommitStep ==
  ASSUME ImpactInv, NEW c \in Clients, Commit(c)
  PROVE  ImpactInv'
  <1>1. PICK s \in Transactions : s = tx[c]
    BY DEF ImpactInv, TypeOK
  <1>2. Sound(s) /\ s.todo = {} /\ s.current = NoAction
    BY <1>1 DEF ImpactInv, Stands, Commit
  <1>3. s.own # NoAction => /\ s.own \in Actions /\ s.rows[s.own] # NoImpact
                            /\ action[s.own].status = "running" /\ s.status \in Final
                            /\ s.own \notin claimed
    BY <1>2 DEF Sound, Touches, Transactions
  <1>4. \A a \in Actions :
          /\ action'[a] = IF a = s.own THEN [status |-> s.status, at |-> s.ts] ELSE action[a]
          /\ impact'[a] = IF s.rows[a] # NoImpact THEN s.rows[a] ELSE impact[a]
    BY <1>1 DEF Commit, Recorded, Holds
  <1>5. \A d \in Clients : /\ tx'[d] = IF d = c THEN NoTx ELSE tx[d]
                           /\ pc'[d] = IF d = c THEN "idle" ELSE pc[d]
    BY DEF Commit, EndTx, ImpactInv, TypeOK
  <1>6. TypeOK'
    <2>1. /\ action' \in [Actions -> [status : {"running"} \cup Final, at : Nat]]
          /\ impact' \in [Actions -> Impacts]
      <3>1. \A a \in Actions : action'[a] \in [status : {"running"} \cup Final, at : Nat]
        <4>1. s.ts \in Nat
          BY DEF Transactions
        <4>2. s.own \in Actions => s.status \in Final
          BY <1>3, ImpactAssumption
        <4>3. \A a \in Actions : action[a] \in [status : {"running"} \cup Final, at : Nat]
          BY DEF ImpactInv, TypeOK
        <4> QED BY <1>4, <4>1, <4>2, <4>3
      <3>2. \A a \in Actions : impact'[a] \in Impacts
        BY <1>4 DEF ImpactInv, TypeOK, Transactions
      <3> QED BY <3>1, <3>2 DEF Commit
    <2>2. tx' \in [Clients -> Transactions]
      BY NoTxType DEF Commit, EndTx, ImpactInv, TypeOK
    <2>3. pc' \in [Clients -> Phases]
      BY DEF Commit, EndTx, ImpactInv, TypeOK
    <2> QED BY <2>1, <2>2, <2>3 DEF Commit, ImpactInv, TypeOK
  <1>7. \A a \in Actions : s.rows[a] # NoImpact =>
          /\ a = s.own \/ action[a].status \in Final
          /\ Tells(s, a, s.rows[a])
    BY <1>2 DEF Sound, Touches
  <1>8. OutcomeHasImpact'
    <2> SUFFICES ASSUME NEW a \in Actions
                 PROVE  IF action'[a].status \in Final
                        THEN impact'[a].status = action'[a].status /\ impact'[a].at = action'[a].at
                        ELSE impact'[a] = NoImpact
      BY DEF OutcomeHasImpact
    <2>1. CASE a = s.own
      BY <2>1, <1>3, <1>4, <1>7, ImpactAssumption DEF Tells
    <2>2. CASE a # s.own /\ s.rows[a] # NoImpact
      BY <2>2, <1>4, <1>7 DEF Tells
    <2>3. CASE a # s.own /\ s.rows[a] = NoImpact
      BY <2>3, <1>4 DEF ImpactInv, OutcomeHasImpact
    <2> QED BY <2>1, <2>2, <2>3
  <1>9. UNCHANGED <<scan, ready, claimed>>
    BY DEF Commit
  <1>10. ClaimsHaveEvidence' /\ Committed'
    <2>1. \A a \in Actions : Evidenced(a, impact'[a]) /\ impact'[a].run \in Known
      BY <1>4, <1>7 DEF Tells, ImpactInv, ClaimsHaveEvidence, Committed
    <2> QED BY <2>1, <1>9 DEF ClaimsHaveEvidence, Committed, Evidenced, Known
  <1>11. Waiting'
    <2>1. \A a \in claimed : a \in Actions
      BY DEF ImpactInv, TypeOK
    <2> QED BY <2>1, <1>3, <1>4, <1>9, ImpactAssumption DEF ImpactInv, Waiting
  <1>12. Alone'
    <2>1. NoTx.own = NoAction
      BY DEF NoTx
    <2> QED BY <1>5, <2>1 DEF ImpactInv, Alone
  <1>13. \A d \in Clients : Sound(tx[d])' /\ Stands(pc[d], tx[d])'
    <2> SUFFICES ASSUME NEW d \in Clients PROVE Sound(tx[d])' /\ Stands(pc[d], tx[d])'
      OBVIOUS
    <2>1. PICK u \in Transactions, q \in Phases : u = tx'[d] /\ q = pc'[d]
      BY <1>6 DEF TypeOK
    <2>2. Sound(u) /\ Stands(q, u)
      BY <1>5, <2>1, SoundNoTx DEF ImpactInv
    <2>3. u.own = NoAction \/ u.own # s.own
      BY <1>1, <1>5, <2>1 DEF ImpactInv, Alone, NoTx
    <2>4. \A a \in Actions : a = u.own \/ action[a].status \in Final => action'[a] = action[a]
      BY <1>3, <1>4, <2>3, ImpactAssumption DEF Final
    <2>5. Sound(u)' /\ Stands(q, u)'
      BY <1>9, <2>2, <2>4, SoundKept
    <2> QED BY <2>1, <2>5 DEF Sound, Stands, Tells, Touches
  <1> QED BY <1>6, <1>8, <1>10, <1>11, <1>12, <1>13 DEF ImpactInv

LEMMA NextInv == ImpactInv /\ [Next]_vars => ImpactInv'
  <1> SUFFICES ASSUME ImpactInv, [Next]_vars PROVE ImpactInv'
    OBVIOUS
  <1>1. CASE Tick
    <2>1. TypeOK' /\ UNCHANGED <<action, impact, claimed, pc, tx, scan, ready>>
      BY <1>1 DEF Tick, tables, ImpactInv, TypeOK
    <2> QED BY <2>1, OutsideStep
  <1>2. ASSUME NEW r \in Runs, NEW ts \in 1 .. MaxTime,
               NEW found \in [Fingerprints -> Savings \cup {Absent}], IngestRun(r, ts, found)
        PROVE  ImpactInv'
    <2>1. ts \in Nat /\ found \in [Fingerprints -> Nat \cup {Absent}]
      <3>1. Savings \cup {Absent} \subseteq Nat \cup {Absent}
        BY ImpactAssumption
      <3>2. found \in [Fingerprints -> Nat \cup {Absent}]
        BY <3>1
      <3>3. ts \in Nat
        BY ImpactAssumption
      <3> QED BY <3>2, <3>3
    <2>2. TypeOK'
      BY <1>2, <2>1 DEF IngestRun, ImpactInv, TypeOK
    <2>3. \A q \in ready : scan'[q] = scan[q]
      BY <1>2 DEF IngestRun, ImpactInv, TypeOK
    <2>4. UNCHANGED <<action, impact, claimed, pc, tx>> /\ ready \subseteq ready'
      BY <1>2 DEF IngestRun
    <2> QED BY <2>2, <2>3, <2>4, OutsideStep
  <1>3. ASSUME NEW c \in Clients,
               \/ \E a \in Actions : \E status \in Outcomes[a] : BeginRecord(c, a, status)
               \/ BeginRefresh(c) \/ Compute(c) \/ Abort(c)
        PROVE  ImpactInv'
    BY <1>3, BeginRecordStep, BeginRefreshStep, LookStep, DeriveStep, UpsertStep,
       CommitStep, AbortStep DEF Compute
  <1>4. CASE UNCHANGED vars
    <2>1. TypeOK' /\ UNCHANGED <<action, impact, claimed, pc, tx, scan, ready>>
      BY <1>4 DEF vars, tables, ImpactInv, TypeOK
    <2> QED BY <2>1, OutsideStep
  <1> QED BY <1>1, <1>2, <1>3, <1>4 DEF Next

LEMMA Invariance == Spec => []ImpactInv
  BY InitInv, NextInv, PTL DEF Spec

-----------------------------------------------------------------------------
(* The results.                                                              *)

\* Every reachable state is well typed; no savings and no baseline are negative.
THEOREM TypeCorrect == Spec => []TypeOK
  <1>1. ImpactInv => TypeOK
    BY DEF ImpactInv
  <1> QED BY <1>1, Invariance, PTL

\* However refreshes overlap with the worker, an action has an impact row exactly when
\* it has an outcome, and the row tells that outcome.
THEOREM OutcomesHaveImpact == Spec => []OutcomeHasImpact
  <1>1. ImpactInv => OutcomeHasImpact
    BY DEF ImpactInv
  <1> QED BY <1>1, Invariance, PTL

\* The savings of every row are those of a completed action that a run made after its
\* outcome bears out, whatever runs became ready while the row was computed.
THEOREM SavingsHaveEvidence == Spec => []ClaimsHaveEvidence
  <1>1. ImpactInv => ClaimsHaveEvidence
    BY DEF ImpactInv
  <1> QED BY <1>1, Invariance, PTL

-----------------------------------------------------------------------------
(* No circle of waiting transactions.                                        *)

\* What a transaction has locked, or will with its current statement.
Reached(t, a) == t.rows[a] # NoImpact \/ a = t.current

\* A recording transaction touches its own action only; a refresh reaches its rows
\* newest first.
InOrder(t) ==
  /\ t.own # NoAction => \A a \in Actions : Touches(t, a) => a = t.own
  /\ t.own = NoAction =>
       /\ \A a, b \in Actions : Reached(t, a) /\ b \in t.todo => Later(a, b)
       /\ \A a, b \in Actions : t.rows[a] # NoImpact /\ b = t.current => Later(a, b)

Active == {c \in Clients : pc[c] # "idle"}

OrderInv ==
  /\ IsFiniteSet(Active)
  /\ \A c \in Clients : InOrder(tx[c])

LEMMA LaterOrder ==
  ASSUME TypeOK
  PROVE  /\ \A a \in Actions : ~Later(a, a)
         /\ \A a, b, d \in Actions : Later(a, b) /\ Later(b, d) => Later(a, d)
  <1>1. \A a \in Actions : action[a].at \in Nat /\ Rank[a] \in Nat
    BY ImpactAssumption DEF TypeOK
  <1> QED BY <1>1 DEF Later

LEMMA NoTxInOrder == InOrder(NoTx)
  <1>1. /\ NoTx.own = NoAction /\ NoTx.current = NoAction /\ NoTx.todo = {}
        /\ \A a \in Actions : NoTx.rows[a] = NoImpact
    BY DEF NoTx
  <1> QED BY <1>1, ImpactAssumption DEF InOrder, Reached

LEMMA ActiveFinite ==
  ASSUME IsFiniteSet(Active), NEW c \in Clients, \A d \in Clients \ {c} : pc'[d] = pc[d]
  PROVE  IsFiniteSet(Active')
  <1>1. IsFiniteSet(Active \cup {c})
    BY FS_AddElement
  <1>2. Active' \subseteq Active \cup {c}
    BY DEF Active
  <1> QED BY <1>1, <1>2, FS_Subset

\* A step inside one transaction that stays in order and changes no action.
LEMMA OrderStep ==
  ASSUME TypeOK, OrderInv, NEW c \in Clients, NEW t, NEW p, InOrder(t), action' = action,
         tx' = [tx EXCEPT ![c] = t], pc' = [pc EXCEPT ![c] = p]
  PROVE  OrderInv'
  <1>1. \A d \in Clients : tx'[d] = IF d = c THEN t ELSE tx[d]
    BY DEF TypeOK
  <1>2. \A d \in Clients \ {c} : pc'[d] = pc[d]
    BY DEF TypeOK
  <1>3. \A d \in Clients : InOrder(tx'[d])
    BY <1>1 DEF OrderInv
  <1>4. \A d \in Clients : InOrder(tx[d])'
    BY <1>3 DEF InOrder, Reached, Touches, Later
  <1> QED BY <1>2, <1>4, ActiveFinite DEF OrderInv

LEMMA BeginOrder ==
  ASSUME ImpactInv, OrderInv, NEW c \in Clients,
         \/ \E a \in Actions : \E status \in Outcomes[a] : BeginRecord(c, a, status)
         \/ BeginRefresh(c)
  PROVE  OrderInv'
  <1>1. TypeOK
    BY DEF ImpactInv
  <1>2. ASSUME NEW a \in Actions, NEW status \in Outcomes[a], BeginRecord(c, a, status)
        PROVE  OrderInv'
    <2>1. PICK t : t = [NoTx EXCEPT !.own = a, !.status = status, !.ts = now, !.todo = {a}]
      OBVIOUS
    <2>2. /\ t.own = a /\ t.todo = {a} /\ t.current = NoAction
          /\ \A b \in Actions : t.rows[b] = NoImpact
      <3> HIDE DEF NoImpact
      <3> QED BY <2>1 DEF NoTx
    <2>3. InOrder(t)
      BY <2>2, ImpactAssumption DEF InOrder, Touches
    <2>4. tx' = [tx EXCEPT ![c] = t] /\ pc' = [pc EXCEPT ![c] = "look"] /\ action' = action
      BY <1>2, <2>1 DEF BeginRecord, tables
    <2> QED BY <1>1, <2>3, <2>4, OrderStep
  <1>3. CASE BeginRefresh(c)
    <2>1. PICK t : t = [NoTx EXCEPT !.todo = Recent]
      OBVIOUS
    <2>2. /\ t.own = NoAction /\ t.current = NoAction
          /\ \A b \in Actions : t.rows[b] = NoImpact
      <3> HIDE DEF NoImpact
      <3> QED BY <2>1 DEF NoTx
    <2>3. InOrder(t)
      BY <2>2, ImpactAssumption DEF InOrder, Reached
    <2>4. tx' = [tx EXCEPT ![c] = t] /\ pc' = [pc EXCEPT ![c] = "look"] /\ action' = action
      BY <1>3, <2>1 DEF BeginRefresh, tables
    <2> QED BY <1>1, <2>3, <2>4, OrderStep
  <1> QED BY <1>2, <1>3

LEMMA LookOrder ==
  ASSUME ImpactInv, OrderInv, NEW c \in Clients, Look(c)
  PROVE  OrderInv'
  <1>1. TypeOK
    BY DEF ImpactInv
  <1>2. PICK a \in Actions : Ordered(tx[c].todo, a) /\ tx' = [tx EXCEPT ![c] = Looked(tx[c], a)]
    BY DEF Look
  <1>3. PICK s \in Transactions : s = tx[c]
    BY <1>1 DEF TypeOK
  <1>4. PICK t : t = Looked(s, a)
    OBVIOUS
  <1>5. /\ t.own = s.own /\ t.rows = s.rows /\ t.current = a /\ t.todo = s.todo \ {a}
    BY <1>3, <1>4 DEF Looked, Transactions
  <1>6. s.current = NoAction /\ InOrder(s)
    BY <1>3 DEF ImpactInv, Stands, Look, OrderInv
  <1>7. a \in s.todo /\ \A b \in s.todo \ {a} : Later(a, b)
    BY <1>2, <1>3 DEF Ordered
  <1>8. InOrder(t)
    <2>1. \A b \in Actions : Touches(t, b) => Touches(s, b)
      BY <1>5, <1>7 DEF Touches
    <2> QED BY <1>5, <1>6, <1>7, <2>1 DEF InOrder, Reached
  <1>9. tx' = [tx EXCEPT ![c] = t] /\ pc' = [pc EXCEPT ![c] = "derive"] /\ action' = action
    BY <1>2, <1>3, <1>4 DEF Look, tables
  <1> QED BY <1>1, <1>8, <1>9, OrderStep

LEMMA DeriveOrder ==
  ASSUME ImpactInv, OrderInv, NEW c \in Clients, Derive(c)
  PROVE  OrderInv'
  <1>1. TypeOK
    BY DEF ImpactInv
  <1>2. PICK s \in Transactions : s = tx[c]
    BY <1>1 DEF TypeOK
  <1>3. PICK t : t = WithRow(s)
    OBVIOUS
  <1>4. /\ t.own = s.own /\ t.rows = s.rows /\ t.current = s.current /\ t.todo = s.todo
    <2>1. PICK i : t = [s EXCEPT !.row = i]
      BY <1>3 DEF WithRow
    <2> QED BY <1>2, <2>1 DEF Transactions
  <1>5. InOrder(t)
    BY <1>2, <1>4 DEF InOrder, Reached, Touches, OrderInv
  <1>6. tx' = [tx EXCEPT ![c] = t] /\ pc' = [pc EXCEPT ![c] = "upsert"] /\ action' = action
    BY <1>2, <1>3 DEF Derive, tables
  <1> QED BY <1>1, <1>5, <1>6, OrderStep

LEMMA UpsertOrder ==
  ASSUME ImpactInv, OrderInv, NEW c \in Clients, Upsert(c)
  PROVE  OrderInv'
  <1>1. TypeOK
    BY DEF ImpactInv
  <1>2. PICK s \in Transactions : s = tx[c]
    BY <1>1 DEF TypeOK
  <1>3. PICK t : t = Upserted(s)
    OBVIOUS
  <1>4. /\ t.own = s.own /\ t.current = NoAction /\ t.todo = s.todo
        /\ t.rows = [s.rows EXCEPT ![s.current] = s.row]
    <2> HIDE DEF NoImpact
    <2> QED BY <1>2, <1>3 DEF Upserted, Transactions
  <1>5. \A b \in Actions : t.rows[b] = IF b = s.current THEN s.row ELSE s.rows[b]
    BY <1>4 DEF Transactions
  <1>6. InOrder(s)
    BY <1>2 DEF OrderInv
  <1>7. \A b \in Actions : /\ Touches(t, b) => Touches(s, b)
                           /\ Reached(t, b) => Reached(s, b)
    BY <1>4, <1>5, ImpactAssumption DEF Touches, Reached
  <1>8. InOrder(t)
    BY <1>4, <1>6, <1>7, ImpactAssumption DEF InOrder
  <1>9. /\ tx' = [tx EXCEPT ![c] = t] /\ action' = action
        /\ \E p : pc' = [pc EXCEPT ![c] = p]
    BY <1>2, <1>3 DEF Upsert, tables
  <1> QED BY <1>1, <1>8, <1>9, OrderStep

\* A commit moves the one action it records, which no refresh has reached or is
\* going to.
LEMMA CommitOrder ==
  ASSUME ImpactInv, OrderInv, NEW c \in Clients, Commit(c)
  PROVE  OrderInv'
  <1>1. TypeOK
    BY DEF ImpactInv
  <1>2. \A d \in Clients : tx'[d] = IF d = c THEN NoTx ELSE tx[d]
    BY <1>1 DEF Commit, EndTx, TypeOK
  <1>3. \A d \in Clients \ {c} : pc'[d] = pc[d]
    BY <1>1 DEF Commit, EndTx, TypeOK
  <1>4. \A a \in Actions : action[a].status \in Final => action'[a] = action[a]
    <2>1. tx[c].own # NoAction => action[tx[c].own].status = "running"
      BY DEF ImpactInv, Sound
    <2> QED BY <2>1, ImpactAssumption DEF Commit, Recorded, Final
  <1>5. ASSUME NEW d \in Clients PROVE InOrder(tx[d])'
    <2>1. PICK u : u = tx'[d]
      OBVIOUS
    <2>2. InOrder(u)
      BY <1>2, <2>1, NoTxInOrder DEF OrderInv
    <2>3. Sound(u)
      BY <1>2, <2>1, SoundNoTx DEF ImpactInv
    <2>4. \A a \in Actions : u.own = NoAction /\ (Reached(u, a) \/ a \in u.todo) =>
            action'[a] = action[a]
      BY <1>4, <2>3, ImpactAssumption DEF Sound, Touches, Reached
    <2>5. \A a, b \in Actions : action'[a] = action[a] /\ action'[b] = action[b] =>
            (Later(a, b) <=> Later(a, b)')
      BY DEF Later
    <2>6. \A a \in Actions : /\ Touches(u, a)' <=> Touches(u, a)
                             /\ Reached(u, a)' <=> Reached(u, a)
      BY DEF Touches, Reached
    <2>7. InOrder(u)'
      <3>1. CASE u.own # NoAction
        BY <2>2, <2>6, <3>1 DEF InOrder
      <3>2. CASE u.own = NoAction
        <4>1. \A a, b \in Actions : Reached(u, a) /\ b \in u.todo => Later(a, b)'
          BY <2>2, <2>4, <2>5, <3>2 DEF InOrder
        <4>2. \A a, b \in Actions : u.rows[a] # NoImpact /\ b = u.current => Later(a, b)'
          BY <2>2, <2>4, <2>5, <3>2 DEF InOrder, Reached
        <4> QED BY <2>6, <3>2, <4>1, <4>2 DEF InOrder
      <3> QED BY <3>1, <3>2
    <2> QED BY <2>1, <2>7 DEF InOrder, Reached, Touches, Later
  <1> QED BY <1>3, <1>5, ActiveFinite DEF OrderInv

LEMMA AbortOrder ==
  ASSUME ImpactInv, OrderInv, NEW c \in Clients, Abort(c)
  PROVE  OrderInv'
  <1>1. /\ tx' = [tx EXCEPT ![c] = NoTx] /\ pc' = [pc EXCEPT ![c] = "idle"]
        /\ action' = action
    BY DEF Abort, EndTx, tables
  <1> QED BY <1>1, NoTxInOrder, OrderStep DEF ImpactInv

LEMMA OrderInvariant == Spec => []OrderInv
  <1>1. Init => OrderInv
    <2> SUFFICES ASSUME Init PROVE OrderInv
      OBVIOUS
    <2>1. Active = {}
      BY DEF Init, Active
    <2>2. \A c \in Clients : tx[c] = NoTx
      BY DEF Init
    <2> QED BY <2>1, <2>2, FS_EmptySet, NoTxInOrder DEF OrderInv
  <1>2. ImpactInv /\ OrderInv /\ [Next]_vars => OrderInv'
    <2> SUFFICES ASSUME ImpactInv, OrderInv, [Next]_vars PROVE OrderInv'
      OBVIOUS
    <2>1. CASE UNCHANGED <<pc, tx, action>>
      BY <2>1 DEF OrderInv, Active, InOrder, Reached, Touches, Later
    <2>2. \/ UNCHANGED <<pc, tx, action>>
          \/ \E c \in Clients :
               \/ \E a \in Actions : \E status \in Outcomes[a] : BeginRecord(c, a, status)
               \/ BeginRefresh(c)
               \/ Compute(c)
               \/ Abort(c)
      BY DEF Next, Tick, IngestRun, vars, tables
    <2> QED BY <2>1, <2>2, BeginOrder, LookOrder, DeriveOrder, UpsertOrder, CommitOrder,
               AbortOrder DEF Compute
  <1> QED BY <1>1, <1>2, Invariance, PTL DEF Spec

\* A transaction that waits is a refresh, and waits for one that is going on to a
\* row further down.
LEMMA WaitsDown ==
  ASSUME ImpactInv, OrderInv, NEW c \in Clients, NEW o \in Clients, c # o,
         pc[c] = "upsert", pc[o] = "upsert", Holds(o, tx[c].current)
  PROVE  /\ tx[c].current \in Actions /\ tx[o].current \in Actions
         /\ Later(tx[c].current, tx[o].current)
  <1> DEFINE a == tx[c].current
             b == tx[o].current
  <1>1. a \in Actions /\ b \in Actions
    BY DEF ImpactInv, Stands
  <1>2. tx[o].rows[a] # NoImpact
    BY DEF Holds
  <1>3. Touches(tx[o], a) /\ Touches(tx[o], b)
    BY <1>2 DEF Touches
  <1>4. tx[o].own = NoAction
    <2> SUFFICES ASSUME tx[o].own # NoAction PROVE FALSE
      OBVIOUS
    <2>1. tx[o].own = a
      BY <1>1, <1>3 DEF OrderInv, InOrder
    <2>2. tx[c].own # a
      BY <2>1, ImpactAssumption DEF ImpactInv, Alone
    <2>3. action[a].status = "running"
      BY <2>1 DEF ImpactInv, Sound
    <2>4. action[a].status \in Final
      BY <1>1, <2>2 DEF ImpactInv, Sound, Touches
    <2> QED BY <2>3, <2>4 DEF Final
  <1> QED BY <1>1, <1>2, <1>4 DEF OrderInv, InOrder

LEMMA NoCircle ==
  ASSUME ImpactInv, OrderInv, NEW S \in SUBSET Clients, S # {},
         \A c \in S : pc[c] = "upsert" /\ \E o \in S \ {c} : Holds(o, tx[c].current)
  PROVE  FALSE
  <1> DEFINE Ahead(c) == {d \in S : Later(tx[c].current, tx[d].current)}
             All == {Ahead(c) : c \in S}
  <1>1. IsFiniteSet(S)
    <2>1. S \subseteq Active
      BY DEF Active
    <2> QED BY <2>1, FS_Subset DEF OrderInv
  <1>2. IsWellFoundedOn(StrictSubsetOrdering(S), SUBSET S)
    BY <1>1, FS_StrictSubsetOrderingWellFounded, FS_FiniteSubsetsOfFinite
  <1>3. All \subseteq SUBSET S /\ All # {}
    <2>1. \A c \in S : Ahead(c) \subseteq S
      OBVIOUS
    <2> HIDE DEF Ahead
    <2> QED BY <2>1
  <1>4. PICK x \in All : \A y \in All : <<y, x>> \notin StrictSubsetOrdering(S)
    <2> HIDE DEF All
    <2> QED BY <1>2, <1>3, WFMin
  <1>5. PICK c \in S : x = Ahead(c)
    BY <1>4
  <1>6. PICK o \in S \ {c} : Holds(o, tx[c].current)
    OBVIOUS
  <1>7. /\ \A d \in S : tx[d].current \in Actions
        /\ Later(tx[c].current, tx[o].current)
    BY <1>6, WaitsDown DEF ImpactInv, Stands
  <1>8. TypeOK
    BY DEF ImpactInv
  <1>9. Ahead(o) \subseteq Ahead(c) /\ o \in Ahead(c) /\ o \notin Ahead(o)
    BY <1>7, <1>8, LaterOrder
  <1>10. <<Ahead(o), Ahead(c)>> \in StrictSubsetOrdering(S)
    <2>1. Ahead(o) \in SUBSET S /\ Ahead(c) \in SUBSET S /\ Ahead(o) # Ahead(c)
      BY <1>9
    <2> HIDE DEF Ahead
    <2> QED BY <1>9, <2>1 DEF StrictSubsetOrdering
  <1> QED BY <1>4, <1>5, <1>10

\* However many refreshes and workers write the table at once, no transactions wait
\* for each other in a circle: every refresh upserts its rows newest first.
THEOREM NobodyWaitsInACircle == Spec => []NoCircularWait
  <1>1. ImpactInv /\ OrderInv => NoCircularWait
    BY NoCircle DEF NoCircularWait
  <1> QED BY <1>1, Invariance, OrderInvariant, PTL
=============================================================================
