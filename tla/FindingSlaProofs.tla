-------------------------- MODULE FindingSlaProofs --------------------------
(* What the SLA clock guarantees for any number of findings, groups and       *)
(* overlapping requests, whatever the order of their event times.             *)
EXTENDS FindingSla, TLAPS

-----------------------------------------------------------------------------
(* What one synchronisation does to a governance row.                        *)

\* The later row continues the clock of the earlier one.
Extends(r, later) ==
  /\ later.created # 0
  /\ r.created # 0 =>
       /\ later.created = r.created
       /\ r.opened # 0 => later.opened = r.opened
       /\ later.paused >= r.paused
       /\ later.extension >= r.extension
  /\ r.breachedAt # 0 /\ later.deadline # 0 => later.breachedAt = r.breachedAt

\* A row that does not exist has no clock.
Blank(r) == r.created = 0 => r = NoRow

LEMMA InsertedType ==
  ASSUME NEW r \in Rows, NEW state \in Effective, NEW days \in Nat, NEW ts \in Nat
  PROVE  Inserted(r, state, days, ts) \in Rows
  <1> DEFINE opened == IF state = "open" THEN ts ELSE 0
             deadline == DeadlineFrom(opened, days, 0, 0)
  <1>1. opened \in Nat
    OBVIOUS
  <1>2. deadline \in Nat
    BY DEF DeadlineFrom
  <1>3. Inserted(r, state, days, ts) =
          IF r.created # 0 THEN r
          ELSE [NoRow EXCEPT !.created = ts, !.opened = opened, !.deadline = deadline]
    BY DEF Inserted
  <1> HIDE DEF opened, deadline
  <1>4. [NoRow EXCEPT !.created = ts, !.opened = opened, !.deadline = deadline] \in Rows
    BY <1>1, <1>2 DEF NoRow, Rows
  <1> QED BY <1>3, <1>4

LEMMA MovedType ==
  ASSUME NEW r \in Rows, NEW state \in Effective, NEW days \in Nat, NEW ts \in Nat
  PROVE  Moved(r, state, days, ts) \in Rows
  <1>1. Opened(r, state, ts) \in Nat
    BY DEF Opened, Rows
  <1>2. Paused(r, state, ts) \in Nat
    BY DEF Paused, Elapsed, Rows
  <1>3. PausedAt(r, state, ts) \in Nat
    BY DEF PausedAt, Rows
  <1>4. DeadlineFrom(Opened(r, state, ts), days, Paused(r, state, ts), r.extension) \in Nat
    BY <1>1, <1>2 DEF DeadlineFrom, Rows
  <1>5. \A d \in Nat : BreachedAt(r, d, ts) \in Nat
    BY DEF BreachedAt, Rows
  <1> QED BY <1>1, <1>2, <1>3, <1>4, <1>5 DEF Moved, Rows

LEMMA SyncedType ==
  ASSUME NEW r \in Rows, NEW state \in Effective, NEW days \in Nat, NEW ts \in Nat
  PROVE  Synced(r, state, days, ts) \in Rows
  BY InsertedType, MovedType DEF Synced

LEMMA MovedExtends ==
  ASSUME NEW r \in Rows, r.created # 0,
         NEW state \in Effective, NEW days \in Nat, NEW ts \in Nat
  PROVE  Extends(r, Moved(r, state, days, ts))
  <1>1. r.opened # 0 => Opened(r, state, ts) = r.opened
    BY DEF Opened
  <1>2. Paused(r, state, ts) >= r.paused
    BY DEF Paused, Elapsed, Rows
  <1>3. \A d \in Nat : r.breachedAt # 0 /\ d # 0 => BreachedAt(r, d, ts) = r.breachedAt
    BY DEF BreachedAt
  <1>4. Moved(r, state, days, ts).deadline \in Nat
    BY MovedType DEF Rows
  <1>5. r.extension >= r.extension
    BY DEF Rows
  <1> QED BY <1>1, <1>2, <1>3, <1>4, <1>5 DEF Moved, Extends

LEMMA SyncedExtends ==
  ASSUME NEW r \in Rows, Blank(r), NEW state \in Effective, NEW days \in Nat,
         NEW ts \in Nat \ {0}
  PROVE  Extends(r, Synced(r, state, days, ts))
  <1>1. CASE r.created # 0
    BY <1>1, MovedExtends DEF Synced, Inserted
  <1>2. CASE r.created = 0
    <2> DEFINE i == Inserted(r, state, days, ts)
    <2>1. i \in Rows /\ i.created # 0
      BY <1>2, InsertedType DEF Inserted, NoRow
    <2>2. Extends(i, Moved(i, state, days, ts))
      BY <2>1, MovedExtends
    <2>3. Moved(i, state, days, ts).created # 0
      BY <2>2 DEF Extends
    <2>4. r.breachedAt = 0
      BY <1>2 DEF Blank, NoRow
    <2> QED BY <1>2, <2>3, <2>4 DEF Extends, Synced
  <1> QED BY <1>1, <1>2

LEMMA EffectiveType ==
  ASSUME NEW g \in [state : States, until : Nat], NEW o \in [state : States, until : Nat],
         NEW t \in Nat
  PROVE  EffectiveState(g, o, t) \in Effective
  BY DEF EffectiveState, InForce, States, Effective

LEMMA NoRowType == NoRow \in Rows
  BY DEF NoRow, Rows

LEMMA NoTxType == NoTx \in Transactions
  BY NoRowType DEF NoTx, Transactions, NoDecision, States, Effective

-----------------------------------------------------------------------------
(* Type correctness.                                                         *)

LEMMA InitType == Init => TypeOK
  <1>1. SUFFICES ASSUME Init PROVE TypeOK
    OBVIOUS
  <1>2. gov \in [Findings -> Rows]
    BY <1>1, ClockAssumption, SyncedType, NoRowType DEF Init, Effective
  <1>3. tx \in [Clients -> Transactions]
    BY <1>1, NoTxType DEF Init
  <1>4. decision \in [Subjects -> [state : States, until : Nat]]
    BY <1>1 DEF Init, NoDecision, States
  <1> QED BY <1>1, <1>2, <1>3, <1>4 DEF Init, TypeOK, NoPolicy

\* The statements that touch the transaction of one client only.
LEMMA ClientType ==
  ASSUME TypeOK, NEW c \in Clients,
         \/ \E s \in Subjects, d \in Requests : BeginDecision(c, s, d)
         \/ WriteDecision(c)
         \/ LookUp(c)
         \/ SyncClock(c)
         \/ CommitDecision(c)
         \/ AbortDecision(c)
  PROVE  TypeOK'
  <1> DEFINE t == tx[c]
  <1>1. t \in Transactions
    BY DEF TypeOK
  <1>2. ASSUME NEW s \in Subjects, NEW d \in Requests, BeginDecision(c, s, d)
        PROVE TypeOK'
    <2>1. d \in [state : States, until : Nat]
      BY ClockAssumption DEF Requests, States
    <2>2. Started(s, d) \in Transactions
      BY <2>1, NoTxType DEF Started, Transactions, TypeOK
    <2> QED BY <1>2, <2>2 DEF BeginDecision, TypeOK, db
  <1>3. CASE WriteDecision(c)
    <2>1. [t EXCEPT !.todo = Covered(t.subject) \cap listed] \in Transactions
      BY <1>1 DEF Transactions, TypeOK
    <2>2. tx' = [tx EXCEPT ![c] = [t EXCEPT !.todo = Covered(t.subject) \cap listed]]
      BY <1>3 DEF WriteDecision
    <2> HIDE DEF t
    <2> QED BY <1>3, <2>1, <2>2 DEF WriteDecision, TypeOK, db
  <1>4. CASE LookUp(c)
    <2>1. PICK f \in t.todo :
            tx' = [tx EXCEPT ![c] = LookedUp(t, f,
              EffectiveState(Sees(c, GroupOf[f]), Sees(c, f), t.ts), SlaDays(policy))]
      BY <1>4 DEF LookUp
    <2>2. f \in Findings /\ GroupOf[f] \in Groups
      BY <1>1, ClockAssumption DEF Transactions
    <2>3. \A s \in Subjects : Sees(c, s) \in [state : States, until : Nat]
      BY <1>1 DEF Sees, TypeOK, Transactions
    <2>4. EffectiveState(Sees(c, GroupOf[f]), Sees(c, f), t.ts) \in Effective
      BY <1>1, <2>2, <2>3, EffectiveType DEF Subjects, Transactions
    <2>5. SlaDays(policy) \in Nat
      BY ClockAssumption DEF SlaDays, TypeOK
    <2>6. ASSUME NEW e \in Effective, NEW n \in Nat
          PROVE LookedUp(t, f, e, n) \in Transactions
      BY <1>1, <2>2 DEF Transactions, LookedUp
    <2>7. tx' \in [Clients -> Transactions]
      BY <2>1, <2>4, <2>5, <2>6 DEF TypeOK
    <2> QED BY <1>4, <2>7 DEF LookUp, TypeOK, db
  <1>5. CASE SyncClock(c)
    <2> DEFINE f == t.finding
               row == Synced(gov[f], t.state, t.days, t.ts)
    <2>1. tx' = [tx EXCEPT ![c] = WithRow(t, f, row)]
      BY <1>5 DEF SyncClock
    <2>2. WithRow(t, f, row) \in Transactions
      <3>1. CASE f \in Findings
        <4>1. row \in Rows
          BY <1>1, <3>1, SyncedType DEF Transactions, TypeOK
        <4> HIDE DEF row, t
        <4> QED BY <1>1, <4>1 DEF WithRow, Transactions
      <3>2. CASE f \notin Findings
        <4> HIDE DEF row, t
        <4>1. [t.rows EXCEPT ![f] = row] = t.rows
          BY <1>1, <3>2 DEF Transactions
        <4> QED BY <1>1, <4>1 DEF WithRow, Transactions
      <3> QED BY <3>1, <3>2
    <2> HIDE DEF row
    <2> QED BY <1>5, <2>1, <2>2 DEF SyncClock, TypeOK, db
  <1>6. CASE CommitDecision(c)
    <2>1. gov' \in [Findings -> Rows]
      BY <1>1, <1>6 DEF CommitDecision, Transactions, TypeOK
    <2>2. decision' \in [Subjects -> [state : States, until : Nat]]
      BY <1>1, <1>6 DEF CommitDecision, Transactions, TypeOK
    <2> QED BY <1>6, <2>1, <2>2, NoTxType DEF CommitDecision, EndDecision, TypeOK
  <1>7. CASE AbortDecision(c)
    BY <1>7, NoTxType DEF AbortDecision, EndDecision, TypeOK, db
  <1> QED BY <1>2, <1>3, <1>4, <1>5, <1>6, <1>7

LEMMA NextType == TypeOK /\ [Next]_vars => TypeOK'
  <1>1. SUFFICES ASSUME TypeOK, [Next]_vars PROVE TypeOK'
    OBVIOUS
  <1>2. CASE Tick
    BY <1>1, <1>2 DEF Tick, TypeOK, db
  <1>3. ASSUME NEW f \in Findings, Ingest(f) PROVE TypeOK'
    BY <1>1, <1>3 DEF Ingest, TypeOK
  <1>4. ASSUME NEW level \in {"check", "category"}, NEW days \in PolicyDays,
               CreatePolicy(level, days)
        PROVE TypeOK'
    BY <1>1, <1>4, ClockAssumption DEF CreatePolicy, TypeOK
  <1>5. ASSUME NEW days \in PolicyDays, UpdateCategory(days) PROVE TypeOK'
    BY <1>1, <1>5, ClockAssumption DEF UpdateCategory, TypeOK
  <1>6. ASSUME NEW f \in Findings, NEW days \in PolicyDays, ExtendSla(f, days)
        PROVE TypeOK'
    BY <1>1, <1>6, ClockAssumption DEF ExtendSla, TypeOK, db
  <1>7. CASE UNCHANGED vars
    BY <1>1, <1>7 DEF TypeOK, vars, db
  <1> QED BY <1>1, <1>2, <1>3, <1>4, <1>5, <1>6, <1>7, ClientType DEF Next

\* Every reachable state is well typed: no clock is ever negative.
THEOREM TypeCorrect == Spec => []TypeOK
  BY InitType, NextType, PTL DEF Spec

-----------------------------------------------------------------------------
(* Overlapping requests.  A transaction that has written a governance row     *)
(* holds it until it ends, so what it commits continues what is committed.    *)

\* What the statement a client has reached says of its transaction.
Reached(c) ==
  LET t == tx[c]
  IN  /\ pc[c] # "idle" => t.ts # 0
      /\ pc[c] \in {"idle", "write"} => t.rows = [f \in Findings |-> NoRow]
      /\ pc[c] = "write" /\ t.subject \in Findings => t.subject \in listed
      /\ pc[c] = "sync" => t.finding \in Findings
      /\ pc[c] = "commit" => t.todo = {}

\* A finding whose own decision is being written is yet to be synchronised or has been.
Pending(c) ==
  LET t == tx[c]
  IN  Wrote(c) /\ t.subject \in Findings =>
        \/ t.subject \in t.todo
        \/ pc[c] = "sync" /\ t.finding = t.subject
        \/ Rewrote(c, t.subject)

Exclusive ==
  \A c, o \in Clients, f \in Findings : c # o /\ Rewrote(c, f) => ~Rewrote(o, f)

Continues ==
  \A c \in Clients, f \in Findings : Rewrote(c, f) => Extends(gov[f], tx[c].rows[f])

\* The inductive invariant.
ClockInv ==
  /\ TypeOK
  /\ \A c \in Clients : Reached(c) /\ Pending(c)
  /\ Exclusive
  /\ Continues
  /\ \A f \in Findings : Blank(gov[f])

LEMMA SyncedBlank ==
  ASSUME NEW r \in Rows, NEW state \in Effective, NEW days \in Nat,
         NEW ts \in Nat \ {0}, Blank(r)
  PROVE  Synced(r, state, days, ts).created # 0
  BY SyncedExtends DEF Extends

LEMMA NoRowsWritten ==
  ASSUME NEW c \in Clients, tx[c].rows = [f \in Findings |-> NoRow], NEW f \in Findings
  PROVE  ~Rewrote(c, f)
  BY DEF Rewrote, NoRow

LEMMA InitClock == Init => ClockInv
  <1>1. SUFFICES ASSUME Init PROVE ClockInv
    OBVIOUS
  <1>2. TypeOK
    BY <1>1, InitType
  <1>3. \A c \in Clients : pc[c] = "idle" /\ tx[c].rows = [f \in Findings |-> NoRow]
    BY <1>1 DEF Init, NoTx
  <1>4. \A c \in Clients : Reached(c) /\ Pending(c)
    BY <1>3 DEF Reached, Pending, Wrote
  <1>5. Exclusive /\ Continues
    BY <1>3, NoRowsWritten DEF Exclusive, Continues
  <1>6. ASSUME NEW f \in Findings PROVE Blank(gov[f])
    <2>1. CASE f \in listed
      <3>1. gov[f] = Synced(NoRow, "open", DefaultDays, 1)
        BY <1>1, <2>1 DEF Init
      <3>2. Synced(NoRow, "open", DefaultDays, 1).created # 0
        BY SyncedBlank, NoRowType, ClockAssumption DEF Blank, Effective
      <3> QED BY <3>1, <3>2 DEF Blank
    <2>2. CASE f \notin listed
      BY <1>1, <2>2 DEF Init, Blank
    <2> QED BY <2>1, <2>2
  <1> QED BY <1>2, <1>4, <1>5, <1>6 DEF ClockInv

\* Steps that neither touch a transaction nor a governance row.
LEMMA OutsideStep ==
  ASSUME ClockInv, TypeOK', UNCHANGED <<pc, tx, gov>>, listed \subseteq listed'
  PROVE  ClockInv'
  <1>1. ASSUME NEW c \in Clients PROVE Reached(c)' /\ Pending(c)'
    BY <1>1 DEF ClockInv, Reached, Pending, Wrote, Rewrote
  <1>2. Exclusive' /\ Continues'
    BY DEF ClockInv, Exclusive, Continues, Rewrote
  <1> QED BY <1>1, <1>2 DEF ClockInv

\* Steps of one client that neither write nor commit a governance row.
LEMMA QuietStep ==
  ASSUME ClockInv, TypeOK', NEW c \in Clients, UNCHANGED <<gov, listed>>,
         \A o \in Clients \ {c} : pc'[o] = pc[o] /\ tx'[o] = tx[o],
         \/ tx'[c].rows = tx[c].rows
         \/ tx'[c].rows = [f \in Findings |-> NoRow],
         Reached(c)', Pending(c)'
  PROVE  ClockInv'
  <1>1. ASSUME NEW o \in Clients PROVE Reached(o)' /\ Pending(o)'
    <2>1. CASE o = c
      BY <2>1
    <2>2. CASE o # c
      <3>1. pc'[o] = pc[o] /\ tx'[o] = tx[o] /\ listed' = listed
        BY <2>2
      <3> QED BY <3>1 DEF ClockInv, Reached, Pending, Wrote, Rewrote
    <2> QED BY <2>1, <2>2
  <1>2. ASSUME NEW o \in Clients, NEW f \in Findings, Rewrote(o, f)'
        PROVE Rewrote(o, f) /\ tx'[o].rows[f] = tx[o].rows[f]
    <2>1. \/ tx'[o].rows = tx[o].rows
          \/ tx'[o].rows = [g \in Findings |-> NoRow]
      BY <1>2
    <2>2. tx'[o].rows # [g \in Findings |-> NoRow]
      BY <1>2 DEF Rewrote, NoRow
    <2> QED BY <1>2, <2>1, <2>2 DEF Rewrote
  <1>3. Exclusive'
    BY <1>2 DEF ClockInv, Exclusive
  <1>4. Continues'
    <2>1. ASSUME NEW o \in Clients, NEW f \in Findings, Rewrote(o, f)'
          PROVE Extends(gov'[f], tx'[o].rows[f])
      <3>1. Extends(gov[f], tx[o].rows[f])
        BY <1>2, <2>1 DEF ClockInv, Continues
      <3> QED BY <1>2, <2>1, <3>1
    <2> QED BY <2>1 DEF Continues
  <1> QED BY <1>1, <1>3, <1>4 DEF ClockInv

LEMMA BeginStep ==
  ASSUME ClockInv, TypeOK', NEW c \in Clients, NEW s \in Subjects, NEW d \in Requests,
         BeginDecision(c, s, d)
  PROVE  ClockInv'
  <1>1. pc'[c] = "write" /\ tx'[c] = Started(s, d)
    BY DEF BeginDecision, ClockInv, TypeOK
  <1>2. /\ Started(s, d).ts = now
        /\ Started(s, d).subject = s
        /\ Started(s, d).rows = [f \in Findings |-> NoRow]
    BY DEF Started, NoTx
  <1>3. now # 0 /\ listed' = listed /\ (s \in Findings => s \in listed)
    BY DEF BeginDecision, ClockInv, TypeOK, db
  <1>4. Reached(c)' /\ Pending(c)'
    BY <1>1, <1>2, <1>3 DEF Reached, Pending, Wrote
  <1>5. \A o \in Clients \ {c} : pc'[o] = pc[o] /\ tx'[o] = tx[o]
    BY DEF BeginDecision, ClockInv, TypeOK
  <1>6. UNCHANGED <<gov, listed>>
    BY DEF BeginDecision, db
  <1> QED BY <1>1, <1>2, <1>4, <1>5, <1>6, QuietStep

LEMMA WriteStep ==
  ASSUME ClockInv, TypeOK', NEW c \in Clients, WriteDecision(c)
  PROVE  ClockInv'
  <1> DEFINE t == tx[c]
             todo == Covered(t.subject) \cap listed
  <1>1. pc[c] = "write" /\ t \in Transactions
    BY DEF WriteDecision, ClockInv, TypeOK
  <1>2. /\ tx'[c] = [t EXCEPT !.todo = todo]
        /\ pc'[c] = IF todo = {} THEN "commit" ELSE "look"
    BY DEF WriteDecision, ClockInv, TypeOK
  <1>3. /\ tx'[c].todo = todo
        /\ tx'[c].rows = t.rows
        /\ tx'[c].subject = t.subject
        /\ tx'[c].ts = t.ts
    <2> HIDE DEF todo, t
    <2> QED BY <1>1, <1>2 DEF Transactions
  <1>4. Reached(c)
    BY DEF ClockInv
  <1>5. t.ts # 0 /\ (t.subject \in Findings => t.subject \in todo)
    BY <1>1, <1>4 DEF Reached, Covered
  <1>6. pc'[c] \in {"commit", "look"} /\ (pc'[c] = "commit" => todo = {})
    BY <1>2
  <1> HIDE DEF t, todo
  <1>7. Reached(c)' /\ Pending(c)'
    BY <1>3, <1>5, <1>6 DEF Reached, Pending
  <1>8. \A o \in Clients \ {c} : pc'[o] = pc[o] /\ tx'[o] = tx[o]
    BY DEF WriteDecision, ClockInv, TypeOK
  <1>9. UNCHANGED <<gov, listed>>
    BY DEF WriteDecision, db
  <1> QED BY <1>3, <1>7, <1>8, <1>9, QuietStep DEF t

LEMMA LookUpStep ==
  ASSUME ClockInv, TypeOK', NEW c \in Clients, LookUp(c)
  PROVE  ClockInv'
  <1> DEFINE t == tx[c]
  <1>1. pc[c] = "look" /\ t \in Transactions /\ pc'[c] = "sync"
    BY DEF LookUp, ClockInv, TypeOK
  <1>2. PICK f \in t.todo :
          tx' = [tx EXCEPT ![c] = LookedUp(t, f,
            EffectiveState(Sees(c, GroupOf[f]), Sees(c, f), t.ts), SlaDays(policy))]
    BY DEF LookUp
  <1>3. \A e, n : /\ LookedUp(t, f, e, n).todo = t.todo \ {f}
                  /\ LookedUp(t, f, e, n).finding = f
                  /\ LookedUp(t, f, e, n).rows = t.rows
                  /\ LookedUp(t, f, e, n).subject = t.subject
                  /\ LookedUp(t, f, e, n).ts = t.ts
    <2> HIDE DEF t
    <2> QED BY <1>1 DEF LookedUp, Transactions
  <1>4. /\ tx'[c].todo = t.todo \ {f}
        /\ tx'[c].finding = f
        /\ tx'[c].rows = t.rows
        /\ tx'[c].subject = t.subject
        /\ tx'[c].ts = t.ts
    BY <1>2, <1>3 DEF ClockInv, TypeOK
  <1>5. Reached(c) /\ Pending(c)
    BY DEF ClockInv
  <1>6. f \in Findings
    BY <1>1, <1>2 DEF Transactions
  <1>7. Reached(c)'
    BY <1>1, <1>4, <1>5, <1>6 DEF Reached
  <1>8. Pending(c)'
    BY <1>1, <1>4, <1>5 DEF Pending, Wrote, Rewrote
  <1>9. \A o \in Clients \ {c} : pc'[o] = pc[o] /\ tx'[o] = tx[o]
    BY DEF LookUp, ClockInv, TypeOK
  <1>10. UNCHANGED <<gov, listed>>
    BY DEF LookUp, db
  <1> QED BY <1>4, <1>7, <1>8, <1>9, <1>10, QuietStep

LEMMA AbortStep ==
  ASSUME ClockInv, TypeOK', NEW c \in Clients, AbortDecision(c)
  PROVE  ClockInv'
  <1>1. pc'[c] = "idle" /\ tx'[c].rows = [f \in Findings |-> NoRow]
    BY DEF AbortDecision, EndDecision, ClockInv, TypeOK, NoTx
  <1>2. Reached(c)' /\ Pending(c)'
    BY <1>1 DEF Reached, Pending, Wrote
  <1>3. \A o \in Clients \ {c} : pc'[o] = pc[o] /\ tx'[o] = tx[o]
    BY DEF AbortDecision, EndDecision, ClockInv, TypeOK
  <1>4. UNCHANGED <<gov, listed>>
    BY DEF AbortDecision, db
  <1> QED BY <1>1, <1>2, <1>3, <1>4, QuietStep

\* The row is free and what is written continues what is committed.
LEMMA SyncStep ==
  ASSUME ClockInv, TypeOK', NEW c \in Clients, SyncClock(c)
  PROVE  ClockInv'
  <1> DEFINE t == tx[c]
  <1>1. pc[c] = "sync" /\ t \in Transactions
    BY DEF SyncClock, ClockInv, TypeOK
  <1>2. Reached(c) /\ Pending(c)
    BY DEF ClockInv
  <1>3. PICK f \in Findings : f = t.finding
    BY <1>1, <1>2 DEF Reached
  <1>4. t.ts \in Nat \ {0}
    BY <1>1, <1>2 DEF Reached, Transactions
  <1>5. PICK row : row = Synced(gov[f], t.state, t.days, t.ts)
    OBVIOUS
  <1>6. gov[f] \in Rows /\ t.state \in Effective /\ t.days \in Nat /\ Blank(gov[f])
    BY <1>1, <1>3 DEF ClockInv, TypeOK, Transactions
  <1>7. Extends(gov[f], row)
    BY <1>4, <1>5, <1>6, SyncedExtends
  <1>8. row.created # 0
    BY <1>7 DEF Extends
  <1>9. tx'[c] = WithRow(t, f, row)
    BY <1>3, <1>5 DEF SyncClock, ClockInv, TypeOK
  <1>10. /\ tx'[c].rows = [t.rows EXCEPT ![f] = row]
        /\ tx'[c].todo = t.todo
        /\ tx'[c].subject = t.subject
        /\ tx'[c].ts = t.ts
    <2> HIDE DEF t
    <2> QED BY <1>1, <1>9 DEF WithRow, Transactions
  <1>11. pc'[c] = IF t.todo = {} THEN "commit" ELSE "look"
    BY DEF SyncClock, ClockInv, TypeOK
  <1>12. \A o \in Clients \ {c} : pc'[o] = pc[o] /\ tx'[o] = tx[o] /\ ~Rewrote(o, f)
    BY <1>3 DEF SyncClock, ClockInv, TypeOK
  <1>13. UNCHANGED <<gov, listed>>
    BY DEF SyncClock, db
  <1>14. /\ tx'[c].rows[f] = row
         /\ \A g \in Findings \ {f} : tx'[c].rows[g] = t.rows[g]
    <2> HIDE DEF t
    <2> QED BY <1>1, <1>3, <1>10 DEF Transactions
  <1>15. Rewrote(c, f)'
    BY <1>8, <1>14 DEF Rewrote
  <1>16. \A g \in Findings \ {f} : Rewrote(c, g)' <=> Rewrote(c, g)
    BY <1>14 DEF Rewrote
  <1>17. Reached(c)'
    BY <1>4, <1>10, <1>11 DEF Reached
  <1>18. Pending(c)'
    <2>1. CASE t.subject = f
      BY <1>10, <1>15, <2>1 DEF Pending
    <2>2. CASE t.subject # f
      BY <1>1, <1>2, <1>3, <1>10, <1>16, <2>2 DEF Pending, Wrote
    <2> QED BY <2>1, <2>2
  <1>19. ASSUME NEW o \in Clients PROVE Reached(o)' /\ Pending(o)'
    <2>1. CASE o = c
      BY <1>17, <1>18, <2>1
    <2>2. CASE o # c
      <3>1. pc'[o] = pc[o] /\ tx'[o] = tx[o] /\ listed' = listed
        BY <1>12, <1>13, <2>2
      <3> QED BY <3>1 DEF ClockInv, Reached, Pending, Wrote, Rewrote
    <2> QED BY <2>1, <2>2
  <1>20. \A o \in Clients \ {c}, g \in Findings : Rewrote(o, g)' <=> Rewrote(o, g)
    BY <1>12 DEF Rewrote
  <1>21. Exclusive'
    <2>1. ASSUME NEW o \in Clients, NEW p \in Clients, NEW g \in Findings, o # p,
                 Rewrote(o, g)', Rewrote(p, g)'
          PROVE FALSE
      <3>1. CASE g = f
        BY <1>12, <1>20, <2>1, <3>1
      <3>2. CASE g # f
        <4>1. Rewrote(o, g) /\ Rewrote(p, g)
          BY <1>16, <1>20, <2>1, <3>2
        <4> QED BY <2>1, <4>1 DEF ClockInv, Exclusive
      <3> QED BY <3>1, <3>2
    <2> QED BY <2>1 DEF Exclusive
  <1>22. Continues'
    <2>1. ASSUME NEW o \in Clients, NEW g \in Findings, Rewrote(o, g)'
          PROVE Extends(gov'[g], tx'[o].rows[g])
      <3>1. CASE o = c /\ g = f
        BY <1>7, <1>13, <1>14, <3>1
      <3>2. CASE o = c /\ g # f
        <4>1. Rewrote(c, g)
          BY <1>16, <2>1, <3>2
        <4>2. Extends(gov[g], t.rows[g])
          BY <4>1 DEF ClockInv, Continues
        <4> QED BY <1>13, <1>14, <3>2, <4>2
      <3>3. CASE o # c
        <4>1. Rewrote(o, g)
          BY <1>20, <2>1, <3>3
        <4>2. Extends(gov[g], tx[o].rows[g])
          BY <4>1 DEF ClockInv, Continues
        <4> QED BY <1>12, <1>13, <3>3, <4>2
      <3> QED BY <3>1, <3>2, <3>3
    <2> QED BY <2>1 DEF Continues
  <1> QED BY <1>13, <1>19, <1>21, <1>22 DEF ClockInv

LEMMA CommitStep ==
  ASSUME ClockInv, TypeOK', NEW c \in Clients, CommitDecision(c)
  PROVE  ClockInv'
  <1>1. pc'[c] = "idle" /\ tx'[c].rows = [f \in Findings |-> NoRow]
    BY DEF CommitDecision, EndDecision, ClockInv, TypeOK, NoTx
  <1>2. \A o \in Clients \ {c} : pc'[o] = pc[o] /\ tx'[o] = tx[o]
    BY DEF CommitDecision, EndDecision, ClockInv, TypeOK
  <1>3. listed' = listed
    BY DEF CommitDecision
  <1>4. \A f \in Findings : gov'[f] = IF Rewrote(c, f) THEN tx[c].rows[f] ELSE gov[f]
    BY DEF CommitDecision
  <1>5. ASSUME NEW o \in Clients PROVE Reached(o)' /\ Pending(o)'
    <2>1. CASE o = c
      BY <1>1, <2>1 DEF Reached, Pending, Wrote
    <2>2. CASE o # c
      <3>1. pc'[o] = pc[o] /\ tx'[o] = tx[o]
        BY <1>2, <2>2
      <3> QED BY <1>3, <3>1 DEF ClockInv, Reached, Pending, Wrote, Rewrote
    <2> QED BY <2>1, <2>2
  <1>6. ASSUME NEW o \in Clients, NEW f \in Findings, Rewrote(o, f)'
        PROVE o # c /\ Rewrote(o, f) /\ tx'[o] = tx[o]
    <2>1. o # c
      BY <1>1, <1>6 DEF Rewrote, NoRow
    <2> QED BY <1>2, <1>6, <2>1 DEF Rewrote
  <1>7. Exclusive'
    BY <1>6 DEF ClockInv, Exclusive
  <1>8. Continues'
    <2>1. ASSUME NEW o \in Clients, NEW f \in Findings, Rewrote(o, f)'
          PROVE Extends(gov'[f], tx'[o].rows[f])
      <3>1. o # c /\ Rewrote(o, f) /\ tx'[o] = tx[o]
        BY <1>6, <2>1
      <3>2. ~Rewrote(c, f)
        BY <3>1 DEF ClockInv, Exclusive
      <3>3. Extends(gov[f], tx[o].rows[f])
        BY <3>1 DEF ClockInv, Continues
      <3> QED BY <1>4, <3>1, <3>2, <3>3
    <2> QED BY <2>1 DEF Continues
  <1>9. ASSUME NEW f \in Findings PROVE Blank(gov'[f])
    BY <1>4 DEF ClockInv, Blank, Rewrote
  <1> QED BY <1>5, <1>7, <1>8, <1>9 DEF ClockInv

LEMMA NextClock == ClockInv /\ [Next]_vars => ClockInv'
  <1>1. SUFFICES ASSUME ClockInv, [Next]_vars PROVE ClockInv'
    OBVIOUS
  <1>2. TypeOK'
    BY <1>1, NextType DEF ClockInv
  <1>3. CASE Tick
    BY <1>1, <1>2, <1>3, OutsideStep DEF Tick, db
  <1>4. ASSUME NEW f \in Findings, Ingest(f) PROVE ClockInv'
    BY <1>1, <1>2, <1>4, OutsideStep DEF Ingest
  <1>5. ASSUME NEW level \in {"check", "category"}, NEW days \in PolicyDays,
               CreatePolicy(level, days)
        PROVE ClockInv'
    BY <1>1, <1>2, <1>5, OutsideStep DEF CreatePolicy
  <1>6. ASSUME NEW days \in PolicyDays, UpdateCategory(days) PROVE ClockInv'
    BY <1>1, <1>2, <1>6, OutsideStep DEF UpdateCategory
  <1>7. ASSUME NEW f \in Findings, NEW days \in PolicyDays, ExtendSla(f, days)
        PROVE ClockInv'
    BY <1>1, <1>2, <1>7, OutsideStep DEF ExtendSla, db
  <1>8. CASE UNCHANGED vars
    BY <1>1, <1>2, <1>8, OutsideStep DEF vars, db
  <1>9. ASSUME NEW c \in Clients,
               \/ \E s \in Subjects, d \in Requests : BeginDecision(c, s, d)
               \/ WriteDecision(c)
               \/ LookUp(c)
               \/ SyncClock(c)
               \/ CommitDecision(c)
               \/ AbortDecision(c)
        PROVE ClockInv'
    BY <1>1, <1>2, <1>9, BeginStep, WriteStep, LookUpStep, SyncStep, CommitStep, AbortStep
  <1> QED BY <1>1, <1>3, <1>4, <1>5, <1>6, <1>7, <1>8, <1>9 DEF Next

LEMMA ClockInvariant == Spec => []ClockInv
  BY InitClock, NextClock, PTL DEF Spec

-----------------------------------------------------------------------------
\* The governance row of a finding changes only when a transaction commits.
LEMMA CommittedClock ==
  ASSUME ClockInv, [Next]_vars, NEW f \in Findings, gov'[f] # gov[f]
  PROVE  Extends(gov[f], gov'[f])
  <1>1. ASSUME NEW c \in Clients, CommitDecision(c) PROVE Extends(gov[f], gov'[f])
    <2>1. gov'[f] = IF Rewrote(c, f) THEN tx[c].rows[f] ELSE gov[f]
      BY <1>1 DEF CommitDecision
    <2> QED BY <2>1 DEF ClockInv, Continues
  <1>2. CASE gov' = gov
    BY <1>2
  <1>3. gov' = gov \/ \E c \in Clients : CommitDecision(c)
    BY DEF Next, Tick, Ingest, CreatePolicy, UpdateCategory, ExtendSla, BeginDecision,
           WriteDecision, LookUp, SyncClock, AbortDecision, vars, db
  <1> QED BY <1>1, <1>2, <1>3

LEMMA SameClock ==
  ASSUME NEW r \in Rows, r.created # 0
  PROVE  Extends(r, r)
  BY DEF Extends, Rows

\* Whatever requests overlap, credited time is never taken back.
THEOREM ClocksOnlyExtend == Spec => ClockOnlyExtends
  <1>1. ClockInv /\ [Next]_vars =>
          [\A f \in Findings : gov[f].created # 0 =>
             /\ gov'[f].created = gov[f].created
             /\ gov[f].opened # 0 => gov'[f].opened = gov[f].opened
             /\ gov'[f].paused >= gov[f].paused
             /\ gov'[f].extension >= gov[f].extension]_vars
    <2>1. SUFFICES ASSUME ClockInv, [Next]_vars, NEW f \in Findings, gov[f].created # 0
                   PROVE /\ gov'[f].created = gov[f].created
                         /\ gov[f].opened # 0 => gov'[f].opened = gov[f].opened
                         /\ gov'[f].paused >= gov[f].paused
                         /\ gov'[f].extension >= gov[f].extension
      OBVIOUS
    <2>2. gov[f] \in Rows
      BY <2>1 DEF ClockInv, TypeOK
    <2>3. Extends(gov[f], gov'[f])
      BY <2>1, <2>2, CommittedClock, SameClock
    <2> QED BY <2>1, <2>3 DEF Extends
  <1> QED BY <1>1, ClockInvariant, PTL DEF Spec, ClockOnlyExtends

\* A recorded breach keeps its time while a deadline applies.
THEOREM BreachesStay == Spec => RecordedBreachStays
  <1>1. ClockInv /\ [Next]_vars =>
          [\A f \in Findings : gov[f].breachedAt # 0 /\ gov'[f].deadline # 0
             => gov'[f].breachedAt = gov[f].breachedAt]_vars
    BY CommittedClock DEF Extends
  <1> QED BY <1>1, ClockInvariant, PTL DEF Spec, RecordedBreachStays

\* A decision on a finding is committed together with its governance row.
THEOREM DecisionsAreTracked == Spec => []OwnDecisionIsTracked
  <1>1. Init => OwnDecisionIsTracked
    BY DEF Init, OwnDecisionIsTracked, NoDecision, Subjects
  <1>2. ClockInv /\ OwnDecisionIsTracked /\ [Next]_vars => OwnDecisionIsTracked'
    <2>1. SUFFICES ASSUME ClockInv, OwnDecisionIsTracked, [Next]_vars,
                          NEW f \in Findings, decision'[f].state # "none"
                   PROVE  gov'[f].created # 0
      BY DEF OwnDecisionIsTracked
    <2>2. gov[f].created # 0 => gov'[f].created # 0
      BY <2>1, CommittedClock DEF Extends
    <2>3. CASE decision'[f] = decision[f]
      BY <2>1, <2>2, <2>3 DEF OwnDecisionIsTracked
    <2>4. ASSUME NEW c \in Clients, CommitDecision(c), decision'[f] # decision[f]
          PROVE gov'[f].created # 0
      <3>1. f = tx[c].subject
        BY <2>1, <2>4 DEF CommitDecision, ClockInv, TypeOK, Subjects
      <3>2. pc[c] = "commit" /\ Reached(c) /\ Pending(c)
        BY <2>1, <2>4 DEF CommitDecision, ClockInv
      <3>3. Rewrote(c, f)
        BY <2>1, <3>1, <3>2 DEF Reached, Pending, Wrote
      <3>4. gov'[f] = tx[c].rows[f]
        BY <2>4, <3>3 DEF CommitDecision
      <3> QED BY <3>3, <3>4 DEF Rewrote
    <2>5. decision' = decision \/ \E c \in Clients : CommitDecision(c)
      BY <2>1 DEF Next, Tick, Ingest, CreatePolicy, UpdateCategory, ExtendSla,
           BeginDecision, WriteDecision, LookUp, SyncClock, AbortDecision, vars, db
    <2> QED BY <2>3, <2>4, <2>5
  <1> QED BY <1>1, <1>2, ClockInvariant, PTL DEF Spec

-----------------------------------------------------------------------------
(* Requests served one at a time.                                            *)

Alone == \A c, o \in Clients : c # o /\ pc[c] # "idle" => pc[o] = "idle"

\* At time t the row has been credited at most the time since it was made.
Budget(r, t) ==
  r.created # 0 =>
    /\ r.created <= t
    /\ r.pausedAt <= t
    /\ r.paused + (IF r.pausedAt = 0 THEN 0 ELSE t - r.pausedAt) <= t - r.created

\* The committed rows are within their budget at the event time of the request
\* under way, and so are the rows it has written.
Budgets ==
  /\ \A f \in Findings : Budget(gov[f], now)
  /\ \A c \in Clients : pc[c] # "idle" =>
       /\ tx[c].ts <= now
       /\ \A f \in Findings :
            Budget(gov[f], tx[c].ts) /\ Budget(tx[c].rows[f], tx[c].ts)

BudgetInv == overlapped = "no" => Alone /\ Budgets

LEMMA LaterBudget ==
  ASSUME NEW r \in Rows, NEW t \in Nat, NEW u \in Nat, t <= u, Budget(r, t)
  PROVE  Budget(r, u)
  BY DEF Budget, Rows

LEMMA NoRowBudget == \A t : Budget(NoRow, t)
  BY DEF Budget, NoRow

LEMMA SyncedBudget ==
  ASSUME NEW r \in Rows, NEW state \in Effective, NEW days \in Nat,
         NEW ts \in Nat \ {0}, Budget(r, ts)
  PROVE  Budget(Synced(r, state, days, ts), ts)
  <1> DEFINE i == Inserted(r, state, days, ts)
             s == Synced(r, state, days, ts)
  <1>1. i \in Rows
    BY InsertedType
  <1>2. i.created # 0 /\ Budget(i, ts)
    <2>1. CASE r.created # 0
      BY <2>1 DEF Inserted
    <2>2. CASE r.created = 0
      <3>1. i.created = ts /\ i.pausedAt = 0 /\ i.paused = 0
        BY <2>2 DEF Inserted, NoRow
      <3> HIDE DEF i
      <3> QED BY <3>1 DEF Budget
    <2> QED BY <2>1, <2>2
  <1> HIDE DEF i
  <1>3. /\ s.created = i.created
        /\ s.pausedAt = PausedAt(i, state, ts)
        /\ s.paused = Paused(i, state, ts)
    BY DEF Synced, Moved, i
  <1>4. i.pausedAt \in Nat /\ i.paused \in Nat /\ i.created \in Nat
    BY <1>1 DEF Rows
  <1>5. /\ i.created <= ts
        /\ i.pausedAt <= ts
        /\ i.paused + (IF i.pausedAt = 0 THEN 0 ELSE ts - i.pausedAt) <= ts - i.created
    BY <1>2 DEF Budget
  <1> HIDE DEF s
  <1>6. Budget(s, ts)
    <2>1. CASE Resumes(i, state)
      <3>1. s.pausedAt = 0 /\ s.paused = i.paused + Elapsed(i.pausedAt, ts)
        BY <1>3, <2>1 DEF PausedAt, Paused
      <3>2. Elapsed(i.pausedAt, ts) = ts - i.pausedAt /\ i.pausedAt # 0
        BY <1>4, <1>5, <2>1 DEF Elapsed, Resumes
      <3> QED BY <1>3, <1>4, <1>5, <3>1, <3>2 DEF Budget
    <2>2. CASE ~Resumes(i, state)
      <3>1. s.pausedAt \in {ts, i.pausedAt} /\ (i.pausedAt # 0 => s.pausedAt = i.pausedAt)
        BY <1>3, <2>2 DEF PausedAt
      <3>2. s.paused = i.paused
        BY <1>3, <1>4, <2>2 DEF Paused
      <3> QED BY <1>3, <1>4, <1>5, <3>1, <3>2 DEF Budget
    <2> QED BY <2>1, <2>2
  <1> QED BY <1>6 DEF s

LEMMA InitBudget == Init => BudgetInv
  <1>1. SUFFICES ASSUME Init, NEW f \in Findings PROVE Budget(gov[f], now)
    BY DEF Init, BudgetInv, Budgets, Alone
  <1>2. Budget(Synced(NoRow, "open", DefaultDays, 1), 1)
    BY SyncedBudget, NoRowBudget, NoRowType, ClockAssumption DEF Effective
  <1> QED BY <1>1, <1>2, NoRowBudget DEF Init

LEMMA NextBudget ==
  ASSUME Alone, ClockInv, ClockInv', Budgets, [Next]_vars, overlapped' = "no"
  PROVE  Alone' /\ Budgets'
  <1>1. /\ now \in Nat /\ gov \in [Findings -> Rows] /\ tx \in [Clients -> Transactions]
        /\ now' \in Nat /\ now <= now'
    BY DEF ClockInv, TypeOK, Next, Tick, Ingest, CreatePolicy, UpdateCategory, ExtendSla,
           BeginDecision, WriteDecision, LookUp, SyncClock, CommitDecision, AbortDecision,
           vars
  <1>2. CASE UNCHANGED <<pc, tx, gov>>
    <2>1. \A f \in Findings : Budget(gov[f], now')
      BY <1>1, LaterBudget DEF Budgets
    <2>2. ASSUME NEW c \in Clients, pc[c] # "idle"
          PROVE /\ tx[c].ts <= now'
                /\ \A f \in Findings :
                     Budget(gov[f], tx[c].ts) /\ Budget(tx[c].rows[f], tx[c].ts)
      BY <1>1, <2>2 DEF Budgets, Transactions
    <2> QED BY <1>2, <2>1, <2>2 DEF Budgets, Alone
  <1>3. ASSUME NEW c \in Clients, UNCHANGED <<now, gov>>,
               \A o \in Clients \ {c} : pc[o] = "idle" /\ pc'[o] = pc[o],
               pc'[c] # "idle" =>
                 /\ tx'[c].ts \in {now, tx[c].ts}
                 /\ tx'[c].ts # now => pc[c] # "idle"
                 /\ \A f \in Findings : Budget(tx'[c].rows[f], tx'[c].ts)
        PROVE Alone' /\ Budgets'
    <2>1. ASSUME NEW o \in Clients, pc'[o] # "idle"
          PROVE /\ tx'[o].ts <= now
                /\ \A f \in Findings :
                     Budget(gov[f], tx'[o].ts) /\ Budget(tx'[o].rows[f], tx'[o].ts)
      <3>1. o = c
        BY <1>3, <2>1
      <3> QED BY <1>1, <1>3, <2>1, <3>1 DEF Budgets
    <2> QED BY <1>3, <2>1 DEF Budgets, Alone
  <1>4. ASSUME NEW c \in Clients, NEW s \in Subjects, NEW d \in Requests,
               BeginDecision(c, s, d)
        PROVE Alone' /\ Budgets'
    <2>1. tx'[c] = Started(s, d)
      BY <1>1, <1>4 DEF BeginDecision
    <2>2. tx'[c].ts = now /\ tx'[c].rows = [f \in Findings |-> NoRow]
      BY <2>1 DEF Started, NoTx
    <2>3. \A o \in Clients \ {c} : pc[o] = "idle" /\ pc'[o] = pc[o]
      BY <1>4 DEF BeginDecision, ClockInv, TypeOK
    <2> QED BY <1>3, <1>4, <2>2, <2>3, NoRowBudget DEF BeginDecision, db
  <1>5. ASSUME NEW c \in Clients, WriteDecision(c) PROVE Alone' /\ Budgets'
    <2>1. tx'[c] = [tx[c] EXCEPT !.todo = Covered(tx[c].subject) \cap listed]
      BY <1>1, <1>5 DEF WriteDecision
    <2>2. tx'[c].ts = tx[c].ts /\ tx'[c].rows = tx[c].rows
      BY <1>1, <2>1 DEF Transactions
    <2>3. pc[c] # "idle" /\ UNCHANGED <<now, gov>>
      BY <1>5 DEF WriteDecision, db
    <2>4. \A o \in Clients \ {c} : pc[o] = "idle" /\ pc'[o] = pc[o]
      BY <1>5 DEF WriteDecision, Alone, ClockInv, TypeOK
    <2> QED BY <1>3, <2>4, <2>2, <2>3 DEF Budgets
  <1>6. ASSUME NEW c \in Clients, LookUp(c) PROVE Alone' /\ Budgets'
    <2>1. PICK f, e, n : tx'[c] = LookedUp(tx[c], f, e, n)
      BY <1>1, <1>6 DEF LookUp
    <2>2. tx'[c].ts = tx[c].ts /\ tx'[c].rows = tx[c].rows
      BY <1>1, <2>1 DEF Transactions, LookedUp
    <2>3. pc[c] # "idle" /\ UNCHANGED <<now, gov>>
      BY <1>6 DEF LookUp, db
    <2>4. \A o \in Clients \ {c} : pc[o] = "idle" /\ pc'[o] = pc[o]
      BY <1>6 DEF LookUp, Alone, ClockInv, TypeOK
    <2> QED BY <1>3, <2>4, <2>2, <2>3 DEF Budgets
  <1>7. ASSUME NEW c \in Clients, SyncClock(c) PROVE Alone' /\ Budgets'
    <2>1. pc[c] = "sync" /\ UNCHANGED <<now, gov>>
      BY <1>7 DEF SyncClock, db
    <2>2. Reached(c)
      BY DEF ClockInv
    <2>3. PICK f \in Findings : f = tx[c].finding
      BY <2>1, <2>2 DEF Reached
    <2>4. PICK row : row = Synced(gov[f], tx[c].state, tx[c].days, tx[c].ts)
      OBVIOUS
    <2>5. Budget(gov[f], tx[c].ts)
      BY <2>1 DEF Budgets
    <2>6. /\ tx[c].ts \in Nat \ {0} /\ gov[f] \in Rows
          /\ tx[c].state \in Effective /\ tx[c].days \in Nat
      BY <1>1, <2>1, <2>2 DEF Reached, Transactions
    <2>7. Budget(row, tx[c].ts)
      BY <2>4, <2>5, <2>6, SyncedBudget
    <2>8. tx'[c] = WithRow(tx[c], f, row)
      BY <1>1, <1>7, <2>3, <2>4 DEF SyncClock
    <2>9. tx'[c].ts = tx[c].ts /\ tx'[c].rows = [tx[c].rows EXCEPT ![f] = row]
      BY <1>1, <2>8 DEF WithRow, Transactions
    <2>10. \A g \in Findings : tx'[c].rows[g] = IF g = f THEN row ELSE tx[c].rows[g]
      BY <1>1, <2>9 DEF Transactions
    <2>11. \A o \in Clients \ {c} : pc[o] = "idle" /\ pc'[o] = pc[o]
      BY <1>7 DEF SyncClock, Alone, ClockInv, TypeOK
    <2> QED BY <1>3, <2>11, <2>1, <2>7, <2>9, <2>10 DEF Budgets
  <1>8. ASSUME NEW c \in Clients, CommitDecision(c) PROVE Alone' /\ Budgets'
    <2>1. pc[c] # "idle" /\ tx[c].ts \in Nat /\ tx[c].rows \in [Findings -> Rows]
      BY <1>1, <1>8 DEF CommitDecision, Transactions
    <2>2. now' = now
      BY <1>8 DEF CommitDecision
    <2>3. ASSUME NEW f \in Findings PROVE Budget(gov'[f], now)
      <3>1. gov'[f] \in {tx[c].rows[f], gov[f]}
        BY <1>8 DEF CommitDecision
      <3>2. Budget(tx[c].rows[f], now)
        BY <1>1, <2>1, LaterBudget DEF Budgets
      <3> QED BY <3>1, <3>2 DEF Budgets
    <2>4. \A o \in Clients : pc'[o] = "idle"
      BY <1>8 DEF Alone, CommitDecision, EndDecision, ClockInv, TypeOK
    <2> QED BY <2>2, <2>3, <2>4 DEF Budgets, Alone
  <1>9. ASSUME NEW c \in Clients, AbortDecision(c) PROVE Alone' /\ Budgets'
    <2>1. pc'[c] = "idle" /\ UNCHANGED <<now, gov>>
      BY <1>9 DEF AbortDecision, EndDecision, db, ClockInv, TypeOK
    <2>2. \A o \in Clients \ {c} : pc[o] = "idle" /\ pc'[o] = pc[o]
      BY <1>9 DEF AbortDecision, EndDecision, Alone, ClockInv, TypeOK
    <2> QED BY <1>3, <2>2, <2>1
  <1>10. \/ UNCHANGED <<pc, tx, gov>>
         \/ \E c \in Clients :
              \/ \E s \in Subjects, d \in Requests : BeginDecision(c, s, d)
              \/ WriteDecision(c) \/ LookUp(c) \/ SyncClock(c) \/ CommitDecision(c)
              \/ AbortDecision(c)
    BY DEF Next, Tick, Ingest, CreatePolicy, UpdateCategory, ExtendSla, vars, db
  <1> QED BY <1>2, <1>4, <1>5, <1>6, <1>7, <1>8, <1>9, <1>10

LEMMA BudgetInvariant == Spec => []BudgetInv
  <1>1. ClockInv /\ ClockInv' /\ BudgetInv /\ [Next]_vars => BudgetInv'
    <2>1. SUFFICES ASSUME ClockInv, ClockInv', BudgetInv, [Next]_vars, overlapped' = "no"
                   PROVE  Alone' /\ Budgets'
      BY DEF BudgetInv
    <2>2. overlapped = "no"
      BY <2>1 DEF Next, Tick, Ingest, CreatePolicy, UpdateCategory, ExtendSla,
           BeginDecision, WriteDecision, LookUp, SyncClock, CommitDecision,
           AbortDecision, vars
    <2> QED BY <2>1, <2>2, NextBudget DEF BudgetInv
  <1> QED BY <1>1, InitBudget, ClockInvariant, PTL DEF Spec

\* As long as requests have been served one at a time, no day is counted twice.
THEOREM SerialPausesCountOnce == Spec => []NoPauseCountedTwice
  <1>1. BudgetInv => NoPauseCountedTwice
    BY DEF BudgetInv, Budgets, Budget, NoPauseCountedTwice
  <1> QED BY <1>1, BudgetInvariant, PTL

-----------------------------------------------------------------------------
(* Pauses that follow the decisions, as long as requests are served one at a  *)
(* time.                                                                     *)

\* The row's clock stands still as these decisions say at time t.
Follows(r, group, own, t) ==
  r.created # 0 =>
    /\ EffectiveState(group, own, t) = "snoozed" => r.pausedAt # 0
    /\ r.pausedAt # 0 => "snoozed" \in {own.state, group.state}

\* The transaction has yet to synchronise f, is about to, or has.
Concerns(c, f) ==
  \/ f \in tx[c].todo
  \/ pc[c] = "sync" /\ tx[c].finding = f
  \/ Rewrote(c, f)

\* A transaction that has written its decision moves every clock it concerns, by
\* the decisions it sees.
Synchronises(c) ==
  LET t == tx[c]
  IN  /\ t.todo \subseteq listed
      /\ pc[c] = "sync" =>
           /\ t.finding \in listed
           /\ t.state = EffectiveState(Sees(c, GroupOf[t.finding]), Sees(c, t.finding), t.ts)
      /\ \A f \in Findings : Rewrote(c, f) =>
           /\ f \in listed
           /\ Follows(t.rows[f], Sees(c, GroupOf[f]), Sees(c, f), t.ts)
      /\ \A f \in Covered(t.subject) : gov[f].created # 0 => Concerns(c, f)

Following ==
  /\ \A f \in Findings : gov[f].created # 0 => f \in listed
  /\ \A f \in Findings : Follows(gov[f], decision[GroupOf[f]], decision[f], now)
  /\ \A c \in Clients : Wrote(c) => Synchronises(c)

FollowInv == overlapped = "no" => Following

\* An effective snooze has been one all along: it can only expire.
LEMMA FollowsLater ==
  ASSUME NEW r \in Rows, NEW g \in [state : States, until : Nat],
         NEW o \in [state : States, until : Nat], NEW t \in Nat, NEW u \in Nat,
         t <= u, Follows(r, g, o, t)
  PROVE  Follows(r, g, o, u)
  BY DEF Follows, EffectiveState, InForce

LEMMA SyncedFollows ==
  ASSUME NEW r \in Rows, NEW g \in [state : States, until : Nat],
         NEW o \in [state : States, until : Nat], NEW days \in Nat, NEW ts \in Nat \ {0},
         NEW state, state = EffectiveState(g, o, ts)
  PROVE  Follows(Synced(r, state, days, ts), g, o, ts)
  <1> DEFINE i == Inserted(r, state, days, ts)
  <1>1. Synced(r, state, days, ts).pausedAt = PausedAt(i, state, ts)
    BY DEF Synced, Moved
  <1> HIDE DEF i
  <1>2. PausedAt(i, state, ts) # 0 <=> state = "snoozed"
    BY DEF PausedAt, Resumes
  <1>3. state = "snoozed" => "snoozed" \in {o.state, g.state}
    BY DEF EffectiveState
  <1> QED BY <1>1, <1>2, <1>3 DEF Follows

LEMMA SeesType ==
  ASSUME TypeOK, NEW c \in Clients, NEW f \in Findings
  PROVE  /\ Sees(c, GroupOf[f]) \in [state : States, until : Nat]
         /\ Sees(c, f) \in [state : States, until : Nat]
  <1>1. GroupOf[f] \in Subjects /\ f \in Subjects
    BY ClockAssumption DEF Subjects
  <1> QED BY <1>1 DEF Sees, TypeOK, Transactions

LEMMA InitFollow == Init => FollowInv
  <1>1. SUFFICES ASSUME Init PROVE Following
    BY DEF FollowInv
  <1>2. \A f \in Findings : /\ decision[f] = NoDecision /\ decision[GroupOf[f]] = NoDecision
                            /\ f \notin listed => gov[f].created = 0
    BY <1>1, ClockAssumption DEF Init, Subjects, NoRow
  <1>3. EffectiveState(NoDecision, NoDecision, 1) = "open"
    BY DEF EffectiveState, InForce, NoDecision
  <1>4. NoDecision \in [state : States, until : Nat]
    BY DEF NoDecision, States
  <1>5. Follows(Synced(NoRow, "open", DefaultDays, 1), NoDecision, NoDecision, 1)
    BY <1>3, <1>4, SyncedFollows, NoRowType, ClockAssumption
  <1>6. Follows(NoRow, NoDecision, NoDecision, 1)
    BY DEF Follows, NoRow
  <1>7. \A f \in Findings : Follows(gov[f], NoDecision, NoDecision, now)
    BY <1>1, <1>5, <1>6 DEF Init
  <1>8. \A c \in Clients : ~Wrote(c)
    BY <1>1 DEF Init, Wrote
  <1> QED BY <1>2, <1>7, <1>8 DEF Following

\* Steps outside the lifecycle requests: time passes, findings are ingested.
LEMMA OutsideFollows ==
  ASSUME Following, TypeOK, TypeOK', UNCHANGED <<pc, tx, gov, decision>>,
         listed \subseteq listed', now <= now'
  PROVE  Following'
  <1>1. \A f \in Findings : Follows(gov[f], decision[GroupOf[f]], decision[f], now')
    <2> TAKE f \in Findings
    <2>1. /\ gov[f] \in Rows /\ decision[GroupOf[f]] \in [state : States, until : Nat]
          /\ decision[f] \in [state : States, until : Nat] /\ now \in Nat /\ now' \in Nat
      BY ClockAssumption DEF TypeOK, Subjects
    <2> QED BY <2>1, FollowsLater DEF Following
  <1>2. ASSUME NEW c \in Clients, Wrote(c)' PROVE Synchronises(c)'
    <2>1. Synchronises(c)
      BY <1>2 DEF Following, Wrote
    <2>2. \A s : Sees(c, s)' = Sees(c, s)
      BY DEF Sees
    <2>3. \A f : Rewrote(c, f)' = Rewrote(c, f) /\ Concerns(c, f)' = Concerns(c, f)
      BY DEF Rewrote, Concerns
    <2> QED BY <2>1, <2>2, <2>3 DEF Synchronises
  <1> QED BY <1>1, <1>2 DEF Following

\* Steps of the one client that is not idle, short of its commit.
LEMMA AloneFollows ==
  ASSUME Following, NEW c \in Clients, UNCHANGED <<now, gov, decision, listed>>,
         \A o \in Clients \ {c} : pc'[o] = "idle",
         Wrote(c)' => Synchronises(c)'
  PROVE  Following'
  <1>1. \A o \in Clients : Wrote(o)' => o = c
    BY DEF Wrote
  <1>2. \A f \in Findings : /\ gov'[f].created # 0 => f \in listed'
                            /\ Follows(gov'[f], decision'[GroupOf[f]], decision'[f], now')
    BY DEF Following
  <1> QED BY <1>1, <1>2 DEF Following

LEMMA WriteFollows ==
  ASSUME ClockInv, Alone, Following, NEW c \in Clients, WriteDecision(c)
  PROVE  Following'
  <1> DEFINE todo == Covered(tx[c].subject) \cap listed
  <1>1. /\ pc[c] = "write" /\ tx[c] \in Transactions /\ UNCHANGED <<now, gov, decision, listed>>
        /\ tx'[c] = [tx[c] EXCEPT !.todo = todo]
        /\ pc'[c] = IF todo = {} THEN "commit" ELSE "look"
        /\ \A o \in Clients \ {c} : pc'[o] = "idle"
    BY DEF WriteDecision, db, Alone, ClockInv, TypeOK
  <1>2. tx'[c].todo = todo /\ tx'[c].rows = tx[c].rows /\ tx'[c].subject = tx[c].subject
    <2> HIDE DEF todo
    <2> QED BY <1>1 DEF Transactions
  <1>3. tx[c].rows = [f \in Findings |-> NoRow]
    BY <1>1 DEF ClockInv, Reached
  <1>4. \A f \in Findings : ~Rewrote(c, f)'
    BY <1>2, <1>3 DEF Rewrote, NoRow
  <1>5. Covered(tx[c].subject) \subseteq Findings
    BY DEF Covered
  <1>6. Synchronises(c)'
    <2>1. tx'[c].todo \subseteq listed' /\ pc'[c] # "sync"
      BY <1>1, <1>2
    <2>2. \A f \in Covered(tx'[c].subject) : gov'[f].created # 0 => f \in tx'[c].todo
      BY <1>1, <1>2, <1>5 DEF Following
    <2> QED BY <1>4, <2>1, <2>2 DEF Synchronises, Concerns
  <1> QED BY <1>1, <1>6, AloneFollows

LEMMA LookUpFollows ==
  ASSUME ClockInv, Alone, Following, NEW c \in Clients, LookUp(c)
  PROVE  Following'
  <1>1. PICK f \in tx[c].todo :
          tx' = [tx EXCEPT ![c] = LookedUp(tx[c], f,
            EffectiveState(Sees(c, GroupOf[f]), Sees(c, f), tx[c].ts), SlaDays(policy))]
    BY DEF LookUp
  <1> DEFINE e == EffectiveState(Sees(c, GroupOf[f]), Sees(c, f), tx[c].ts)
  <1>2. /\ pc[c] = "look" /\ tx[c] \in Transactions /\ UNCHANGED <<now, gov, decision, listed>>
        /\ tx'[c] = LookedUp(tx[c], f, e, SlaDays(policy)) /\ pc'[c] = "sync"
        /\ \A o \in Clients \ {c} : pc'[o] = "idle"
    BY <1>1 DEF LookUp, db, Alone, ClockInv, TypeOK
  <1>3. /\ tx'[c].todo = tx[c].todo \ {f} /\ tx'[c].finding = f /\ tx'[c].state = e
        /\ tx'[c].rows = tx[c].rows /\ tx'[c].subject = tx[c].subject
        /\ tx'[c].decision = tx[c].decision /\ tx'[c].ts = tx[c].ts
    <2> HIDE DEF e
    <2> QED BY <1>2 DEF Transactions, LookedUp
  <1>4. \A s : Sees(c, s)' = Sees(c, s)
    BY <1>2, <1>3 DEF Sees
  <1>5. \A x : Rewrote(c, x)' = Rewrote(c, x)
    BY <1>3 DEF Rewrote
  <1>6. Synchronises(c)
    BY <1>2 DEF Following, Wrote
  <1>7. Synchronises(c)'
    <2>1. tx'[c].todo \subseteq listed' /\ f \in listed'
      BY <1>1, <1>2, <1>3, <1>6 DEF Synchronises
    <2>2. \A x : Concerns(c, x) => Concerns(c, x)'
      BY <1>2, <1>3, <1>5 DEF Concerns
    <2>3. tx'[c].state = EffectiveState(Sees(c, GroupOf[tx'[c].finding]), Sees(c, tx'[c].finding), tx'[c].ts)
      BY <1>3
    <2>4. \A x \in Findings : Rewrote(c, x) =>
            x \in listed /\ Follows(tx[c].rows[x], Sees(c, GroupOf[x]), Sees(c, x), tx[c].ts)
      BY <1>6 DEF Synchronises
    <2>5. \A x \in Covered(tx[c].subject) : gov[x].created # 0 => Concerns(c, x)
      BY <1>6 DEF Synchronises
    <2> HIDE DEF e
    <2> QED BY <1>2, <1>3, <1>4, <1>5, <2>1, <2>2, <2>3, <2>4, <2>5 DEF Synchronises
  <1> QED BY <1>2, <1>7, AloneFollows

LEMMA SyncFollows ==
  ASSUME ClockInv, Alone, Following, NEW c \in Clients, SyncClock(c)
  PROVE  Following'
  <1>1. /\ pc[c] = "sync" /\ tx[c] \in Transactions /\ UNCHANGED <<now, gov, decision, listed>>
        /\ pc'[c] \in {"commit", "look"}
        /\ \A o \in Clients \ {c} : pc'[o] = "idle"
    BY DEF SyncClock, db, Alone, ClockInv, TypeOK
  <1>2. PICK f \in Findings : f = tx[c].finding
    BY <1>1 DEF ClockInv, Reached
  <1>3. PICK row : row = Synced(gov[f], tx[c].state, tx[c].days, tx[c].ts)
    OBVIOUS
  <1>4. tx'[c] = WithRow(tx[c], f, row)
    BY <1>2, <1>3 DEF SyncClock, ClockInv, TypeOK
  <1>5. /\ tx'[c].todo = tx[c].todo /\ tx'[c].rows = [tx[c].rows EXCEPT ![f] = row]
        /\ tx'[c].subject = tx[c].subject /\ tx'[c].decision = tx[c].decision
        /\ tx'[c].ts = tx[c].ts
    BY <1>1, <1>4 DEF WithRow, Transactions
  <1>6. \A x \in Findings : tx'[c].rows[x] = IF x = f THEN row ELSE tx[c].rows[x]
    BY <1>1, <1>5 DEF Transactions
  <1>7. \A s : Sees(c, s)' = Sees(c, s)
    BY <1>1, <1>5 DEF Sees
  <1>8. Synchronises(c)
    BY <1>1 DEF Following, Wrote
  <1>9. /\ tx[c].ts \in Nat \ {0} /\ gov[f] \in Rows /\ Blank(gov[f])
        /\ tx[c].state \in Effective /\ tx[c].days \in Nat
    BY <1>1 DEF ClockInv, TypeOK, Reached, Transactions
  <1>10. row.created # 0
    BY <1>3, <1>9, SyncedBlank
  <1>11. Follows(row, Sees(c, GroupOf[f]), Sees(c, f), tx[c].ts) /\ f \in listed
    <2>1. /\ tx[c].state = EffectiveState(Sees(c, GroupOf[f]), Sees(c, f), tx[c].ts)
          /\ f \in listed
      BY <1>1, <1>2, <1>8 DEF Synchronises
    <2>2. /\ Sees(c, GroupOf[f]) \in [state : States, until : Nat]
          /\ Sees(c, f) \in [state : States, until : Nat]
      BY SeesType DEF ClockInv
    <2> QED BY <1>3, <1>9, <2>1, <2>2, SyncedFollows
  <1>12. \A x \in Findings : Rewrote(c, x)' <=> (x = f \/ Rewrote(c, x))
    BY <1>6, <1>10 DEF Rewrote
  <1>13. Synchronises(c)'
    <2>1. tx'[c].todo \subseteq listed' /\ pc'[c] # "sync"
      BY <1>1, <1>5, <1>8 DEF Synchronises
    <2>2. \A x \in Findings : Rewrote(c, x)' =>
            x \in listed /\ Follows(tx'[c].rows[x], Sees(c, GroupOf[x]), Sees(c, x), tx[c].ts)
      BY <1>6, <1>8, <1>11, <1>12 DEF Synchronises
    <2>3. \A x \in Findings : Concerns(c, x) => Concerns(c, x)'
      BY <1>1, <1>2, <1>5, <1>12 DEF Concerns
    <2>4. \A x \in Covered(tx[c].subject) : gov[x].created # 0 => Concerns(c, x)'
      BY <1>8, <2>3 DEF Synchronises, Covered
    <2> QED BY <1>1, <1>5, <1>7, <2>1, <2>2, <2>4 DEF Synchronises
  <1> QED BY <1>1, <1>13, AloneFollows

\* What is committed has been synchronised with the decision that is committed.
LEMMA CommitFollows ==
  ASSUME ClockInv, Alone, Budgets, Following, NEW c \in Clients, CommitDecision(c)
  PROVE  Following'
  <1> DEFINE t == tx[c]
  <1>1. /\ pc[c] = "commit" /\ t \in Transactions /\ t.todo = {}
        /\ now' = now /\ listed' = listed /\ now \in Nat /\ t.ts \in Nat /\ t.ts <= now
    BY DEF CommitDecision, ClockInv, TypeOK, Reached, Budgets, Transactions
  <1>2. Synchronises(c)
    BY <1>1 DEF Following, Wrote
  <1>3. \A o \in Clients : pc'[o] = "idle"
    BY DEF Alone, CommitDecision, EndDecision, ClockInv, TypeOK
  <1>4. \A s \in Subjects : decision'[s] = Sees(c, s)
    BY DEF CommitDecision, Sees, ClockInv, TypeOK
  <1>5. ASSUME NEW f \in Findings
        PROVE  /\ gov'[f].created # 0 => f \in listed
               /\ Follows(gov'[f], decision'[GroupOf[f]], decision'[f], now)
    <2>1. /\ decision'[GroupOf[f]] = Sees(c, GroupOf[f]) /\ decision'[f] = Sees(c, f)
          /\ GroupOf[f] \in Subjects /\ f \in Subjects
      BY <1>4, ClockAssumption DEF Subjects
    <2>2. gov'[f] = IF Rewrote(c, f) THEN t.rows[f] ELSE gov[f]
      BY DEF CommitDecision
    <2>3. CASE Rewrote(c, f)
      <3>1. f \in listed /\ Follows(t.rows[f], Sees(c, GroupOf[f]), Sees(c, f), t.ts)
        BY <1>2, <2>3 DEF Synchronises
      <3>2. t.rows[f] \in Rows
        BY <1>1 DEF Transactions
      <3>3. Follows(t.rows[f], Sees(c, GroupOf[f]), Sees(c, f), now)
        BY <1>1, <3>1, <3>2, SeesType, FollowsLater DEF ClockInv
      <3> QED BY <2>1, <2>2, <2>3, <3>1, <3>3
    <2>4. CASE ~Rewrote(c, f) /\ f \in Covered(t.subject)
      <3>1. gov[f].created = 0
        BY <1>1, <1>2, <2>4 DEF Synchronises, Concerns
      <3> QED BY <2>2, <2>4, <3>1 DEF Follows
    <2>5. CASE ~Rewrote(c, f) /\ f \notin Covered(t.subject)
      <3>1. f # t.subject /\ GroupOf[f] # t.subject
        BY <2>5, ClockAssumption DEF Covered
      <3>2. Sees(c, GroupOf[f]) = decision[GroupOf[f]] /\ Sees(c, f) = decision[f]
        BY <3>1 DEF Sees
      <3> QED BY <2>1, <2>2, <2>5, <3>2 DEF Following
    <2> QED BY <2>3, <2>4, <2>5
  <1> QED BY <1>1, <1>3, <1>5 DEF Following, Wrote

LEMMA NextFollow ==
  ASSUME ClockInv, ClockInv', Alone, Budgets, Following, [Next]_vars, overlapped' = "no"
  PROVE  Following'
  <1>1. TypeOK /\ TypeOK'
    BY DEF ClockInv
  <1>2. CASE UNCHANGED <<pc, tx>> /\ UNCHANGED <<gov, decision>>
    <2>1. listed \subseteq listed' /\ now <= now'
      BY <1>1 DEF Next, Tick, Ingest, CreatePolicy, UpdateCategory, ExtendSla, BeginDecision,
           WriteDecision, LookUp, SyncClock, CommitDecision, AbortDecision, vars, db, TypeOK
    <2> QED BY <1>1, <1>2, <2>1, OutsideFollows
  <1>3. ASSUME NEW c \in Clients, NEW s \in Subjects, NEW d \in Requests, BeginDecision(c, s, d)
        PROVE  Following'
    <2>1. pc'[c] = "write" /\ UNCHANGED <<now, gov, decision, listed>>
      BY <1>1, <1>3 DEF BeginDecision, db, TypeOK
    <2>2. \A o \in Clients \ {c} : pc'[o] = "idle"
      BY <1>1, <1>3 DEF BeginDecision, TypeOK
    <2> QED BY <2>1, <2>2, AloneFollows DEF Wrote
  <1>4. ASSUME NEW c \in Clients, AbortDecision(c) PROVE Following'
    <2>1. pc'[c] = "idle" /\ UNCHANGED <<now, gov, decision, listed>>
      BY <1>1, <1>4 DEF AbortDecision, EndDecision, db, TypeOK
    <2>2. \A o \in Clients \ {c} : pc'[o] = "idle"
      BY <1>1, <1>4 DEF AbortDecision, EndDecision, Alone, TypeOK
    <2> QED BY <2>1, <2>2, AloneFollows DEF Wrote
  <1>5. \/ UNCHANGED <<pc, tx>> /\ UNCHANGED <<gov, decision>>
        \/ \E c \in Clients :
             \/ \E s \in Subjects, d \in Requests : BeginDecision(c, s, d)
             \/ WriteDecision(c) \/ LookUp(c) \/ SyncClock(c) \/ CommitDecision(c)
             \/ AbortDecision(c)
    BY DEF Next, Tick, Ingest, CreatePolicy, UpdateCategory, ExtendSla, vars, db
  <1> QED BY <1>2, <1>3, <1>4, <1>5, WriteFollows, LookUpFollows, SyncFollows, CommitFollows

\* As long as requests have been served one at a time, a pause runs while a
\* snooze is in force, and none runs after both decisions have left snoozed.
THEOREM SerialPausesFollow == Spec => []SerialPauseFollows
  <1>1. /\ ClockInv /\ ClockInv' /\ BudgetInv /\ BudgetInv' /\ FollowInv /\ [Next]_vars
           => FollowInv'
    <2>1. SUFFICES ASSUME ClockInv, ClockInv', BudgetInv, FollowInv, [Next]_vars,
                          overlapped' = "no"
                   PROVE  Following'
      BY DEF FollowInv
    <2>2. overlapped = "no"
      BY <2>1 DEF Next, Tick, Ingest, CreatePolicy, UpdateCategory, ExtendSla,
           BeginDecision, WriteDecision, LookUp, SyncClock, CommitDecision,
           AbortDecision, vars
    <2> QED BY <2>1, <2>2, NextFollow DEF BudgetInv, FollowInv
  <1>2. FollowInv => SerialPauseFollows
    BY DEF FollowInv, Following, Follows, SerialPauseFollows, PauseFollowsDecisions
  <1> QED BY <1>1, <1>2, InitFollow, BudgetInvariant, ClockInvariant, PTL DEF Spec
=============================================================================
